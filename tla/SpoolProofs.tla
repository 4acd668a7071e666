---------------------------- MODULE SpoolProofs -----------------------------
(* Proofs about Spool, for any hosts, readers and threads, and any number   *)
(* of seconds and faults.                                                   *)
EXTENDS Spool, FiniteSetTheorems, WellFoundedInduction, TLAPS

\* The messages that deliver an event, and the watermark that the next host adopts.
Copies(e) == {m \in new \cup cur : m.thread = e.thread /\ m.at = e.at}
Checkpoint == IF cursors = None THEN 0 ELSE cursors
Settled(e) == e \in Delivered \cup Excused

\* What a reader has read and not yet printed it shows; what it is to ack it has shown.
ReaderInOrder(r) ==
  /\ unread[r] \subseteq ents[r] /\ ents[r] \subseteq new \cup cur
  /\ shown[r] \subseteq new \cup cur
  /\ rpc[r] \in {"reading", "printing"} =>
       \A m \in ents[r] \ unread[r] : m.thread \in Directed => m \in shown[r] \cup printed
  /\ rpc[r] \in {"printing", "acking"} => unread[r] = {}
  /\ rpc[r] = "acking" => \A m \in ents[r] : m.thread \in Directed => m \in printed

\* A host has a list and a latest delivery only while it polls.
AtRest == \A h \in Host : pc[h] # "polling" => list[h] = {} /\ top[h] = 0

\* No watermark and nothing listed is beyond the horizon.
WithinHorizon ==
  /\ cursors # None => cursors <= horizon
  /\ \A h \in Host : mem[h] <= horizon /\ top[h] <= horizon
  /\ \A h \in Host : \A f \in list[h] : f.at <= horizon

\* What a watermark has passed is settled, and of what a poll has passed or is to pass
\* the rest is on its list.
NothingPassedBy ==
  \A e \in Unread :
    /\ cursors # None /\ e.at <= cursors => Settled(e)
    /\ \A h \in Host : e.at <= mem[h] => Settled(e)
    /\ \A h \in Host : (e.at <= top[h] \/ \E f \in list[h] : e.at <= f.at) =>
         e \in list[h] \/ Settled(e)

\* An event is in the spool once more than there were faults only when the watermark
\* has passed it, or is about to.
FewCopies ==
  /\ \A e \in Event : Cardinality(Copies(e)) <= 1 + faults
  /\ \A h \in Host : pc[h] = "loop" =>
       \A e \in Event : e.at > mem[h] => Cardinality(Copies(e)) <= faults
  /\ \A h \in Host : pc[h] = "polling" =>
       \A e \in Event : e.at > mem[h] /\ e.at > top[h] => Cardinality(Copies(e)) <= faults
  /\ \A h \in Host : \A e \in list[h] :
       e.at > mem[h] /\ e.at >= top[h] /\ Cardinality(Copies(e)) <= faults
  /\ (\A h \in Host : pc[h] # "polling") =>
       \A e \in Event : e.at > Checkpoint => Cardinality(Copies(e)) <= faults

ReadersInOrder == \A r \in Reader : ReaderInOrder(r)

Typed == TypeOK /\ IsFiniteSet(new \cup cur)
SpoolInv ==
  Typed /\ ReadersInOrder /\ PrintedBeforeAck /\ AtRest /\ WithinHorizon /\ NothingPassedBy /\ FewCopies
-----------------------------------------------------------------------------
(* Seconds.                                                                 *)

LEMMA MaxOfTwo ==
  ASSUME NEW a \in Nat, NEW b \in Nat
  PROVE  Max({a, b}) \in Nat /\ Max({a, b}) >= a /\ Max({a, b}) >= b /\ Max({a, b}) \in {a, b}
<1>1. \E x \in {a, b} : \A y \in {a, b} : x >= y
  OBVIOUS
<1>2. Max({a, b}) \in {a, b} /\ \A y \in {a, b} : Max({a, b}) >= y
  BY <1>1 DEF Max
<1> QED
  BY <1>2

\* A set of numbers under a bound has a greatest one: the least distance to the bound.
LEMMA BoundedMax ==
  ASSUME NEW n \in Nat, NEW S, S \subseteq 0..n, S # {}
  PROVE  Max(S) \in S /\ \A y \in S : Max(S) >= y
<1> DEFINE D == {n - x : x \in S}
<1>1. D \subseteq Nat /\ D # {}
  <2>1. \A x \in S : n - x \in Nat
    OBVIOUS
  <2> QED
    BY <2>1
<1>2. PICK d \in D : \A c \in D : ~ (<<c, d>> \in OpToRel(<, Nat))
  BY <1>1, WFMin, NatLessThanWellFounded
<1>3. \A c \in D : ~ (c < d)
  BY <1>1, <1>2 DEF OpToRel
<1>4. PICK x \in S : d = n - x
  BY <1>2
<1>5. \A y \in S : x >= y
  BY <1>3, <1>4
<1> QED
  BY <1>5 DEF Max

LEMMA LatestBounds ==
  ASSUME NEW events, events \subseteq Event
  PROVE  Latest(events) \in 0..MaxClock /\ \A e \in events : e.at <= Latest(events)
<1> DEFINE S == {e.at : e \in events} \cup {0}
<1>1. MaxClock \in Nat /\ S \subseteq 0..MaxClock /\ S # {}
  BY SpoolAssumption DEF Event, Second
<1>2. Max(S) \in S /\ \A y \in S : Max(S) >= y
  BY <1>1, BoundedMax
<1> QED
  BY <1>1, <1>2 DEF Latest

\* An event and a message are given by their fields.
LEMMA Fields ==
  /\ \A t \in Thread, s \in Second :
       /\ [thread |-> t, at |-> s] \in Event
       /\ [thread |-> t, at |-> s].thread = t /\ [thread |-> t, at |-> s].at = s
  /\ \A e \in Event : e.thread \in Thread /\ e.at \in Second
       /\ e = [thread |-> e.thread, at |-> e.at]
  /\ \A m \in Message : m.thread \in Thread /\ m.at \in Second /\ m.id \in Nat
  /\ \A s \in Second : s \in Nat /\ s > 0
  BY SpoolAssumption DEF Event, Second, Message

LEMMA UnreadEvents ==
  ASSUME TypeOK
  PROVE  /\ Unread \subseteq Event
         /\ \A e \in Unread : e.at = updated[e.thread]
<1>1. \A t \in Thread : updated[t] # 0 => updated[t] \in Second
  BY SpoolAssumption DEF TypeOK, Second
<1> QED
  BY <1>1, Fields DEF Unread

LEMMA SpoolInitially == Init => SpoolInv
<1> SUFFICES ASSUME Init PROVE SpoolInv
  OBVIOUS
<1> USE SpoolAssumption
<1>1. new \cup cur = {} /\ count = 0
  BY DEF Init
<1>2. IsFiniteSet(new \cup cur) /\ Cardinality(new \cup cur) = 0
  BY <1>1, FS_EmptySet
<1>3. {m.id : m \in new \cup cur} = 1..count
  BY <1>1
<1>4. TypeOK
  BY <1>2, <1>3 DEF Init, TypeOK, Second
<1>5. ReadersInOrder /\ PrintedBeforeAck /\ AtRest /\ WithinHorizon
  BY DEF Init, ReadersInOrder, ReaderInOrder, PrintedBeforeAck, AtRest, WithinHorizon
<1>6. NothingPassedBy
  <2> SUFFICES ASSUME NEW e \in Unread
               PROVE  /\ cursors = None
                      /\ \A h \in Host : ~ e.at <= mem[h] /\ ~ e.at <= top[h] /\ list[h] = {}
    BY DEF NothingPassedBy
  <2>1. e.at > 0 /\ e.at \in Nat
    BY <1>4, UnreadEvents, Fields
  <2> QED
    BY <2>1 DEF Init
<1>7. \A e : Copies(e) = {} /\ Cardinality(Copies(e)) = 0
  BY <1>1, FS_EmptySet DEF Copies
<1>8. FewCopies
  BY <1>7 DEF Init, FewCopies
<1> QED
  BY <1>2, <1>4, <1>5, <1>6, <1>8 DEF SpoolInv, Typed
-----------------------------------------------------------------------------
(* Readers.                                                                 *)

\* A reader moves messages from new/ to cur/ and touches nothing else of the rest.
LEMMA ReaderFrame ==
  ASSUME SpoolInv, NEW r \in Reader, ReaderStep(r) \/ Quit(r)
  PROVE  /\ UNCHANGED <<clock, updated, raced, lock, pc, mem, list, top, cursors, count,
                        horizon, seeded, crowded, faults>>
         /\ new' \cup cur' = new \cup cur
<1>1. CASE Ack(r)
  <2>1. \A m \in Oldest(ents[r]) : m \in ents[r]
    BY DEF Oldest
  <2> QED
    BY <1>1, <2>1 DEF Ack, forge, hosts
<1>2. CASE WaitStarts(r) \/ List(r) \/ Read(r) \/ ReadEnds(r)
  BY <1>2 DEF WaitStarts, List, Read, ReadEnds, forge, hosts, boxes
<1>3. CASE PrintAll(r) \/ PrintFails(r) \/ AckEnds(r) \/ Quit(r)
  BY <1>3 DEF PrintAll, PrintFails, AckEnds, Quit, forge, hosts, boxes
<1> QED
  BY <1>1, <1>2, <1>3 DEF ReaderStep

\* What the hosts and the forge have to do with is in order when a reader moves.
LEMMA ReaderKeepsHosts ==
  ASSUME SpoolInv, NEW r \in Reader, ReaderStep(r) \/ Quit(r)
  PROVE  AtRest' /\ WithinHorizon' /\ NothingPassedBy' /\ FewCopies'
<1>1. /\ UNCHANGED <<clock, updated, raced, lock, pc, mem, list, top, cursors, count,
                     horizon, seeded, crowded, faults>>
      /\ new' \cup cur' = new \cup cur
  BY ReaderFrame
<1>2. \A e : Copies(e)' = Copies(e) /\ (Settled(e)' <=> Settled(e))
  BY <1>1 DEF Copies, Settled, Delivered, Excused
<1>3. Unread' = Unread /\ Checkpoint' = Checkpoint
  BY <1>1 DEF Unread, Checkpoint
<1>4. AtRest' /\ WithinHorizon'
  BY <1>1 DEF SpoolInv, AtRest, WithinHorizon
<1>5. NothingPassedBy'
  BY <1>1, <1>2, <1>3 DEF SpoolInv, NothingPassedBy
<1>6. FewCopies'
  BY <1>1, <1>2, <1>3 DEF SpoolInv, FewCopies
<1> QED
  BY <1>4, <1>5, <1>6

\* What a step does to one reader leaves the others in order.
LEMMA OneReader ==
  ASSUME SpoolInv, NEW r \in Reader, new' \cup cur' = new \cup cur, printed \subseteq printed',
         \A q \in Reader \ {r} : /\ rpc'[q] = rpc[q] /\ ents'[q] = ents[q]
                                 /\ unread'[q] = unread[q] /\ shown'[q] = shown[q],
         ReaderInOrder(r)'
  PROVE  ReadersInOrder'
<1> SUFFICES ASSUME NEW q \in Reader \ {r} PROVE ReaderInOrder(q)'
  BY DEF ReadersInOrder
<1>1. ReaderInOrder(q)
  BY DEF SpoolInv, ReadersInOrder
<1> QED
  BY <1>1 DEF ReaderInOrder

\* A reader that returns has nothing left to do.
LEMMA Returned ==
  ASSUME SpoolInv, NEW r \in Reader, Return(r), UNCHANGED <<new, cur, printed>>
  PROVE  ReadersInOrder' /\ PrintedBeforeAck'
<1>1. /\ rpc'[r] = "idle" /\ ents'[r] = {} /\ unread'[r] = {} /\ shown'[r] = {}
      /\ \A q \in Reader \ {r} : /\ rpc'[q] = rpc[q] /\ ents'[q] = ents[q]
                                 /\ unread'[q] = unread[q] /\ shown'[q] = shown[q]
  BY DEF Return, Go, SpoolInv, Typed, TypeOK
<1> QED
  BY <1>1, OneReader DEF ReaderInOrder, SpoolInv, PrintedBeforeAck
\* One reader's step, and what it changes of the reader.
LEMMA ReaderKeepsReaders ==
  ASSUME SpoolInv, NEW r \in Reader, ReaderStep(r) \/ Quit(r)
  PROVE  ReadersInOrder' /\ PrintedBeforeAck'
<1> USE DEF Go
<1>0. /\ rpc \in [Reader -> {"idle", "listing", "reading", "printing", "acking"}]
      /\ ents \in [Reader -> SUBSET Message] /\ unread \in [Reader -> SUBSET Message]
      /\ shown \in [Reader -> SUBSET Message]
      /\ ReaderInOrder(r) /\ PrintedBeforeAck
  BY DEF SpoolInv, Typed, TypeOK, ReadersInOrder
<1>1. CASE WaitStarts(r)
  <2>1. UNCHANGED <<new, cur, ents, unread, shown, printed>>
        /\ rpc' = [rpc EXCEPT ![r] = "listing"]
    BY <1>1 DEF WaitStarts, boxes
  <2>2. ReaderInOrder(r)'
    BY <1>0, <2>1 DEF ReaderInOrder
  <2>3. PrintedBeforeAck'
    BY <1>0, <2>1 DEF PrintedBeforeAck
  <2> QED
    BY <1>0, <2>1, <2>2, <2>3, OneReader
<1>2. CASE List(r)
  <2>1. /\ UNCHANGED <<new, cur, shown, printed>> /\ rpc' = [rpc EXCEPT ![r] = "reading"]
        /\ ents' = [ents EXCEPT ![r] = new] /\ unread' = [unread EXCEPT ![r] = new]
    BY <1>2 DEF List, boxes
  <2>2. ReaderInOrder(r)'
    BY <1>0, <2>1 DEF ReaderInOrder
  <2>3. PrintedBeforeAck'
    BY <1>0, <2>1 DEF PrintedBeforeAck
  <2> QED
    BY <1>0, <2>1, <2>2, <2>3, OneReader
<1>3. CASE Read(r)
  <2>1. PICK m \in Oldest(unread[r]) :
          /\ shown' = [shown EXCEPT ![r] =
                         IF m \in new /\ m.thread \in Directed THEN @ \cup {m} ELSE @]
          /\ unread' = [unread EXCEPT ![r] = @ \ {m}]
    BY <1>3 DEF Read
  <2>2. UNCHANGED <<new, cur, rpc, ents, printed>> /\ rpc[r] = "reading" /\ m \in unread[r]
    BY <1>3, <2>1 DEF Read, boxes, Oldest
  <2>3. m \in new \/ m \in cur
    BY <1>0, <2>2 DEF ReaderInOrder
  <2>4. m \in cur /\ m.thread \in Directed => m \in printed
    BY <1>0 DEF PrintedBeforeAck
  <2>5. ReaderInOrder(r)'
    BY <1>0, <2>1, <2>2, <2>3, <2>4 DEF ReaderInOrder
  <2>6. PrintedBeforeAck'
    BY <1>0, <2>2 DEF PrintedBeforeAck
  <2> QED
    BY <1>0, <2>1, <2>2, <2>5, <2>6, OneReader
<1>4. CASE ReadEnds(r)
  <2>1. /\ UNCHANGED <<new, cur, ents, unread, shown, printed>>
        /\ rpc' = [rpc EXCEPT ![r] = IF shown[r] = {} THEN "acking" ELSE "printing"]
        /\ rpc[r] = "reading" /\ unread[r] = {}
    BY <1>4 DEF ReadEnds, boxes
  <2>2. ReaderInOrder(r)'
    BY <1>0, <2>1 DEF ReaderInOrder
  <2>3. PrintedBeforeAck'
    BY <1>0, <2>1 DEF PrintedBeforeAck
  <2> QED
    BY <1>0, <2>1, <2>2, <2>3, OneReader
<1>5. CASE PrintAll(r)
  <2>1. /\ UNCHANGED <<new, cur, ents, unread, shown>> /\ printed' = printed \cup shown[r]
        /\ rpc' = [rpc EXCEPT ![r] = "acking"] /\ rpc[r] = "printing"
    BY <1>5 DEF PrintAll, boxes
  <2>2. ReaderInOrder(r)'
    BY <1>0, <2>1 DEF ReaderInOrder
  <2>3. PrintedBeforeAck'
    BY <1>0, <2>1 DEF PrintedBeforeAck
  <2> QED
    BY <1>0, <2>1, <2>2, <2>3, OneReader
<1>6. CASE PrintFails(r) \/ Quit(r)
  BY <1>6, Returned DEF PrintFails, OnPrintError, Quit, boxes
<1>7. CASE Ack(r)
  <2>1. PICK m \in Oldest(ents[r]) :
          /\ IF m \in new THEN new' = new \ {m} /\ cur' = cur \cup {m} ELSE UNCHANGED <<new, cur>>
          /\ IF m \notin new /\ shown[r] # {} THEN Return(r)
             ELSE ents' = [ents EXCEPT ![r] = @ \ {m}] /\ UNCHANGED <<rpc, unread, shown>>
    BY <1>7 DEF Ack
  <2>2. printed' = printed /\ rpc[r] = "acking" /\ m \in ents[r] /\ new' \cup cur' = new \cup cur
    BY <1>7, <2>1 DEF Ack, Oldest
  <2>3. CASE m \notin new /\ shown[r] # {}
    BY <2>1, <2>2, <2>3, Returned
  <2>4. CASE ~ (m \notin new /\ shown[r] # {})
    <3>1. ents' = [ents EXCEPT ![r] = @ \ {m}] /\ UNCHANGED <<rpc, unread, shown, printed>>
      BY <2>1, <2>2, <2>4
    <3>2. cur' \subseteq cur \cup {m}
      BY <2>1
    <3>3. unread[r] = {}
      BY <1>0, <2>2 DEF ReaderInOrder
    <3>4. ReaderInOrder(r)'
      BY <1>0, <2>2, <3>1, <3>3 DEF ReaderInOrder
    <3>5. PrintedBeforeAck'
      BY <1>0, <2>2, <3>1, <3>2 DEF PrintedBeforeAck, ReaderInOrder
    <3> QED
      BY <1>0, <2>2, <3>1, <3>4, <3>5, OneReader
  <2> QED
    BY <2>3, <2>4
<1>8. CASE AckEnds(r)
  <2>0. UNCHANGED <<new, cur, printed>> /\ rpc[r] = "acking" /\ ents[r] = {}
    BY <1>8 DEF AckEnds, boxes
  <2>1. CASE shown[r] # {}
    BY <1>8, <2>0, <2>1, Returned DEF AckEnds
  <2>2. CASE shown[r] = {}
    <3>1. rpc' = [rpc EXCEPT ![r] = "listing"] /\ UNCHANGED <<ents, unread, shown>>
      BY <1>8, <2>2 DEF AckEnds
    <3>2. ReaderInOrder(r)'
      BY <1>0, <2>0, <3>1 DEF ReaderInOrder
    <3>3. PrintedBeforeAck'
      BY <1>0, <2>0, <3>1 DEF PrintedBeforeAck
    <3> QED
      BY <1>0, <2>0, <3>1, <3>2, <3>3, OneReader
  <2> QED
    BY <2>1, <2>2
<1> QED
  BY <1>1, <1>2, <1>3, <1>4, <1>5, <1>6, <1>7, <1>8 DEF ReaderStep
\* A reader's step leaves everything well typed.
LEMMA ReaderKeepsTypes ==
  ASSUME SpoolInv, NEW r \in Reader, ReaderStep(r) \/ Quit(r)
  PROVE  Typed'
<1>1. /\ UNCHANGED <<clock, updated, raced, lock, pc, mem, list, top, cursors, count,
                     horizon, seeded, crowded, faults>>
      /\ new' \cup cur' = new \cup cur
  BY ReaderFrame
<1>2. /\ rpc \in [Reader -> {"idle", "listing", "reading", "printing", "acking"}]
      /\ ents \in [Reader -> SUBSET Message] /\ unread \in [Reader -> SUBSET Message]
      /\ shown \in [Reader -> SUBSET Message]
      /\ new \subseteq Message /\ cur \subseteq Message /\ printed \subseteq new \cup cur
      /\ shown[r] \subseteq new \cup cur
  BY DEF SpoolInv, Typed, TypeOK, ReadersInOrder, ReaderInOrder
<1>3. /\ rpc' \in [Reader -> {"idle", "listing", "reading", "printing", "acking"}]
      /\ ents' \in [Reader -> SUBSET Message] /\ unread' \in [Reader -> SUBSET Message]
      /\ shown' \in [Reader -> SUBSET Message] /\ printed' \subseteq new \cup cur
  <2>1. CASE WaitStarts(r) \/ List(r) \/ ReadEnds(r) \/ PrintAll(r) \/ PrintFails(r)
    BY <1>2, <2>1 DEF WaitStarts, List, ReadEnds, PrintAll, PrintFails, OnPrintError, Return, Go
  <2>2. CASE Read(r)
    <3>1. PICK m \in Oldest(unread[r]) :
            /\ shown' = [shown EXCEPT ![r] =
                           IF m \in new /\ m.thread \in Directed THEN @ \cup {m} ELSE @]
            /\ unread' = [unread EXCEPT ![r] = @ \ {m}]
      BY <2>2 DEF Read
    <3>2. m \in Message /\ UNCHANGED <<rpc, ents, printed>>
      BY <1>2, <2>2 DEF Read, Oldest
    <3> QED
      BY <1>2, <3>1, <3>2
  <2>3. CASE Ack(r)
    <3>1. PICK m \in Oldest(ents[r]) :
            IF m \notin new /\ shown[r] # {} THEN Return(r)
            ELSE ents' = [ents EXCEPT ![r] = @ \ {m}] /\ UNCHANGED <<rpc, unread, shown>>
      BY <2>3 DEF Ack
    <3>2. printed' = printed
      BY <2>3 DEF Ack
    <3> QED
      BY <1>2, <3>1, <3>2 DEF Return, Go
  <2>4. CASE AckEnds(r) \/ Quit(r)
    BY <1>2, <2>4 DEF AckEnds, Quit, Return, Go
  <2> QED
    BY <2>1, <2>2, <2>3, <2>4 DEF ReaderStep
<1> QED
  BY <1>1, <1>3 DEF SpoolInv, Typed, TypeOK

-----------------------------------------------------------------------------
(* Hosts and the forge.                                                     *)

\* What neither a host nor the forge does: taking a message away.
LEMMA HostsKeepReaders ==
  ASSUME SpoolInv, UNCHANGED <<rpc, ents, unread, shown, printed, cur>>, new \subseteq new'
  PROVE  ReadersInOrder' /\ PrintedBeforeAck'
<1>1. ASSUME NEW r \in Reader PROVE ReaderInOrder(r)'
  <2>1. ReaderInOrder(r)
    BY DEF SpoolInv, ReadersInOrder
  <2> QED
    BY <2>1 DEF ReaderInOrder
<1> QED
  BY <1>1 DEF ReadersInOrder, SpoolInv, PrintedBeforeAck

\* One more fault excuses one more copy of everything.
LEMMA FaultExcuses ==
  ASSUME SpoolInv, UNCHANGED <<new, cur>>, Fault,
         \A h \in Host : \A e \in list'[h] : e \in Event /\ e.at > mem'[h] /\ e.at >= top'[h]
  PROVE  FewCopies'
<1>1. \A e \in Event : Cardinality(Copies(e)) <= 1 + faults /\ Copies(e)' = Copies(e)
  BY DEF SpoolInv, FewCopies, Copies
<1>2. faults' = 1 + faults /\ faults \in Nat
  BY SpoolAssumption DEF Fault, SpoolInv, Typed, TypeOK
<1>3. \A e \in Event : Cardinality(Copies(e)) \in Nat
  <2> SUFFICES ASSUME NEW e \in Event PROVE Cardinality(Copies(e)) \in Nat
    OBVIOUS
  <2>1. IsFiniteSet(Copies(e))
    BY FS_Subset DEF SpoolInv, Typed, Copies
  <2> QED
    BY <2>1, FS_CardinalityType
<1> QED
  BY <1>1, <1>2, <1>3 DEF FewCopies

\* Only the host that holds the lock polls, and it alone has a list and a latest delivery.
LEMMA OneWriter ==
  ASSUME SpoolInv, NEW h \in Host, pc[h] \in {"loop", "polling"}
  PROVE  /\ lock = h
         /\ \A g \in Host \ {h} : pc[g] \in {"dead", "parked"} /\ list[g] = {} /\ top[g] = 0
<1>1. lock = h
  BY DEF SpoolInv, Typed, TypeOK
<1>2. ASSUME NEW g \in Host \ {h} PROVE pc[g] \in {"dead", "parked"}
  BY <1>1 DEF SpoolInv, Typed, TypeOK
<1> QED
  BY <1>1, <1>2 DEF SpoolInv, AtRest
LEMMA SameBoxes ==
  ASSUME UNCHANGED <<new, cur>>
  PROVE  Delivered' = Delivered /\ \A e : Copies(e)' = Copies(e)
  BY DEF Delivered, Copies

\* Time passes.
LEMMA TickKeeps ==
  ASSUME SpoolInv, Tick
  PROVE  SpoolInv'
<1>1. /\ clock' = clock + 1 /\ clock < MaxClock
      /\ UNCHANGED <<updated, raced, lock, pc, mem, list, top, cursors, new, cur, count>>
      /\ UNCHANGED <<rpc, ents, unread, shown, printed, horizon, seeded, crowded, faults>>
  BY DEF Tick, hosts, boxes, readers
<1>2. Typed'
  BY <1>1, SpoolAssumption DEF SpoolInv, Typed, TypeOK, Second
<1>3. ReadersInOrder' /\ PrintedBeforeAck'
  BY <1>1, HostsKeepReaders
<1>4. Unread' = Unread /\ (\A e : Settled(e)' <=> Settled(e)) /\ Checkpoint' = Checkpoint
  BY <1>1, SameBoxes DEF Unread, Settled, Excused, Checkpoint
<1>5. AtRest' /\ WithinHorizon' /\ NothingPassedBy'
  BY <1>1, <1>4 DEF SpoolInv, AtRest, WithinHorizon, NothingPassedBy
<1>6. FewCopies'
  BY <1>1, <1>4, SameBoxes DEF SpoolInv, FewCopies
<1> QED
  BY <1>2, <1>3, <1>5, <1>6 DEF SpoolInv

\* Activity at a second that a watermark or a list has reached is excused: that second
\* is within the horizon.
LEMMA ActivityKeeps ==
  ASSUME SpoolInv, NEW t \in Thread, Activity(t)
  PROVE  SpoolInv'
<1> DEFINE new_e == [thread |-> t, at |-> clock]
<1>1. /\ updated' = [updated EXCEPT ![t] = clock]
      /\ raced' = IF clock <= horizon THEN raced \cup {new_e} ELSE raced
      /\ UNCHANGED <<clock, lock, pc, mem, list, top, cursors, new, cur, count>>
      /\ UNCHANGED <<rpc, ents, unread, shown, printed, horizon, seeded, crowded, faults>>
  BY DEF Activity, hosts, boxes, readers
<1>2. new_e \in Event /\ new_e.at = clock /\ clock \in Second /\ MaxClock \in Nat
  BY Fields, SpoolAssumption DEF SpoolInv, Typed, TypeOK
<1>3. Typed'
  BY <1>1, <1>2 DEF SpoolInv, Typed, TypeOK, Second
<1>4. ReadersInOrder' /\ PrintedBeforeAck'
  BY <1>1, HostsKeepReaders
<1>5. Unread' \subseteq Unread \cup {new_e}
  BY <1>1 DEF Unread, SpoolInv, Typed, TypeOK
<1>6. \A e : Settled(e) => Settled(e)'
  BY <1>1, SameBoxes DEF Settled, Excused
<1>7. clock <= horizon => \A e : e = new_e => Settled(e)'
  BY <1>1 DEF Settled, Excused
<1> HIDE DEF new_e
<1>8. AtRest' /\ WithinHorizon'
  BY <1>1 DEF SpoolInv, AtRest, WithinHorizon
<1>9. NothingPassedBy'
  <2> SUFFICES ASSUME NEW e \in Unread'
               PROVE  /\ cursors # None /\ e.at <= cursors => Settled(e)'
                      /\ \A h \in Host : e.at <= mem[h] => Settled(e)'
                      /\ \A h \in Host : (e.at <= top[h] \/ \E f \in list[h] : e.at <= f.at) =>
                           e \in list[h] \/ Settled(e)'
    BY <1>1 DEF NothingPassedBy
  <2>1. CASE e \in Unread
    BY <1>6, <2>1 DEF SpoolInv, NothingPassedBy
  <2>2. CASE e = new_e
    <3>1. \A h \in Host : \A f \in list[h] : f.at \in Nat /\ f.at <= horizon
      BY Fields DEF SpoolInv, WithinHorizon, Typed, TypeOK
    <3>2. \A h \in Host : /\ mem[h] \in Nat /\ top[h] \in Nat
                          /\ mem[h] <= horizon /\ top[h] <= horizon
      BY SpoolAssumption DEF SpoolInv, WithinHorizon, Typed, TypeOK
    <3>3. cursors # None => cursors \in Nat /\ cursors <= horizon
      BY SpoolAssumption DEF SpoolInv, WithinHorizon, Typed, TypeOK
    <3>4. e.at = clock /\ clock \in Nat /\ horizon \in Nat
      BY <1>2, <2>2, SpoolAssumption DEF SpoolInv, Typed, TypeOK, Second
    <3>5. CASE clock <= horizon
      BY <1>7, <2>2, <3>5
    <3>6. CASE ~ clock <= horizon
      <4>1. ~ (cursors # None /\ e.at <= cursors)
        BY <3>3, <3>4, <3>6
      <4>2. \A h \in Host : ~ e.at <= mem[h] /\ ~ e.at <= top[h]
        BY <3>2, <3>4, <3>6
      <4>3. \A h \in Host : \A f \in list[h] : ~ e.at <= f.at
        BY <3>1, <3>4, <3>6
      <4> QED
        BY <4>1, <4>2, <4>3
    <3> QED
      BY <3>5, <3>6
  <2> QED
    BY <1>5, <2>1, <2>2
<1>10. FewCopies'
  BY <1>1, SameBoxes DEF SpoolInv, FewCopies, Checkpoint
<1> QED
  BY <1>3, <1>4, <1>8, <1>9, <1>10 DEF SpoolInv

\* A host starts, and waits for the lock.
LEMMA StartKeeps ==
  ASSUME SpoolInv, NEW h \in Host, Start(h)
  PROVE  SpoolInv'
<1>1. /\ pc[h] = "dead" /\ pc' = [pc EXCEPT ![h] = "parked"]
      /\ UNCHANGED <<clock, updated, raced, lock, mem, list, top, cursors, new, cur, count>>
      /\ UNCHANGED <<rpc, ents, unread, shown, printed, horizon, seeded, crowded, faults>>
  BY DEF Start, forge, boxes, readers
<1>2. Typed'
  BY <1>1 DEF SpoolInv, Typed, TypeOK
<1>3. ReadersInOrder' /\ PrintedBeforeAck'
  BY <1>1, HostsKeepReaders
<1>4. Unread' = Unread /\ (\A e : Settled(e)' <=> Settled(e)) /\ Checkpoint' = Checkpoint
  BY <1>1, SameBoxes DEF Unread, Settled, Excused, Checkpoint
<1>5. pc \in [Host -> {"dead", "parked", "loop", "polling"}]
  BY DEF SpoolInv, Typed, TypeOK
<1>6. AtRest'
  BY <1>1, <1>5 DEF SpoolInv, AtRest
<1>7. WithinHorizon' /\ NothingPassedBy'
  BY <1>1, <1>4 DEF SpoolInv, WithinHorizon, NothingPassedBy
<1>8. FewCopies'
  BY <1>1, <1>4, <1>5, SameBoxes DEF SpoolInv, FewCopies
<1> QED
  BY <1>2, <1>3, <1>6, <1>7, <1>8 DEF SpoolInv
\* The lock is free, and nobody polls: the host adopts the checkpoint.
LEMMA LockKeeps ==
  ASSUME SpoolInv, NEW h \in Host, Lock(h)
  PROVE  SpoolInv'
<1>1. /\ pc[h] = "parked" /\ lock = None /\ lock' = h
      /\ mem' = [mem EXCEPT ![h] = Checkpoint] /\ cursors' = Checkpoint
      /\ pc' = [pc EXCEPT ![h] = "loop"]
      /\ UNCHANGED <<clock, updated, raced, list, top, new, cur, count>>
      /\ UNCHANGED <<rpc, ents, unread, shown, printed, horizon, seeded, crowded, faults>>
  BY DEF Lock, LockFree, forge, boxes, readers, Checkpoint
<1>2. /\ pc \in [Host -> {"dead", "parked", "loop", "polling"}] /\ mem \in [Host -> 0..MaxClock]
      /\ Checkpoint \in 0..MaxClock /\ horizon \in Nat /\ Checkpoint <= horizon
      /\ cursors = None => Checkpoint = 0
      /\ cursors # None => Checkpoint = cursors
      /\ MaxClock \in Nat /\ None \notin Nat
  BY SpoolAssumption DEF SpoolInv, Typed, TypeOK, Checkpoint, WithinHorizon
<1>3. \A g \in Host : pc[g] \in {"dead", "parked"} /\ h # None
  BY <1>1, SpoolAssumption DEF SpoolInv, Typed, TypeOK
<1>4. Typed'
  BY <1>1, <1>2, <1>3 DEF SpoolInv, Typed, TypeOK
<1>5. ReadersInOrder' /\ PrintedBeforeAck'
  BY <1>1, HostsKeepReaders
<1>6. Unread' = Unread /\ (\A e : Settled(e)' <=> Settled(e)) /\ Checkpoint' = Checkpoint
  BY <1>1, <1>2, SameBoxes DEF Unread, Settled, Excused, Checkpoint
<1>7. AtRest' /\ WithinHorizon'
  BY <1>1, <1>2 DEF SpoolInv, AtRest, WithinHorizon
<1>8. NothingPassedBy'
  <2>1. ASSUME NEW e \in Unread, e.at <= Checkpoint PROVE Settled(e)
    <3>1. e.at \in Nat /\ e.at > 0
      BY UnreadEvents, Fields DEF SpoolInv, Typed
    <3> QED
      BY <1>2, <2>1, <3>1 DEF SpoolInv, NothingPassedBy
  <2> QED
    BY <1>1, <1>2, <1>6, <2>1 DEF SpoolInv, NothingPassedBy
<1>9. FewCopies'
  <2>1. \A e \in Event : e.at > Checkpoint => Cardinality(Copies(e)) <= faults
    BY <1>3 DEF SpoolInv, FewCopies
  <2>2. \A g \in Host : pc'[g] # "polling" /\ list'[g] = {}
    BY <1>1, <1>2, <1>3 DEF SpoolInv, AtRest
  <2>3. \A g \in Host : pc'[g] = "loop" => mem'[g] = Checkpoint
    BY <1>1, <1>2, <1>3
  <2> QED
    BY <1>1, <1>6, <2>1, <2>2, <2>3, SameBoxes DEF SpoolInv, FewCopies
<1> QED
  BY <1>4, <1>5, <1>7, <1>8, <1>9 DEF SpoolInv

\* A fresh spool: its backlog is excused.
LEMMA PollSeedsKeeps ==
  ASSUME SpoolInv, NEW h \in Host, PollSeeds(h)
  PROVE  SpoolInv'
<1> DEFINE seed == IF Unread = {} THEN clock ELSE Latest(Unread)
<1>1. /\ pc[h] = "loop" /\ mem[h] = 0
      /\ mem' = [mem EXCEPT ![h] = seed] /\ horizon' = Max({horizon, seed})
      /\ \/ cursors' = seed /\ faults' = faults
         \/ Fault /\ cursors' = cursors
      /\ seeded' = seeded \cup Unread
      /\ UNCHANGED <<clock, updated, raced, lock, pc, list, top, new, cur, count>>
      /\ UNCHANGED <<rpc, ents, unread, shown, printed, crowded>>
  BY DEF PollSeeds, forge, boxes, readers
<1>2. Unread \subseteq Event /\ seed \in 0..MaxClock
  BY UnreadEvents, LatestBounds, SpoolAssumption DEF SpoolInv, Typed, TypeOK, Second
<1> HIDE DEF seed
<1>3. /\ horizon \in Nat /\ horizon' \in 0..MaxClock /\ horizon' >= horizon /\ horizon' >= seed
      /\ MaxClock \in Nat /\ None \notin Nat
  BY <1>1, <1>2, MaxOfTwo, SpoolAssumption DEF SpoolInv, Typed, TypeOK
<1>4. faults' \in 0..MaxFaults /\ cursors' \in {seed, cursors}
  BY <1>1, SpoolAssumption DEF Fault, SpoolInv, Typed, TypeOK
<1>5. Typed'
  BY <1>1, <1>2, <1>3, <1>4 DEF SpoolInv, Typed, TypeOK
<1>6. ReadersInOrder' /\ PrintedBeforeAck'
  BY <1>1, HostsKeepReaders
<1>7. AtRest'
  BY <1>1 DEF SpoolInv, AtRest
<1>8. WithinHorizon'
  <2>1. \A g \in Host : mem'[g] \in Nat /\ (mem'[g] = mem[g] \/ mem'[g] = seed)
    BY <1>1, <1>2, SpoolAssumption DEF SpoolInv, Typed, TypeOK
  <2>2. \A g \in Host : top[g] \in Nat /\ mem[g] \in Nat /\ \A f \in list[g] : f.at \in Nat
    BY Fields, SpoolAssumption DEF SpoolInv, Typed, TypeOK
  <2>3. cursors # None => cursors \in Nat
    BY SpoolAssumption DEF SpoolInv, Typed, TypeOK
  <2> QED
    <3>1. cursors' # None => cursors' <= horizon'
      BY <1>2, <1>3, <1>4, <2>3 DEF SpoolInv, WithinHorizon
    <3>2. \A g \in Host : mem'[g] <= horizon' /\ top'[g] <= horizon'
      BY <1>1, <1>2, <1>3, <2>1, <2>2 DEF SpoolInv, WithinHorizon
    <3>3. \A g \in Host : \A f \in list'[g] : f.at <= horizon'
      BY <1>1, <1>3, <2>2 DEF SpoolInv, WithinHorizon
    <3> QED
      BY <3>1, <3>2, <3>3 DEF WithinHorizon
<1>9. NothingPassedBy'
  <2>1. Unread' = Unread /\ \A e \in Unread : Settled(e)'
    BY <1>1 DEF Unread, Settled, Excused
  <2> QED
    BY <2>1 DEF NothingPassedBy
<1>10. \A g \in Host : list'[g] = {}
  BY <1>1, OneWriter DEF SpoolInv, AtRest
<1>11. FewCopies'
  <2>1. CASE Fault
    BY <1>1, <1>10, <2>1, FaultExcuses
  <2>2. CASE cursors' = seed /\ faults' = faults
    <3>1. \A e \in Event : Cardinality(Copies(e)) <= faults
      BY <1>1, Fields DEF SpoolInv, FewCopies
    <3>2. \A g \in Host : pc'[g] # "polling"
      BY <1>1, OneWriter
    <3> QED
      BY <1>1, <1>10, <2>2, <3>1, <3>2, SameBoxes DEF SpoolInv, FewCopies
  <2> QED
    BY <1>1, <2>1, <2>2
<1> QED
  BY <1>5, <1>6, <1>7, <1>8, <1>9, <1>11 DEF SpoolInv

\* Of what the watermark has not passed, the page is listed and the rest is excused.
LEMMA PollListsKeeps ==
  ASSUME SpoolInv, NEW h \in Host, PollLists(h)
  PROVE  SpoolInv'
<1>0. PICK page \in Pages :
        /\ list' = [list EXCEPT ![h] = {e \in page : Unseen(h, e)}]
        /\ crowded' = crowded \cup {e \in Unread \ page : Unseen(h, e)}
  BY DEF PollLists
<1> DEFINE L == {e \in page : e.at > mem[h]}
           C == {e \in Unread \ page : e.at > mem[h]}
<1>1. /\ pc[h] = "loop" /\ pc' = [pc EXCEPT ![h] = "polling"]
      /\ list' = [list EXCEPT ![h] = L] /\ horizon' = Max({horizon, Latest(list'[h])})
      /\ crowded' = crowded \cup C
      /\ UNCHANGED <<clock, updated, raced, lock, mem, top, cursors, new, cur, count>>
      /\ UNCHANGED <<rpc, ents, unread, shown, printed, seeded, faults>>
  BY <1>0 DEF PollLists, Unseen, forge, boxes, readers
<1>2. L \subseteq Event /\ L \subseteq Unread /\ C \subseteq Event
  BY UnreadEvents DEF SpoolInv, Typed, Pages
<1>3. /\ pc \in [Host -> {"dead", "parked", "loop", "polling"}] /\ list \in [Host -> SUBSET Event]
      /\ list'[h] = L
  BY <1>1 DEF SpoolInv, Typed, TypeOK
<1>4. Latest(L) \in 0..MaxClock /\ \A e \in L : e.at <= Latest(L)
  BY <1>2, LatestBounds
<1>5. /\ horizon \in Nat /\ horizon' \in 0..MaxClock /\ horizon' >= horizon
      /\ horizon' >= Latest(L) /\ MaxClock \in Nat
  BY <1>1, <1>3, <1>4, MaxOfTwo, SpoolAssumption DEF SpoolInv, Typed, TypeOK
<1>6. /\ top[h] = 0 /\ list[h] = {}
      /\ \A g \in Host \ {h} : pc[g] \in {"dead", "parked"} /\ list[g] = {} /\ top[g] = 0
  BY <1>1, OneWriter DEF SpoolInv, AtRest
<1>7. Typed'
  BY <1>1, <1>2, <1>3, <1>5 DEF SpoolInv, Typed, TypeOK
<1>8. ReadersInOrder' /\ PrintedBeforeAck'
  BY <1>1, HostsKeepReaders
<1>9. AtRest'
  BY <1>1, <1>3, <1>6 DEF AtRest
<1>10. WithinHorizon'
  <2>1. \A f \in L : f.at \in Nat /\ f.at <= horizon'
    BY <1>2, <1>4, <1>5, Fields
  <2>2. \A g \in Host : top[g] \in Nat /\ mem[g] \in Nat
    BY SpoolAssumption DEF SpoolInv, Typed, TypeOK
  <2>3. cursors # None => cursors \in Nat
    BY SpoolAssumption DEF SpoolInv, Typed, TypeOK
  <2>4. \A g \in Host : list'[g] \subseteq L
    BY <1>1, <1>3, <1>6
  <2> QED
    <3>1. cursors' # None => cursors' <= horizon'
      BY <1>1, <1>5, <2>3 DEF SpoolInv, WithinHorizon
    <3>2. \A g \in Host : mem'[g] <= horizon' /\ top'[g] <= horizon'
      BY <1>1, <1>5, <2>2 DEF SpoolInv, WithinHorizon
    <3>3. \A g \in Host : \A f \in list'[g] : f.at <= horizon'
      BY <2>1, <2>4
    <3> QED
      BY <3>1, <3>2, <3>3 DEF WithinHorizon
<1>11. /\ Unread' = Unread /\ Checkpoint' = Checkpoint
       /\ \A e : Settled(e) => Settled(e)'
       /\ \A e \in C : Settled(e)'
  BY <1>1, SameBoxes DEF Unread, Settled, Excused, Checkpoint
<1>12. NothingPassedBy'
  <2>1. ASSUME NEW e \in Unread PROVE e \in L \/ Settled(e)'
    <3>1. e.at \in Nat /\ mem[h] \in Nat
      BY UnreadEvents, Fields, SpoolAssumption DEF SpoolInv, Typed, TypeOK
    <3>2. CASE e.at <= mem[h]
      BY <1>11, <3>2 DEF SpoolInv, NothingPassedBy
    <3>3. CASE e.at > mem[h]
      BY <1>11, <3>3
    <3> QED
      BY <3>1, <3>2, <3>3
  <2>2. ASSUME NEW e \in Unread, NEW g \in Host \ {h} PROVE ~ e.at <= top[g] /\ list'[g] = {}
    <3>1. e.at \in Nat /\ e.at > 0
      BY UnreadEvents, Fields DEF SpoolInv, Typed
    <3> QED
      BY <1>1, <1>3, <1>6, <3>1
  <2>3. ASSUME NEW e \in Unread
        PROVE  /\ cursors # None /\ e.at <= cursors => Settled(e)'
               /\ \A g \in Host : e.at <= mem[g] => Settled(e)'
    BY <1>11 DEF SpoolInv, NothingPassedBy
  <2> HIDE DEF L
  <2> QED
    BY <1>1, <1>3, <1>11, <2>1, <2>2, <2>3 DEF NothingPassedBy
<1>13. FewCopies'
  <2>1. \A e \in Event : e.at > mem[h] => Cardinality(Copies(e)) <= faults
    BY <1>1 DEF SpoolInv, FewCopies
  <2>2. \A e \in L : e.at > mem[h] /\ e.at >= top[h] /\ Cardinality(Copies(e)) <= faults
    BY <1>2, <1>6, <2>1, Fields
  <2>3. \A g \in Host : (pc'[g] = "polling" => g = h) /\ pc'[g] # "loop"
    BY <1>1, <1>3, <1>6
  <2>4. \A g \in Host : list'[g] = {} \/ g = h
    BY <1>1, <1>3, <1>6
  <2>5. pc'[h] = "polling"
    BY <1>1, <1>3
  <2> HIDE DEF L
  <2> QED
    BY <1>1, <1>3, <2>1, <2>2, <2>3, <2>4, <2>5, SameBoxes DEF SpoolInv, FewCopies
<1> QED
  BY <1>7, <1>8, <1>9, <1>10, <1>12, <1>13 DEF SpoolInv
\* The copies of an event once another message is there, and of an event at most one more.
LEMMA OneMoreCopy ==
  ASSUME SpoolInv, NEW x, new' = new \cup {x}, UNCHANGED cur, NEW e \in Event
  PROVE  /\ x.thread # e.thread \/ x.at # e.at => Copies(e)' = Copies(e)
         /\ Cardinality(Copies(e)') <= Cardinality(Copies(e)) + 1
         /\ Cardinality(Copies(e)) \in Nat /\ Cardinality(Copies(e)') \in Nat
<1>1. IsFiniteSet(Copies(e)) /\ Cardinality(Copies(e)) \in Nat
  <2>1. IsFiniteSet(Copies(e))
    BY FS_Subset DEF SpoolInv, Typed, Copies
  <2> QED
    BY <2>1, FS_CardinalityType
<1>2. x.thread # e.thread \/ x.at # e.at => Copies(e)' = Copies(e)
  BY DEF Copies
<1>3. Copies(e)' = Copies(e) \/ Copies(e)' = Copies(e) \cup {x}
  BY DEF Copies
<1>4. /\ Cardinality(Copies(e) \cup {x}) = Cardinality(Copies(e))
      \/ Cardinality(Copies(e) \cup {x}) = Cardinality(Copies(e)) + 1
  BY <1>1, FS_AddElement
<1>5. CASE Copies(e)' = Copies(e)
  BY <1>1, <1>5
<1>6. CASE Copies(e)' = Copies(e) \cup {x}
  <2>1. Cardinality(Copies(e)') = Cardinality(Copies(e) \cup {x})
    BY <1>6
  <2>2. Cardinality(Copies(e)') \in Nat /\ Cardinality(Copies(e)') <= Cardinality(Copies(e)) + 1
    BY <1>1, <1>4, <2>1
  <2> QED
    BY <1>1, <1>2, <2>2
<1> QED
  BY <1>3, <1>5, <1>6

\* The next event is delivered: all that is not later is settled or still listed.
LEMMA DeliverNextKeeps ==
  ASSUME SpoolInv, NEW h \in Host, DeliverNext(h)
  PROVE  SpoolInv'
<1>1. PICK e \in list[h] :
        /\ \A f \in list[h] : e.at <= f.at
        /\ new' = new \cup {[id |-> count + 1, thread |-> e.thread, at |-> e.at]}
        /\ list' = [list EXCEPT ![h] = @ \ {e}]
        /\ top' = [top EXCEPT ![h] = e.at]
  BY DEF DeliverNext
<1> DEFINE x == [id |-> count + 1, thread |-> e.thread, at |-> e.at]
<1>2. /\ pc[h] = "polling" /\ count' = count + 1
      /\ UNCHANGED <<clock, updated, raced, lock, pc, mem, cursors, cur>>
      /\ UNCHANGED <<rpc, ents, unread, shown, printed, horizon, seeded, crowded, faults>>
  BY DEF DeliverNext, forge, readers
<1>3. /\ e \in Event /\ e.at \in Second /\ e.at \in 0..MaxClock /\ MaxClock \in Nat
      /\ count \in Nat /\ list \in [Host -> SUBSET Event] /\ top \in [Host -> 0..MaxClock]
  <2>1. MaxClock \in Nat /\ list \in [Host -> SUBSET Event] /\ top \in [Host -> 0..MaxClock]
    BY SpoolAssumption DEF SpoolInv, Typed, TypeOK
  <2>2. e \in Event /\ e.at \in Second /\ e.at \in 0..MaxClock
    BY <2>1, Fields DEF Second
  <2>3. count \in Nat
    BY FS_CardinalityType DEF SpoolInv, Typed, TypeOK
  <2> QED
    BY <2>1, <2>2, <2>3
<1>4. x \in Message /\ x.id = count + 1 /\ x.thread = e.thread /\ x.at = e.at /\ new' = new \cup {x}
  BY <1>1, <1>3, Fields DEF Message
<1> HIDE DEF x
<1>5. Typed'
  <2>1. x \notin new \cup cur
    <3>1. \A m \in new \cup cur : m.id \in 1..count
      BY DEF SpoolInv, Typed, TypeOK
    <3>2. count + 1 \notin 1..count
      BY <1>3
    <3> QED
      BY <1>4, <3>1, <3>2
  <2>2. new' \cup cur' = (new \cup cur) \cup {x} /\ new' \cup cur' \subseteq Message
    BY <1>2, <1>4 DEF SpoolInv, Typed, TypeOK
  <2>3. IsFiniteSet((new \cup cur) \cup {x})
        /\ Cardinality((new \cup cur) \cup {x}) = Cardinality(new \cup cur) + 1
    BY <2>1, FS_AddElement DEF SpoolInv, Typed
  <2>4. {m.id : m \in new' \cup cur'} = 1..count'
    <3>1. {m.id : m \in new' \cup cur'} = {m.id : m \in new \cup cur} \cup {count + 1}
      BY <1>4, <2>2
    <3>2. 1..(count + 1) = (1..count) \cup {count + 1}
      BY <1>3
    <3> QED
      BY <1>2, <3>1, <3>2 DEF SpoolInv, Typed, TypeOK
  <2>5. Cardinality(new' \cup cur') = count' /\ IsFiniteSet(new' \cup cur')
    BY <1>2, <2>2, <2>3 DEF SpoolInv, Typed, TypeOK
  <2>6. list' \in [Host -> SUBSET Event] /\ top' \in [Host -> 0..MaxClock]
    BY <1>1, <1>3
  <2>7. /\ clock' \in Second /\ updated' \in [Thread -> 0..MaxClock] /\ lock' \in Host \cup {None}
        /\ pc' \in [Host -> {"dead", "parked", "loop", "polling"}]
        /\ \A g \in Host : lock' = g <=> pc'[g] \in {"loop", "polling"}
        /\ mem' \in [Host -> 0..MaxClock] /\ cursors' \in (0..MaxClock) \cup {None}
        /\ rpc' \in [Reader -> {"idle", "listing", "reading", "printing", "acking"}]
        /\ ents' \in [Reader -> SUBSET Message] /\ unread' \in [Reader -> SUBSET Message]
        /\ shown' \in [Reader -> SUBSET Message]
        /\ horizon' \in 0..MaxClock /\ seeded' \subseteq Event /\ raced' \subseteq Event
        /\ crowded' \subseteq Event /\ faults' \in 0..MaxFaults
    BY <1>2 DEF SpoolInv, Typed, TypeOK
  <2>8. printed' \subseteq new' \cup cur'
    BY <1>2, <2>2 DEF SpoolInv, Typed, TypeOK
  <2> QED
    BY <2>2, <2>4, <2>5, <2>6, <2>7, <2>8 DEF Typed, TypeOK
<1>6. ReadersInOrder' /\ PrintedBeforeAck'
  BY <1>2, <1>4, HostsKeepReaders
<1>7. AtRest'
  BY <1>1, <1>2, <1>3 DEF SpoolInv, AtRest
<1>8. e.at <= horizon
  BY DEF SpoolInv, WithinHorizon
<1>9. WithinHorizon'
  <2>1. \A g \in Host : top'[g] <= horizon /\ list'[g] \subseteq list[g]
    BY <1>1, <1>3, <1>8 DEF SpoolInv, WithinHorizon
  <2> QED
    BY <1>2, <2>1 DEF SpoolInv, WithinHorizon
<1>10. Unread' = Unread /\ Checkpoint' = Checkpoint /\ \A f : Settled(f) => Settled(f)'
  BY <1>2, <1>4 DEF Unread, Checkpoint, Settled, Delivered, Excused
<1>11. \A f : f = e => Settled(f)'
  <2>1. [thread |-> x.thread, at |-> x.at] = e
    BY <1>3, <1>4, Fields
  <2>2. e \in Delivered'
    BY <1>4, <2>1 DEF Delivered
  <2> QED
    BY <2>2 DEF Settled
<1>12. NothingPassedBy'
  <2> SUFFICES ASSUME NEW f \in Unread
               PROVE  /\ cursors # None /\ f.at <= cursors => Settled(f)'
                      /\ \A g \in Host : f.at <= mem[g] => Settled(f)'
                      /\ \A g \in Host : (f.at <= top'[g] \/ \E i \in list'[g] : f.at <= i.at) =>
                           f \in list'[g] \/ Settled(f)'
    BY <1>2, <1>10 DEF NothingPassedBy
  <2>1. /\ cursors # None /\ f.at <= cursors => Settled(f)'
        /\ \A g \in Host : f.at <= mem[g] => Settled(f)'
    BY <1>10 DEF SpoolInv, NothingPassedBy
  <2>2. ASSUME NEW g \in Host, f.at <= top'[g] \/ \E i \in list'[g] : f.at <= i.at
        PROVE  f \in list'[g] \/ Settled(f)'
    <3>1. f.at <= top[g] \/ \E i \in list[g] : f.at <= i.at
      BY <1>1, <1>3, <2>2
    <3>2. f \in list[g] \/ Settled(f)
      BY <3>1 DEF SpoolInv, NothingPassedBy
    <3>3. f \in list[g] => f \in list'[g] \/ f = e
      BY <1>1, <1>3
    <3> QED
      BY <1>10, <1>11, <3>2, <3>3
  <2> QED
    BY <2>1, <2>2
<1>13. FewCopies'
  <2>1. \A f \in Event : /\ f # e => Copies(f)' = Copies(f)
                         /\ Cardinality(Copies(f)') <= Cardinality(Copies(f)) + 1
                         /\ Cardinality(Copies(f)) \in Nat /\ Cardinality(Copies(f)') \in Nat
    <3> SUFFICES ASSUME NEW f \in Event
                 PROVE  /\ f # e => Copies(f)' = Copies(f)
                        /\ Cardinality(Copies(f)') <= Cardinality(Copies(f)) + 1
                        /\ Cardinality(Copies(f)) \in Nat /\ Cardinality(Copies(f)') \in Nat
      OBVIOUS
    <3>1. f # e => f.thread # e.thread \/ f.at # e.at
      BY <1>3, Fields
    <3>2. /\ x.thread # f.thread \/ x.at # f.at => Copies(f)' = Copies(f)
          /\ Cardinality(Copies(f)') <= Cardinality(Copies(f)) + 1
          /\ Cardinality(Copies(f)) \in Nat /\ Cardinality(Copies(f)') \in Nat
      BY <1>2, <1>4, OneMoreCopy
    <3> QED
      BY <1>4, <3>1, <3>2
  <2>2. Cardinality(Copies(e)) <= faults /\ e.at > mem[h] /\ e.at >= top[h] /\ faults \in Nat
    BY SpoolAssumption DEF SpoolInv, FewCopies, Typed, TypeOK
  <2>3. \A f \in Event : Cardinality(Copies(f)') <= 1 + faults
    BY <1>3, <2>1, <2>2 DEF SpoolInv, FewCopies
  <2>4. \A g \in Host : pc[g] # "loop" /\ (pc[g] = "polling" => g = h) /\ (g # h => list[g] = {})
    BY <1>2, OneWriter
  <2>5. ASSUME NEW f \in Event, f.at > mem[h], f.at > top'[h]
        PROVE  Cardinality(Copies(f)') <= faults
    <3>1. f.at \in Nat /\ top[h] \in Nat /\ top'[h] = e.at /\ e.at \in Nat
      BY <1>1, <1>3, Fields
    <3>2. f # e /\ f.at > top[h]
      BY <2>2, <2>5, <3>1
    <3> QED
      BY <1>2, <2>1, <2>5, <3>2 DEF SpoolInv, FewCopies
  <2>6. ASSUME NEW f \in list'[h]
        PROVE  f.at > mem[h] /\ f.at >= top'[h] /\ Cardinality(Copies(f)') <= faults
    <3>1. f \in list[h] /\ f # e /\ f \in Event /\ top'[h] = e.at
      BY <1>1, <1>3
    <3>2. f.at \in Nat /\ e.at \in Nat /\ e.at <= f.at
      BY <1>1, <1>3, <3>1, Fields
    <3>3. f.at > mem[h] /\ Cardinality(Copies(f)) <= faults
      BY <3>1 DEF SpoolInv, FewCopies
    <3> QED
      BY <2>1, <3>1, <3>2, <3>3
  <2>7. \A g \in Host : g # h => list'[g] = {}
    BY <1>1, <1>3, <2>4
  <2> QED
    BY <1>2, <2>3, <2>4, <2>5, <2>6, <2>7 DEF FewCopies
<1> QED
  BY <1>5, <1>6, <1>7, <1>9, <1>12, <1>13 DEF SpoolInv
\* A delivery fails, and the watermark stays.
LEMMA DeliverFailsKeeps ==
  ASSUME SpoolInv, NEW h \in Host, DeliverFails(h)
  PROVE  SpoolInv'
<1>1. /\ pc[h] = "polling" /\ Fault /\ pc' = [pc EXCEPT ![h] = "loop"]
      /\ list' = [list EXCEPT ![h] = {}] /\ top' = [top EXCEPT ![h] = 0]
      /\ UNCHANGED <<clock, updated, raced, lock, mem, cursors, new, cur, count>>
      /\ UNCHANGED <<rpc, ents, unread, shown, printed, horizon, seeded, crowded>>
  BY DEF DeliverFails, AfterError, forge, boxes, readers
<1>2. /\ pc \in [Host -> {"dead", "parked", "loop", "polling"}] /\ list \in [Host -> SUBSET Event]
      /\ top \in [Host -> 0..MaxClock] /\ MaxClock \in Nat
      /\ faults' \in 0..MaxFaults
  BY <1>1, SpoolAssumption DEF Fault, SpoolInv, Typed, TypeOK
<1>3. \A g \in Host : list'[g] = {} /\ top'[g] = 0 /\ (g # h => pc'[g] = pc[g])
  BY <1>1, <1>2, OneWriter
<1>4. Typed'
  BY <1>1, <1>2 DEF SpoolInv, Typed, TypeOK
<1>5. ReadersInOrder' /\ PrintedBeforeAck'
  BY <1>1, HostsKeepReaders
<1>6. AtRest' /\ NothingPassedBy'
  <2>1. Unread' = Unread /\ \A e : Settled(e)' <=> Settled(e)
    BY <1>1, SameBoxes DEF Unread, Settled, Excused
  <2>2. \A e \in Unread : ~ e.at <= 0
    BY UnreadEvents, Fields DEF SpoolInv, Typed
  <2> QED
    BY <1>1, <1>3, <2>1, <2>2 DEF SpoolInv, AtRest, NothingPassedBy
<1>7. WithinHorizon'
  <2>1. horizon \in Nat
    BY SpoolAssumption DEF SpoolInv, Typed, TypeOK
  <2> QED
    BY <1>1, <1>3, <2>1 DEF SpoolInv, WithinHorizon
<1>8. FewCopies'
  BY <1>1, <1>3, FaultExcuses
<1> QED
  BY <1>4, <1>5, <1>6, <1>7, <1>8 DEF SpoolInv

\* The poll is over: all up to the latest delivery is settled.
LEMMA PollEndsKeeps ==
  ASSUME SpoolInv, NEW h \in Host, PollEnds(h)
  PROVE  SpoolInv'
<1> DEFINE w == Max({mem[h], top[h]})
<1>1. /\ pc[h] = "polling" /\ list[h] = {} /\ pc' = [pc EXCEPT ![h] = "loop"]
      /\ mem' = [mem EXCEPT ![h] = w] /\ top' = [top EXCEPT ![h] = 0]
      /\ \/ cursors' = mem'[h] /\ faults' = faults
         \/ Fault /\ cursors' = cursors
      /\ UNCHANGED <<clock, updated, raced, lock, list, new, cur, count>>
      /\ UNCHANGED <<rpc, ents, unread, shown, printed, horizon, seeded, crowded>>
  BY DEF PollEnds, forge, boxes, readers
<1>2. /\ pc \in [Host -> {"dead", "parked", "loop", "polling"}] /\ mem \in [Host -> 0..MaxClock]
      /\ top \in [Host -> 0..MaxClock] /\ MaxClock \in Nat /\ None \notin Nat /\ horizon \in Nat
      /\ mem[h] \in Nat /\ top[h] \in Nat
  BY SpoolAssumption DEF SpoolInv, Typed, TypeOK
<1>3. w \in 0..MaxClock /\ w >= mem[h] /\ w >= top[h] /\ w \in {mem[h], top[h]}
  BY <1>2, MaxOfTwo
<1> HIDE DEF w
<1>4. faults' \in 0..MaxFaults /\ mem'[h] = w /\ cursors' \in {w, cursors}
  BY <1>1, <1>2, SpoolAssumption DEF Fault, SpoolInv, Typed, TypeOK
<1>5. \A g \in Host \ {h} : /\ pc[g] \in {"dead", "parked"} /\ list[g] = {} /\ top[g] = 0
                            /\ pc'[g] = pc[g] /\ mem'[g] = mem[g] /\ top'[g] = 0
  BY <1>1, <1>2, OneWriter
<1>6. \A g \in Host : list'[g] = {} /\ top'[g] = 0 /\ pc'[g] # "polling"
  BY <1>1, <1>2, <1>5
<1>7. Typed'
  BY <1>1, <1>2, <1>3, <1>4 DEF SpoolInv, Typed, TypeOK
<1>8. ReadersInOrder' /\ PrintedBeforeAck'
  BY <1>1, HostsKeepReaders
<1>9. AtRest'
  BY <1>6 DEF AtRest
<1>10. WithinHorizon'
  <2>1. w <= horizon
    BY <1>3 DEF SpoolInv, WithinHorizon
  <2>2. \A g \in Host : mem'[g] <= horizon
    BY <1>4, <1>5, <2>1 DEF SpoolInv, WithinHorizon
  <2> QED
    BY <1>1, <1>2, <1>4, <1>6, <2>1, <2>2 DEF SpoolInv, WithinHorizon
<1>11. NothingPassedBy'
  <2>1. Unread' = Unread /\ \A e : Settled(e)' <=> Settled(e)
    BY <1>1, SameBoxes DEF Unread, Settled, Excused
  <2>2. ASSUME NEW e \in Unread PROVE e.at > 0 /\ e.at \in Nat /\ (e.at <= w => Settled(e))
    <3>1. e.at > 0 /\ e.at \in Nat
      BY UnreadEvents, Fields DEF SpoolInv, Typed
    <3>2. /\ e.at <= mem[h] => Settled(e)
          /\ e.at <= top[h] => Settled(e)
      BY <1>1 DEF SpoolInv, NothingPassedBy
    <3> QED
      BY <1>3, <3>1, <3>2
  <2> SUFFICES ASSUME NEW e \in Unread
               PROVE  /\ cursors' # None /\ e.at <= cursors' => Settled(e)
                      /\ \A g \in Host : e.at <= mem'[g] => Settled(e)
                      /\ \A g \in Host : ~ (e.at <= top'[g] \/ \E f \in list'[g] : e.at <= f.at)
    BY <2>1 DEF NothingPassedBy
  <2>3. cursors' # None /\ e.at <= cursors' => Settled(e)
    BY <1>4, <2>2 DEF SpoolInv, NothingPassedBy
  <2>4. \A g \in Host : e.at <= mem'[g] => Settled(e)
    BY <1>4, <1>5, <2>2 DEF SpoolInv, NothingPassedBy
  <2>5. \A g \in Host : ~ (e.at <= top'[g] \/ \E f \in list'[g] : e.at <= f.at)
    BY <1>6, <2>2
  <2> QED
    BY <2>3, <2>4, <2>5
<1>12. FewCopies'
  <2>1. CASE Fault
    BY <1>1, <1>6, <2>1, FaultExcuses
  <2>2. CASE cursors' = w /\ faults' = faults
    <3>1. ASSUME NEW e \in Event, e.at > w PROVE Cardinality(Copies(e)) <= faults
      <4>1. e.at > mem[h] /\ e.at > top[h]
        BY <1>2, <1>3, <3>1, Fields
      <4> QED
        BY <1>1, <4>1 DEF SpoolInv, FewCopies
    <3>2. Checkpoint' = w
      BY <1>2, <1>3, <2>2 DEF Checkpoint
    <3>3. \A g \in Host : pc'[g] = "loop" => g = h
      BY <1>5
    <3>4. \A e \in Event : Copies(e)' = Copies(e)
      BY <1>1, SameBoxes
    <3> QED
      BY <1>4, <1>6, <2>2, <3>1, <3>2, <3>3, <3>4 DEF SpoolInv, FewCopies
  <2> QED
    BY <1>1, <1>4, <2>1, <2>2
<1> QED
  BY <1>7, <1>8, <1>9, <1>10, <1>11, <1>12 DEF SpoolInv

\* A host dies; the kernel frees its lock.
LEMMA DieKeeps ==
  ASSUME SpoolInv, NEW h \in Host, Die(h)
  PROVE  SpoolInv'
<1>1. /\ pc[h] # "dead" /\ Fault /\ lock' = (IF lock = h THEN None ELSE lock)
      /\ pc' = [pc EXCEPT ![h] = "dead"] /\ mem' = [mem EXCEPT ![h] = 0]
      /\ list' = [list EXCEPT ![h] = {}] /\ top' = [top EXCEPT ![h] = 0]
      /\ UNCHANGED <<clock, updated, raced, cursors, new, cur, count>>
      /\ UNCHANGED <<rpc, ents, unread, shown, printed, horizon, seeded, crowded>>
  BY DEF Die, OnDeath, forge, boxes, readers
<1>2. /\ pc \in [Host -> {"dead", "parked", "loop", "polling"}] /\ list \in [Host -> SUBSET Event]
      /\ top \in [Host -> 0..MaxClock] /\ mem \in [Host -> 0..MaxClock] /\ MaxClock \in Nat
      /\ faults' \in 0..MaxFaults /\ faults' = faults + 1 /\ None \notin Host
      /\ \A g \in Host : lock = g <=> pc[g] \in {"loop", "polling"}
  BY <1>1, SpoolAssumption DEF Fault, SpoolInv, Typed, TypeOK
<1>3. \A g \in Host : /\ list'[g] \in {{}, list[g]} /\ top'[g] \in {0, top[g]}
                      /\ mem'[g] \in {0, mem[g]} /\ (g # h => pc'[g] = pc[g]) /\ (g = h => pc'[g] = "dead")
  BY <1>1, <1>2
<1>4. Typed'
  BY <1>1, <1>2 DEF SpoolInv, Typed, TypeOK
<1>5. ReadersInOrder' /\ PrintedBeforeAck'
  BY <1>1, HostsKeepReaders
<1>6. AtRest'
  BY <1>1, <1>2 DEF SpoolInv, AtRest
<1>7. NothingPassedBy'
  <2>1. Unread' = Unread /\ \A e : Settled(e)' <=> Settled(e)
    BY <1>1, SameBoxes DEF Unread, Settled, Excused
  <2>2. \A e \in Unread : ~ e.at <= 0
    BY UnreadEvents, Fields DEF SpoolInv, Typed
  <2>3. \A g \in Host : g # h => list'[g] = list[g] /\ top'[g] = top[g] /\ mem'[g] = mem[g]
    BY <1>1, <1>2
  <2>4. list'[h] = {} /\ top'[h] = 0 /\ mem'[h] = 0
    BY <1>1, <1>2
  <2> QED
    BY <1>1, <2>1, <2>2, <2>3, <2>4 DEF SpoolInv, NothingPassedBy
<1>8. WithinHorizon'
  <2>1. horizon \in Nat
    BY SpoolAssumption DEF SpoolInv, Typed, TypeOK
  <2> QED
    BY <1>1, <1>3, <2>1 DEF SpoolInv, WithinHorizon
<1>9. FewCopies'
  <2>1. ASSUME NEW g \in Host, NEW e \in list'[g]
        PROVE  e \in Event /\ e.at > mem'[g] /\ e.at >= top'[g]
    <3>1. g # h /\ e \in list[g] /\ mem'[g] = mem[g] /\ top'[g] = top[g]
      BY <1>1, <1>2
    <3> QED
      BY <1>2, <3>1 DEF SpoolInv, FewCopies
  <2> QED
    BY <1>1, <2>1, FaultExcuses
<1> QED
  BY <1>4, <1>5, <1>6, <1>7, <1>8, <1>9 DEF SpoolInv
-----------------------------------------------------------------------------

\* What hosts and readers of a spool have done and are about to do, through deaths and
\* failures: the inductive invariant of the spool.
THEOREM SpoolInductive == Spec => []SpoolInv
<1>1. SpoolInv /\ [Next]_vars => SpoolInv'
  <2> SUFFICES ASSUME SpoolInv, [Next]_vars PROVE SpoolInv'
    OBVIOUS
  <2>1. ASSUME NEW r \in Reader, ReaderStep(r) \/ Quit(r) PROVE SpoolInv'
    BY <2>1, ReaderKeepsReaders, ReaderKeepsHosts, ReaderKeepsTypes DEF SpoolInv
  <2>2. ASSUME NEW h \in Host, HostStep(h) \/ Start(h) \/ DeliverFails(h) \/ Die(h) PROVE SpoolInv'
    BY <2>2, LockKeeps, PollSeedsKeeps, PollListsKeeps, DeliverNextKeeps, PollEndsKeeps,
       StartKeeps, DeliverFailsKeeps, DieKeeps DEF HostStep
  <2>3. CASE UNCHANGED vars
    <3>1. /\ UNCHANGED <<clock, updated, raced, lock, pc, mem, list, top, cursors, new, cur, count>>
          /\ UNCHANGED <<rpc, ents, unread, shown, printed, horizon, seeded, crowded, faults>>
      BY <2>3 DEF vars, forge, hosts, boxes, readers
    <3>2. Unread' = Unread /\ (\A e : Settled(e)' <=> Settled(e)) /\ Checkpoint' = Checkpoint
      BY <3>1, SameBoxes DEF Unread, Settled, Excused, Checkpoint
    <3>3. Typed'
      BY <3>1 DEF SpoolInv, Typed, TypeOK
    <3>4. AtRest' /\ WithinHorizon' /\ NothingPassedBy'
      BY <3>1, <3>2 DEF SpoolInv, AtRest, WithinHorizon, NothingPassedBy
    <3>5. FewCopies'
      BY <3>1, <3>2, SameBoxes DEF SpoolInv, FewCopies
    <3>6. ReadersInOrder' /\ PrintedBeforeAck'
      BY <3>1, HostsKeepReaders
    <3> QED
      BY <3>3, <3>4, <3>5, <3>6 DEF SpoolInv
  <2> QED
    BY <2>1, <2>2, <2>3, TickKeeps, ActivityKeeps DEF Next
<1> QED
  BY <1>1, SpoolInitially, PTL DEF Spec

\* Every reachable state of the spool is well typed.
THEOREM TypeCorrect == Spec => []TypeOK
<1>1. SpoolInv => TypeOK
  BY DEF SpoolInv, Typed
<1> QED
  BY <1>1, SpoolInductive, PTL

\* Who counts what is unread counts threads: when no thread's notification goes away there
\* is not less of it.
LEMMA UnreadThreads ==
  ASSUME IsFiniteSet(Thread), NEW u, NEW v, \A t \in Thread : u[t] # 0 => v[t] # 0,
         NEW A, A = {[thread |-> t, at |-> u[t]] : t \in {x \in Thread : u[x] # 0}},
         NEW B, B = {[thread |-> t, at |-> v[t]] : t \in {x \in Thread : v[x] # 0}}
  PROVE  IsFiniteSet(A) /\ Cardinality(A) <= Cardinality(B)
<1> DEFINE again == [e \in A |-> [thread |-> e.thread, at |-> v[e.thread]]]
           thread_of == [e \in B |-> e.thread]
<1>1. thread_of \in Injection(B, Thread)
  BY DEF Injection, IsInjective
<1>2. IsFiniteSet(B)
  <2> HIDE DEF thread_of
  <2> QED
    BY <1>1, FS_Injection
<1>3. again \in [A -> B]
  OBVIOUS
<1>4. ASSUME NEW e \in A, NEW f \in A, again[e] = again[f] PROVE e = f
  <2>1. e.thread = again[e].thread /\ f.thread = again[f].thread
    OBVIOUS
  <2> QED
    BY <1>4, <2>1
<1>5. again \in Injection(A, B)
  BY <1>3, <1>4 DEF Injection, IsInjective
<1> HIDE DEF again
<1> QED
  BY <1>2, <1>5, FS_Injection

\* As long as a page has room for all that is unread, no poll has left anything out.
THEOREM OnePageIsEnough ==
  ASSUME IsFiniteSet(Thread)
  PROVE  Spec => [](Cardinality(Unread) <= PageLimit => crowded = {})
<1> DEFINE Roomy == Cardinality(Unread) <= PageLimit => crowded = {}
<1>1. ASSUME TypeOK, Cardinality(Unread) <= PageLimit, NEW page \in Pages
      PROVE  page = Unread
  <2>1. IsFiniteSet(Unread)
    BY UnreadThreads DEF Unread
  <2>2. Cardinality(Unread) \in Nat /\ PageLimit \in Nat
    BY <2>1, FS_CardinalityType, SpoolAssumption
  <2>3. \A y \in {PageLimit, Cardinality(Unread)} : Cardinality(Unread) <= y
    BY <1>1, <2>2
  <2>4. \A x \in {PageLimit, Cardinality(Unread)} :
          (\A y \in {PageLimit, Cardinality(Unread)} : x <= y) => x = Cardinality(Unread)
    BY <2>2, <2>3
  <2>5. Min({PageLimit, Cardinality(Unread)}) = Cardinality(Unread)
    BY <2>3, <2>4 DEF Min
  <2>6. page \subseteq Unread /\ Cardinality(page) = Cardinality(Unread)
    BY <2>5 DEF Pages
  <2> QED
    BY <2>1, <2>6, FS_Subset
<1>2. Init => Roomy
  BY DEF Init
<1>3. SpoolInv /\ Roomy /\ [Next]_vars => Roomy'
  <2> SUFFICES ASSUME SpoolInv, Roomy, [Next]_vars, (Cardinality(Unread) <= PageLimit)'
               PROVE  crowded' = {}
    OBVIOUS
  <2>1. TypeOK /\ clock # 0
    BY SpoolAssumption DEF SpoolInv, Typed, TypeOK, Second
  <2>2. ASSUME NEW h \in Host, HostStep(h) \/ Start(h) \/ DeliverFails(h) \/ Die(h)
        PROVE  UNCHANGED updated
    BY <2>2 DEF HostStep, Lock, PollSeeds, PollLists, DeliverNext, PollEnds, Start,
                DeliverFails, Die, forge
  <2>3. ASSUME NEW r \in Reader, ReaderStep(r) \/ Quit(r)
        PROVE  UNCHANGED <<updated, crowded>>
    BY <2>3, ReaderFrame
  <2>4. \A t \in Thread : updated[t] # 0 => updated'[t] # 0
    BY <2>1, <2>2, <2>3 DEF Next, Tick, Activity, vars, forge, TypeOK
  <2>5. IsFiniteSet(Unread) /\ Cardinality(Unread) <= Cardinality(Unread')
    BY <2>4, UnreadThreads DEF Unread
  <2>6. IsFiniteSet(Unread')
    BY UnreadThreads DEF Unread
  <2>7. Cardinality(Unread) <= PageLimit /\ crowded = {}
    BY <2>5, <2>6, FS_CardinalityType, SpoolAssumption
  <2>8. ASSUME NEW h \in Host, PollLists(h) PROVE crowded' = {}
    <3>1. PICK page \in Pages : crowded' = crowded \cup {e \in Unread \ page : Unseen(h, e)}
      BY <2>8 DEF PollLists
    <3>2. page = Unread
      BY <1>1, <2>1, <2>7
    <3> QED
      BY <2>7, <3>1, <3>2
  <2>9. ASSUME NEW h \in Host, HostStep(h) \/ Start(h) \/ DeliverFails(h) \/ Die(h)
        PROVE  crowded' = {}
    BY <2>7, <2>8, <2>9 DEF HostStep, Lock, PollSeeds, DeliverNext, PollEnds, Start,
                            DeliverFails, Die
  <2> QED
    BY <2>3, <2>7, <2>9 DEF Next, Tick, Activity, vars
<1> QED
  BY <1>2, <1>3, SpoolInductive, PTL DEF Spec

\* The checkpoint of the ingester passes nothing by: whichever hosts die, whatever cannot
\* be delivered or written down, only the backlog of a fresh spool and activity in the
\* second of a poll stay behind it; and what a page has had no room for, if more is unread
\* than that.
THEOREM NoneSkipped ==
  ASSUME IsFiniteSet(Thread)
  PROVE  Spec => []NothingSkipped
<1>1. IsFiniteSet(Unread)
  BY UnreadThreads DEF Unread
<1>2. Cardinality(Unread) \in Nat /\ PageLimit \in Nat
  BY <1>1, FS_CardinalityType, SpoolAssumption
<1>3. SpoolInv /\ (Cardinality(Unread) <= PageLimit => crowded = {}) => NothingSkipped
  BY <1>2 DEF SpoolInv, NothingPassedBy, NothingSkipped, Settled, Excused
<1> QED
  BY <1>3, OnePageIsEnough, SpoolInductive, PTL

\* An event is delivered once, and once more at most for each fault.
THEOREM FewDuplicates == Spec => []DuplicatesNeedFaults
<1>1. SpoolInv => DuplicatesNeedFaults
  <2> SUFFICES ASSUME SpoolInv, NEW e \in Delivered
               PROVE  Cardinality(Copies(e)) <= 1 + faults
    BY DEF DuplicatesNeedFaults, Copies
  <2>1. e \in Event
    BY Fields DEF Delivered, SpoolInv, Typed, TypeOK
  <2> QED
    BY <2>1 DEF SpoolInv, FewCopies
<1> QED
  BY <1>1, SpoolInductive, PTL

\* A directed message leaves new/ only after it was printed, whatever readers there are
\* and whichever of them die or cannot print.
THEOREM PrintedFirst == Spec => []PrintedBeforeAck
<1>1. SpoolInv => PrintedBeforeAck
  BY DEF SpoolInv
<1> QED
  BY <1>1, SpoolInductive, PTL
=============================================================================
