-------------------------- MODULE SupervisorProofs --------------------------
(* Proofs about Supervisor, for any number of items, workers and runs, and  *)
(* any number of failing statements.                                        *)
EXTENDS Supervisor, SequenceTheorems, FiniteSetTheorems, TLAPS

\* The statement at position k of the running handler.
Due(k, op, i, w, to) == Len(todo) >= k /\ todo[k] = Stmt(op, i, w, to)

\* From position k on nothing has begun: the handler is about to query, or to look
\* at pending items, each of which no other statement is about.
NothingBegun(k) ==
  \/ k = Len(todo) /\ todo[k].op = "query"
  \/ \A j \in DOMAIN todo : j >= k =>
       /\ todo[j].op = "dispatch"
       /\ todo[j].item \in Item
       /\ item[todo[j].item] = "pending"
       /\ \A l \in DOMAIN todo : todo[l].item = todo[j].item => l = j

\* What is left of Settle, of DispatchTo and of Reject, by the statement that is next.
Settling(h) ==
  /\ h.worker \in Worker /\ h.item \in Item /\ workOf[h.worker] = h.item
  /\ h.item \in Dispatchable
  /\ \/ /\ h.op = "item" /\ h.to \in Terminal
        /\ Due(2, "close", h.item, h.worker, "none") /\ Due(3, "log", h.item, h.worker, h.to)
        /\ NothingBegun(4)
     \/ /\ h.op = "close"
        /\ \E to \in Terminal : Due(2, "log", h.item, h.worker, to)
        /\ NothingBegun(3)
     \/ /\ h.op = "log" /\ h.to \in Terminal
        /\ NothingBegun(2)

Dispatching(h) ==
  /\ h.worker \in Worker /\ h.item \in Item /\ workOf[h.worker] = h.item
  /\ h.item \in Dispatchable
  /\ \/ /\ h.op = "item" /\ h.to = "running"
        /\ Due(2, "log", h.item, h.worker, "running") /\ Due(3, "open", h.item, h.worker, "none")
        /\ Due(4, "start", h.item, h.worker, "none")
        /\ NothingBegun(5)
     \/ /\ h.op = "log" /\ h.to = "running"
        /\ Due(2, "open", h.item, h.worker, "none") /\ Due(3, "start", h.item, h.worker, "none")
        /\ NothingBegun(4)
     \/ /\ h.op = "open"
        /\ Due(2, "start", h.item, h.worker, "none")
        /\ NothingBegun(3)
     \/ /\ h.op = "start"
        /\ NothingBegun(2)

Rejecting(h) ==
  /\ h.worker = None /\ h.item \in Item /\ h.item \notin Dispatchable /\ h.to = "failed"
  /\ \/ /\ h.op = "item"
        /\ Due(2, "log", h.item, None, "failed")
        /\ NothingBegun(3)
     \/ /\ h.op = "log"
        /\ NothingBegun(2)

Begun == todo # <<>> /\ todo[1].op \notin {"query", "dispatch"}

HandlerInOrder ==
  todo # <<>> =>
    \/ NothingBegun(1) /\ todo[1].op \in {"query", "dispatch"}
    \/ Settling(todo[1]) \/ Dispatching(todo[1]) \/ Rejecting(todo[1])

\* How far the item of the running handler got, and what its log says by then.
HowFar(i, h) ==
  /\ h.op = "item" =>
       /\ item[i] = IF h.to = "running" \/ h.worker = None THEN "pending" ELSE "running"
       /\ log[i] = Path(i)
  /\ h.op = "log" =>
       /\ item[i] = h.to
       /\ log[i] = IF h.to = "running" \/ h.worker = None THEN <<"pending">>
                                                           ELSE <<"pending", "running">>
  /\ h.op = "close" => item[i] = todo[2].to /\ log[i] = <<"pending", "running">>
  /\ h.op \in {"open", "start"} => item[i] = "running" /\ log[i] = Path(i)

PathsTold ==
  \A i \in Item \ faulty :
    /\ item[i] \in {"running", "completed"} => i \in Dispatchable
    /\ IF Begun /\ todo[1].item = i THEN HowFar(i, todo[1]) ELSE log[i] = Path(i)

\* A tracked worker runs its item, alone, and the running handler is not about it.
TrackedRun ==
  \A w \in tracked :
    /\ workOf[w] \in Dispatchable
    /\ workOf[w] \notin faulty =>
         /\ item[workOf[w]] = "running"
         /\ \A u \in tracked : workOf[u] = workOf[w] => u = w
         /\ Begun => todo[1].item # workOf[w]

SIInv == TypeOK /\ HandlerInOrder /\ PathsTold /\ TrackedRun

\* With one worker in flight at most: nobody works on an item that is settled, and
\* while a worker runs the loop only ticks.
Unsettled(i) == item[i] \notin Terminal
OneInFlight ==
  /\ \A w, u \in tracked : w = u
  /\ \A w \in tracked : Unsettled(workOf[w])
  /\ todo # <<>> /\ todo[1].op # "query" => tracked = {}
  /\ \A k \in DOMAIN todo : todo[k].op = "dispatch" => Len(todo) = 1
  /\ todo # <<>> =>
       (todo[1].op \in {"item", "open", "start"} \/ (todo[1].op = "log" /\ todo[1].to = "running")
          => Unsettled(todo[1].item))

-----------------------------------------------------------------------------
(* Sequences of statements.                                                 *)

LEMMA TailOf ==
  ASSUME NEW q \in Seq(Statement), q # <<>>
  PROVE  /\ Len(q) \in Nat \ {0} /\ DOMAIN q = 1..Len(q) /\ Head(q) = q[1]
         /\ q[1] \in Statement
         /\ Tail(q) \in Seq(Statement)
         /\ Len(Tail(q)) = Len(q) - 1 /\ DOMAIN Tail(q) = 1..(Len(q) - 1)
         /\ \A k \in 1..(Len(q) - 1) : Tail(q)[k] = q[k + 1]
         /\ Tail(q) # <<>> => Len(q) > 1
<1>1. Len(q) \in Nat \ {0} /\ DOMAIN q = 1..Len(q) /\ Head(q) = q[1]
  BY EmptySeq, LenProperties
<1>2. Tail(q) \in Seq(Statement) /\ Len(Tail(q)) = Len(q) - 1
      /\ \A k \in 1..(Len(q) - 1) : Tail(q)[k] = q[k + 1]
  BY HeadTailProperties
<1>3. DOMAIN Tail(q) = 1..(Len(q) - 1)
  BY <1>1, <1>2, LenProperties
<1>4. Tail(q) # <<>> => Len(q) > 1
  <2>1. Tail(q) # <<>> => Len(Tail(q)) \in Nat \ {0}
    BY <1>2, EmptySeq
  <2> QED
    BY <1>1, <1>2, <2>1
<1>5. q[1] \in Statement
  BY <1>1, ElementOfSeq
<1> QED
  BY <1>1, <1>2, <1>3, <1>4, <1>5

LEMMA InFrontOf ==
  ASSUME NEW p \in Seq(Statement), NEW q \in Seq(Statement), p # <<>>
  PROVE  /\ p \o q \in Seq(Statement) /\ p \o q # <<>>
         /\ Len(p \o q) = Len(p) + Len(q) /\ DOMAIN (p \o q) = 1..(Len(p) + Len(q))
         /\ \A k \in 1..Len(p) : (p \o q)[k] = p[k]
         /\ \A k \in 1..Len(q) : (p \o q)[k + Len(p)] = q[k]
<1>1. p \o q \in Seq(Statement) /\ Len(p \o q) = Len(p) + Len(q)
      /\ \A k \in 1..Len(p) + Len(q) :
           (p \o q)[k] = IF k <= Len(p) THEN p[k] ELSE q[k - Len(p)]
  BY ConcatProperties
<1>2. Len(p) \in Nat \ {0} /\ Len(q) \in Nat
  BY EmptySeq, LenProperties
<1>3. DOMAIN (p \o q) = 1..(Len(p) + Len(q))
  BY <1>1, LenProperties
<1>4. p \o q # <<>>
  BY <1>1, <1>2, EmptySeq
<1> QED
  BY <1>1, <1>2, <1>3, <1>4

\* The first statement of the handler is done with.
Popped ==
  /\ Len(todo) \in Nat \ {0} /\ DOMAIN todo = 1..Len(todo)
  /\ Len(todo') = Len(todo) - 1 /\ DOMAIN todo' = 1..(Len(todo) - 1)
  /\ \A k \in 1..(Len(todo) - 1) : todo'[k] = todo[k + 1]
  /\ todo' # <<>> => Len(todo) > 1

LEMMA TailPops ==
  ASSUME TypeOK, todo # <<>>, todo' = Tail(todo)
  PROVE  /\ Popped /\ todo' \in Seq(Statement)
         /\ Head(todo) = todo[1] /\ todo[1] \in Statement
  BY TailOf DEF Popped, TypeOK

\* A handler goes on: what was not begun before is not begun now.
LEMMA StillNotBegun ==
  ASSUME Popped, NEW k \in Nat \ {0}, NothingBegun(k + 1),
         \A i \in Item : i # todo[1].item => item'[i] = item[i]
  PROVE  NothingBegun(k)'
<1>1. CASE k + 1 = Len(todo) /\ todo[k + 1].op = "query"
  <2>1. k = Len(todo') /\ todo'[k] = todo[k + 1]
    BY <1>1 DEF Popped
  <2> QED
    BY <1>1, <2>1 DEF NothingBegun
<1>2. CASE ~ (k + 1 = Len(todo) /\ todo[k + 1].op = "query")
  <2> SUFFICES ASSUME NEW j \in DOMAIN todo', j >= k
               PROVE  /\ todo'[j].op = "dispatch"
                      /\ todo'[j].item \in Item
                      /\ item'[todo'[j].item] = "pending"
                      /\ \A l \in DOMAIN todo' : todo'[l].item = todo'[j].item => l = j
    BY DEF NothingBegun
  <2>1. j + 1 \in DOMAIN todo /\ j + 1 >= k + 1 /\ todo'[j] = todo[j + 1] /\ j + 1 # 1
        /\ 1 \in DOMAIN todo
    BY DEF Popped
  <2>2. /\ todo[j + 1].op = "dispatch"
        /\ todo[j + 1].item \in Item
        /\ item[todo[j + 1].item] = "pending"
        /\ \A l \in DOMAIN todo : todo[l].item = todo[j + 1].item => l = j + 1
    BY <1>2, <2>1 DEF NothingBegun
  <2>3. todo[j + 1].item # todo[1].item
    BY <2>1, <2>2
  <2>4. \A l \in DOMAIN todo' : todo'[l].item = todo'[j].item => l = j
    <3> SUFFICES ASSUME NEW l \in DOMAIN todo', todo'[l].item = todo'[j].item PROVE l = j
      OBVIOUS
    <3>1. l + 1 \in DOMAIN todo /\ todo[l + 1].item = todo[j + 1].item
      BY <2>1 DEF Popped
    <3> QED
      BY <2>1, <2>2, <3>1 DEF Popped
  <2> QED
    BY <2>1, <2>2, <2>3, <2>4
<1> QED
  BY <1>1, <1>2

\* The handler goes on in order.
LEMMA GoesOn ==
  ASSUME HandlerInOrder, Begun, Popped, UNCHANGED workOf,
         \A i \in Item : i # todo[1].item => item'[i] = item[i]
  PROVE  HandlerInOrder'
<1> DEFINE h == todo[1]
<1>1. todo # <<>> /\ (Settling(h) \/ Dispatching(h) \/ Rejecting(h))
  BY DEF HandlerInOrder, Begun
<1>2. /\ Len(todo) \in Nat \ {0} /\ Len(todo') = Len(todo) - 1
      /\ \A j \in 1..(Len(todo) - 1) : todo'[j] = todo[j + 1]
      /\ todo' # <<>> => Len(todo) > 1
  BY DEF Popped
<1>3. /\ NothingBegun(2) => NothingBegun(1)'
      /\ NothingBegun(3) => NothingBegun(2)'
      /\ NothingBegun(4) => NothingBegun(3)'
      /\ NothingBegun(5) => NothingBegun(4)'
  <2>1. ASSUME NEW k \in Nat \ {0}, NothingBegun(k + 1) PROVE NothingBegun(k)'
    BY <2>1, StillNotBegun
  <2>2. 1 + 1 = 2 /\ 2 + 1 = 3 /\ 3 + 1 = 4 /\ 4 + 1 = 5
    OBVIOUS
  <2> QED
    BY <2>1, <2>2
<1> HIDE DEF h
<1> SUFFICES ASSUME todo' # <<>>
             PROVE  \/ NothingBegun(1)' /\ todo'[1].op \in {"query", "dispatch"}
                    \/ Settling(todo[1])' \/ Dispatching(todo[1])' \/ Rejecting(todo[1])'
  BY DEF HandlerInOrder
<1>4. NothingBegun(2) => NothingBegun(1)' /\ todo'[1].op \in {"query", "dispatch"}
  BY <1>2, <1>3 DEF NothingBegun, TypeOK
<1>5. CASE Settling(h)
  <2>1. CASE h.op = "item"
    <3>1. NothingBegun(4) /\ h.to \in Terminal /\ Len(todo) >= 3
      BY <1>5, <2>1 DEF Settling, Due
    <3>4. todo'[1] = todo[2] /\ todo'[2] = todo[3] /\ Len(todo') >= 2
      BY <1>2, <3>1
    <3>2. Due(2, "close", h.item, h.worker, "none") /\ Due(3, "log", h.item, h.worker, h.to)
      BY <1>5, <2>1 DEF Settling
    <3>3. todo'[2] = Stmt("log", h.item, h.worker, h.to)
      BY <3>2, <3>4 DEF Due
    <3>5. NothingBegun(3)' /\ todo'[1] = Stmt("close", h.item, h.worker, "none")
      BY <1>3, <3>1, <3>2, <3>4 DEF Due
    <3>6. todo'[1].worker = h.worker /\ todo'[1].item = h.item /\ todo'[1].op = "close"
      BY <3>5 DEF Stmt
    <3>7. \E to \in Terminal : Due(2, "log", todo[1].item, todo[1].worker, to)'
      BY <3>1, <3>3, <3>4, <3>6 DEF Due
    <3>8. Settling(todo[1])'
      BY <1>5, <3>5, <3>6, <3>7 DEF Settling
    <3> QED
      BY <3>8
  <2>2. CASE h.op = "close"
    <3>1. PICK to \in Terminal : Due(2, "log", h.item, h.worker, to)
      BY <1>5, <2>2 DEF Settling
    <3>2. todo'[1] = Stmt("log", h.item, h.worker, to) /\ NothingBegun(2)'
      BY <1>2, <1>3, <1>5, <2>2, <3>1 DEF Settling, Due
    <3> QED
      BY <1>5, <3>2 DEF Settling, Stmt
  <2>3. CASE h.op = "log"
    BY <1>4, <1>5, <2>3 DEF Settling
  <2> QED
    BY <1>5, <2>1, <2>2, <2>3 DEF Settling
<1>6. CASE Dispatching(h)
  BY <1>2, <1>3, <1>4, <1>6 DEF Dispatching, Due, Stmt, h
<1>7. CASE Rejecting(h)
  <2>1. CASE h.op = "item"
    <3>1. todo'[1] = Stmt("log", h.item, None, "failed") /\ NothingBegun(2)'
      BY <1>2, <1>3, <1>7, <2>1 DEF Rejecting, Due
    <3> QED
      BY <1>7, <3>1 DEF Rejecting, Stmt
  <2>2. CASE h.op = "log"
    BY <1>4, <1>7, <2>2 DEF Rejecting
  <2> QED
    BY <1>7, <2>1, <2>2 DEF Rejecting
<1> QED
  BY <1>1, <1>5, <1>6, <1>7

\* Other statements about its item take the place of the first statement.
LEMMA ReplacedBy ==
  ASSUME todo \in Seq(Statement), todo # <<>>, NothingBegun(2), UNCHANGED item,
         NEW p \in Seq(Statement), p # <<>>, todo' = p \o Tail(todo),
         \A k \in 1..Len(p) : p[k].item = todo[1].item
  PROVE  NothingBegun(Len(p) + 1)'
<1> DEFINE n == Len(p)
<1>1. /\ Len(todo) \in Nat \ {0} /\ DOMAIN todo = 1..Len(todo)
      /\ Tail(todo) \in Seq(Statement) /\ Len(Tail(todo)) = Len(todo) - 1
      /\ \A k \in 1..(Len(todo) - 1) : Tail(todo)[k] = todo[k + 1]
  BY TailOf
<1>2. n \in Nat \ {0}
  BY EmptySeq
<1>3. /\ Len(todo') = n + Len(todo) - 1 /\ DOMAIN todo' = 1..(n + Len(todo) - 1)
      /\ \A k \in 1..n : todo'[k] = p[k]
      /\ \A k \in 1..(Len(todo) - 1) : todo'[k + n] = Tail(todo)[k]
  BY <1>1, <1>2, InFrontOf
<1>4. \A k \in 2..Len(todo) : todo'[k + n - 1] = todo[k]
  <2> SUFFICES ASSUME NEW k \in 2..Len(todo) PROVE todo'[k + n - 1] = todo[k]
    OBVIOUS
  <2>1. k - 1 \in 1..(Len(todo) - 1)
    BY <1>1
  <2>2. todo'[(k - 1) + n] = todo[(k - 1) + 1]
    BY <1>1, <1>3, <2>1
  <2>3. (k - 1) + n = k + n - 1 /\ (k - 1) + 1 = k
    BY <1>1, <1>2
  <2> QED
    BY <2>2, <2>3
<1>5. \A k \in 1..n : todo'[k].item = todo[1].item
  BY <1>3
<1> HIDE DEF n
<1>6. CASE 2 = Len(todo) /\ todo[2].op = "query"
  <2>1. n + 1 = Len(todo') /\ todo'[n + 1] = todo[2]
    <3>0. Len(todo) = 2
      BY <1>6
    <3>1. 2 \in 2..Len(todo)
      BY <3>0
    <3>2. todo'[2 + n - 1] = todo[2]
      BY <1>4, <3>1
    <3>3. 2 + n - 1 = n + 1 /\ n + 2 - 1 = n + 1
      BY <1>2
    <3>4. Len(todo') = n + 1
      BY <1>3, <1>6, <3>3
    <3> QED
      BY <3>2, <3>3, <3>4
  <2> QED
    BY <1>3, <1>6, <2>1 DEF NothingBegun, n
<1>7. CASE ~ (2 = Len(todo) /\ todo[2].op = "query")
  <2> SUFFICES ASSUME NEW j \in DOMAIN todo', j >= n + 1
               PROVE  /\ todo'[j].op = "dispatch"
                      /\ todo'[j].item \in Item
                      /\ item'[todo'[j].item] = "pending"
                      /\ \A l \in DOMAIN todo' : todo'[l].item = todo'[j].item => l = j
    BY DEF NothingBegun, n
  <2>1. PICK m \in 2..Len(todo) : j = m + n - 1
    <3>1. j - n + 1 \in 2..Len(todo) /\ j = (j - n + 1) + n - 1
      BY <1>1, <1>2, <1>3
    <3> QED
      BY <3>1
  <2>2. m \in DOMAIN todo /\ m >= 2 /\ todo'[j] = todo[m] /\ 1 \in DOMAIN todo /\ m # 1
    BY <1>1, <1>4, <2>1
  <2>3. /\ todo[m].op = "dispatch"
        /\ todo[m].item \in Item
        /\ item[todo[m].item] = "pending"
        /\ \A l \in DOMAIN todo : todo[l].item = todo[m].item => l = m
    BY <1>7, <2>2 DEF NothingBegun
  <2>4. \A l \in DOMAIN todo' : todo'[l].item = todo'[j].item => l = j
    <3> SUFFICES ASSUME NEW l \in DOMAIN todo', todo'[l].item = todo'[j].item PROVE l = j
      OBVIOUS
    <3>1. CASE l <= n
      <4>1. todo[1].item = todo[m].item
        BY <1>2, <1>3, <1>5, <2>2, <3>1
      <4> QED
        BY <2>2, <2>3, <4>1
    <3>2. CASE l > n
      <4>1. PICK q \in 2..Len(todo) : l = q + n - 1
        <5>0. l \in 1..(n + Len(todo) - 1)
          BY <1>3
        <5>1. l - n + 1 \in 2..Len(todo) /\ l = (l - n + 1) + n - 1
          BY <1>1, <1>2, <3>2, <5>0
        <5> QED
          BY <5>1
      <4>2. q \in DOMAIN todo /\ todo[q].item = todo[m].item
        <5>1. todo'[l] = todo[q]
          BY <1>4, <4>1
        <5>2. q \in DOMAIN todo
          BY <1>1, <4>1
        <5> QED
          BY <2>2, <5>1, <5>2
      <4> QED
        BY <2>1, <2>3, <4>1, <4>2
    <3> QED
      BY <1>2, <1>3, <3>1, <3>2
  <2> QED
    BY <2>2, <2>3, <2>4
<1> QED
  BY <1>6, <1>7

\* The shape of the statements that handlers run.
LEMMA Handlers ==
  /\ \A w \in Worker, to \in Terminal : workOf[w] \in Item =>
       Settle(w, to) \in Seq(Statement) /\ Settle(w, to) # <<>> /\ Len(Settle(w, to)) = 3
  /\ \A w \in Worker, i \in Item :
       DispatchTo(i, w) \in Seq(Statement) /\ DispatchTo(i, w) # <<>> /\ Len(DispatchTo(i, w)) = 4
  /\ \A i \in Item :
       Reject(i) \in Seq(Statement) /\ Reject(i) # <<>> /\ Len(Reject(i)) = 2
  BY DEF Settle, DispatchTo, Reject, Stmt, Statement, Op, Terminal

-----------------------------------------------------------------------------
(* Handlers run in order.                                                   *)

\* Statements come first.
LEMMA ComeFirst ==
  ASSUME NEW p \in Seq(Statement), NEW q \in Seq(Statement), p # <<>>, NEW n, Len(p) = n,
         todo' = p \o q
  PROVE  /\ todo' \in Seq(Statement) /\ todo' # <<>>
         /\ Len(todo') = n + Len(q) /\ Len(q) \in Nat
         /\ \A k \in 1..n : todo'[k] = p[k]
<1>1. /\ p \o q \in Seq(Statement) /\ p \o q # <<>>
      /\ Len(p \o q) = Len(p) + Len(q)
      /\ \A k \in 1..Len(p) : (p \o q)[k] = p[k]
  BY InFrontOf
<1> QED
  BY <1>1, LenProperties

LEMMA SettleFirst ==
  ASSUME NEW w \in Worker, NEW to \in Terminal, workOf[w] \in Dispatchable, UNCHANGED workOf,
         NEW q \in Seq(Statement), todo' = Settle(w, to) \o q, NothingBegun(4)'
  PROVE  /\ Settling(todo[1])' /\ todo' \in Seq(Statement) /\ todo' # <<>>
         /\ todo'[1] = Stmt("item", workOf[w], w, to)
<1>0. workOf[w] \in Item
  BY SupervisorAssumption
<1>1. /\ todo' \in Seq(Statement) /\ todo' # <<>> /\ Len(todo') = 3 + Len(q) /\ Len(q) \in Nat
      /\ \A k \in 1..3 : todo'[k] = Settle(w, to)[k]
  <2>1. Settle(w, to) \in Seq(Statement) /\ Settle(w, to) # <<>> /\ Len(Settle(w, to)) = 3
    BY <1>0, Handlers
  <2> QED
    BY <2>1, ComeFirst
<1>2. /\ todo'[1] = Stmt("item", workOf[w], w, to)
      /\ todo'[2] = Stmt("close", workOf[w], w, "none")
      /\ todo'[3] = Stmt("log", workOf[w], w, to)
  BY <1>1 DEF Settle
<1>3. todo'[1].op = "item" /\ todo'[1].item = workOf[w] /\ todo'[1].worker = w /\ todo'[1].to = to
  BY <1>2 DEF Stmt
<1>4. /\ Due(2, "close", todo[1].item, todo[1].worker, "none")'
      /\ Due(3, "log", todo[1].item, todo[1].worker, todo[1].to)'
  BY <1>1, <1>2, <1>3 DEF Due
<1> QED
  BY <1>0, <1>1, <1>2, <1>3, <1>4 DEF Settling

LEMMA DispatchFirst ==
  ASSUME NEW w \in Worker, NEW i \in Item, i \in Dispatchable, workOf'[w] = i,
         NEW q \in Seq(Statement), todo' = DispatchTo(i, w) \o q, NothingBegun(5)'
  PROVE  /\ Dispatching(todo[1])' /\ todo' \in Seq(Statement) /\ todo' # <<>>
         /\ todo'[1] = Stmt("item", i, w, "running")
<1>1. /\ todo' \in Seq(Statement) /\ todo' # <<>> /\ Len(todo') = 4 + Len(q) /\ Len(q) \in Nat
      /\ \A k \in 1..4 : todo'[k] = DispatchTo(i, w)[k]
  <2>1. /\ DispatchTo(i, w) \in Seq(Statement) /\ DispatchTo(i, w) # <<>>
        /\ Len(DispatchTo(i, w)) = 4
    BY Handlers DEF Terminal
  <2> QED
    BY <2>1, ComeFirst
<1>2. /\ todo'[1] = Stmt("item", i, w, "running")
      /\ todo'[2] = Stmt("log", i, w, "running")
      /\ todo'[3] = Stmt("open", i, w, "none")
      /\ todo'[4] = Stmt("start", i, w, "none")
  BY <1>1 DEF DispatchTo
<1>3. todo'[1].op = "item" /\ todo'[1].item = i /\ todo'[1].worker = w /\ todo'[1].to = "running"
  BY <1>2 DEF Stmt
<1>4. /\ Due(2, "log", todo[1].item, todo[1].worker, "running")'
      /\ Due(3, "open", todo[1].item, todo[1].worker, "none")'
      /\ Due(4, "start", todo[1].item, todo[1].worker, "none")'
  BY <1>1, <1>2, <1>3 DEF Due
<1> QED
  BY <1>1, <1>2, <1>3, <1>4 DEF Dispatching

LEMMA RejectFirst ==
  ASSUME NEW i \in Item, i \notin Dispatchable,
         NEW q \in Seq(Statement), todo' = Reject(i) \o q, NothingBegun(3)'
  PROVE  /\ Rejecting(todo[1])' /\ todo' \in Seq(Statement) /\ todo' # <<>>
         /\ todo'[1] = Stmt("item", i, None, "failed")
<1>1. /\ todo' \in Seq(Statement) /\ todo' # <<>> /\ Len(todo') = 2 + Len(q) /\ Len(q) \in Nat
      /\ \A k \in 1..2 : todo'[k] = Reject(i)[k]
  <2>1. Reject(i) \in Seq(Statement) /\ Reject(i) # <<>> /\ Len(Reject(i)) = 2
    BY Handlers
  <2> QED
    BY <2>1, ComeFirst
<1>2. todo'[1] = Stmt("item", i, None, "failed") /\ todo'[2] = Stmt("log", i, None, "failed")
  BY <1>1 DEF Reject
<1>3. todo'[1].op = "item" /\ todo'[1].item = i /\ todo'[1].worker = None /\ todo'[1].to = "failed"
  BY <1>2 DEF Stmt
<1>4. Due(2, "log", todo[1].item, None, "failed")'
  BY <1>1, <1>2, <1>3 DEF Due
<1> QED
  BY <1>1, <1>2, <1>3, <1>4 DEF Rejecting

\* What a query finds: pending items, each once, in a sequence.
LEMMA QueryFinds ==
  ASSUME TypeOK, Query
  PROVE  /\ todo' \in Seq(Statement)
         /\ \A j \in DOMAIN todo' :
              /\ todo'[j] \in Statement /\ todo'[j].op = "dispatch"
              /\ todo'[j].item \in Pending
              /\ \A l \in DOMAIN todo' : todo'[l].item = todo'[j].item => l = j
<1> DEFINE n == Cardinality(Oldest(Room))
<1>1. PICK pending \in [1..n -> Oldest(Room)] :
        /\ InOrder(pending)
        /\ todo' = [k \in DOMAIN pending |-> Stmt("dispatch", pending[k], None, "none")]
  BY DEF Query
<1>2. n \in Nat
  <2>1. Items \in Nat /\ Oldest(Room) \subseteq 1..Items
    BY SupervisorAssumption DEF Oldest, Pending, Item
  <2>2. IsFiniteSet(1..Items)
    BY <2>1, FS_Interval
  <2>3. IsFiniteSet(Oldest(Room))
    BY <2>1, <2>2, FS_Subset
  <2> QED
    BY <2>3, FS_CardinalityType
<1> HIDE DEF n
<1>3. Oldest(Room) \subseteq Pending /\ Pending \subseteq Item /\ Item \subseteq Nat
  BY DEF Oldest, Pending, Item
<1>4. DOMAIN todo' = 1..n
  BY <1>1
<1>5. \A j \in 1..n : /\ todo'[j] = Stmt("dispatch", pending[j], None, "none")
                     /\ pending[j] \in Pending
  BY <1>1, <1>3
<1>6. \A j \in 1..n : /\ todo'[j] \in Statement /\ todo'[j].op = "dispatch"
                     /\ todo'[j].item = pending[j]
  <2> SUFFICES ASSUME NEW j \in 1..n
               PROVE  /\ todo'[j] \in Statement /\ todo'[j].op = "dispatch"
                      /\ todo'[j].item = pending[j]
    OBVIOUS
  <2>1. todo'[j] = Stmt("dispatch", pending[j], None, "none") /\ pending[j] \in Item
    BY <1>3, <1>5
  <2>2. \A i \in Item : /\ Stmt("dispatch", i, None, "none") \in Statement
                       /\ Stmt("dispatch", i, None, "none").op = "dispatch"
                       /\ Stmt("dispatch", i, None, "none").item = i
    BY DEF Stmt, Statement, Op
  <2> QED
    BY <2>1, <2>2
<1>7. \A j, l \in 1..n : pending[l] = pending[j] => l = j
  <2> SUFFICES ASSUME NEW j \in 1..n, NEW l \in 1..n, pending[l] = pending[j], l # j
               PROVE  FALSE
    OBVIOUS
  <2>1. pending[j] \in Nat
    BY <1>3, <1>5
  <2>2. j < l => pending[j] < pending[l]
    BY <1>1 DEF InOrder
  <2>3. l < j => pending[l] < pending[j]
    BY <1>1 DEF InOrder
  <2> QED
    BY <1>2, <2>1, <2>2, <2>3
<1>8. todo' \in Seq(Statement)
  <2>1. todo' \in [1..n -> Statement]
    BY <1>1, <1>4, <1>6
  <2> QED
    BY <1>2, <2>1, SeqDef
<1> QED
  BY <1>4, <1>5, <1>6, <1>7, <1>8

\* Every step leaves a handler in order.
LEMMA HandlerKeeps ==
  ASSUME TypeOK, HandlerInOrder, TrackedRun, [Next]_vars
  PROVE  HandlerInOrder' /\ todo' \in Seq(Statement)
<1> DEFINE Goal == HandlerInOrder' /\ todo' \in Seq(Statement)
<1>0. todo \in Seq(Statement)
  BY DEF TypeOK
<1>1. ASSUME UNCHANGED <<todo, workOf>>, \A i \in Item : item[i] = "pending" => item'[i] = "pending"
      PROVE  Goal
  <2>1. \A k \in 1..5 : NothingBegun(k) => NothingBegun(k)'
    BY <1>1 DEF NothingBegun
  <2> QED
    BY <1>0, <1>1, <2>1 DEF HandlerInOrder, Settling, Dispatching, Rejecting, Due
<1>2. ASSUME todo' = <<>> PROVE Goal
  BY <1>2, EmptySeq DEF HandlerInOrder
<1>3. ASSUME Begun, todo' = Tail(todo), UNCHANGED workOf,
             \A i \in Item : i # todo[1].item => item'[i] = item[i]
      PROVE  Goal
  <2>1. todo # <<>>
    BY <1>3 DEF Begun
  <2> QED
    BY <1>3, <2>1, TailPops, GoesOn
<1>4. CASE RunStatement
  <2>1. /\ todo # <<>> /\ Head(todo) = todo[1] /\ Begun
    BY <1>0, <1>4, TailOf DEF RunStatement, AtStatement, Begun
  <2>2. \A i \in Item : i # todo[1].item => item'[i] = item[i]
    BY <1>4, <2>1 DEF RunStatement, Apply, TypeOK
  <2> QED
    BY <1>3, <1>4, <2>1, <2>2 DEF RunStatement, os
<1>5. CASE StatementFails
  <2>1. /\ todo # <<>> /\ Head(todo) = todo[1] /\ Begun
    BY <1>0, <1>5, TailOf DEF StatementFails, AtStatement, Begun
  <2> QED
    BY <1>3, <1>5, <2>1 DEF StatementFails, os, db
<1>6. CASE StartWorker
  <2>1. /\ todo # <<>> /\ Head(todo) = todo[1] /\ Begun
    BY <1>0, <1>6, TailOf DEF StartWorker, AtStatement, Begun
  <2> QED
    BY <1>3, <1>6, <2>1 DEF StartWorker, db
<1>7. CASE HandleResult
  <2>1. PICK r \in results : todo' = IF Counts(r.worker) THEN Settle(r.worker, r.to) ELSE <<>>
    BY <1>7 DEF HandleResult
  <2>2. CASE Counts(r.worker)
    <3>1. r.worker \in Worker /\ r.to \in Terminal /\ workOf[r.worker] \in Dispatchable
          /\ workOf[r.worker] \in Item /\ UNCHANGED workOf
      BY SupervisorAssumption, <1>7, <2>1, <2>2 DEF HandleResult, Counts, TypeOK, TrackedRun, os
    <3>2. todo' = Settle(r.worker, r.to)
      BY <2>1, <2>2
    <3>3. Settle(r.worker, r.to) \in Seq(Statement) /\ Len(Settle(r.worker, r.to)) = 3
      BY <3>1, Handlers
    <3>4. todo' = Settle(r.worker, r.to) \o <<>>
      BY <3>2, <3>3, ConcatEmptySeq
    <3>5. Len(todo') = 3 /\ DOMAIN todo' = 1..3
      BY <3>2, <3>3, LenProperties
    <3>6. NothingBegun(4)'
      BY <3>5 DEF NothingBegun
    <3> QED
      BY <3>1, <3>4, <3>6, SettleFirst, EmptySeq DEF HandlerInOrder
  <2> QED
    BY <1>2, <2>1, <2>2
<1>8. CASE Tick
  <2>1. todo' = << Stmt("query", 0, None, "none") >>
    BY <1>8 DEF Tick
  <2>2. /\ todo' \in Seq(Statement) /\ Len(todo') = 1 /\ todo'[1].op = "query"
    BY <2>1 DEF Stmt, Statement, Op
  <2> QED
    BY <2>2 DEF HandlerInOrder, NothingBegun
<1>9. CASE Query
  <2>1. NothingBegun(1)' /\ todo' \in Seq(Statement)
    BY <1>9, QueryFinds DEF NothingBegun, Pending, Query, db
  <2>2. todo' # <<>> => todo'[1].op = "dispatch"
    <3>1. todo' # <<>> => 1 \in DOMAIN todo'
      BY <2>1, TailOf
    <3> QED
      BY <1>9, <3>1, QueryFinds
  <2> QED
    BY <2>1, <2>2 DEF HandlerInOrder
<1>10. CASE QueryFails
  BY <1>2, <1>10 DEF QueryFails
<1>11. CASE Dispatch
  <2>1. /\ todo # <<>> /\ Head(todo) = todo[1] /\ todo[1].op = "dispatch"
        /\ Tail(todo) \in Seq(Statement) /\ 1 \in DOMAIN todo /\ UNCHANGED item
    BY <1>0, <1>11, TailOf DEF Dispatch, AtStatement, db
  <2>2. NothingBegun(1)
    BY <2>1 DEF HandlerInOrder, Settling, Dispatching, Rejecting
  <2>3. NothingBegun(2) /\ todo[1].item \in Item
    BY <2>1, <2>2 DEF NothingBegun
  <2>4. ASSUME NEW p \in Seq(Statement), NEW n \in Nat, p # <<>>, Len(p) = n,
               todo' = p \o Tail(todo), \A k \in 1..n : p[k].item = todo[1].item
        PROVE  NothingBegun(n + 1)'
    BY <1>0, <2>1, <2>3, <2>4, ReplacedBy
  <2> DEFINE i == todo[1].item
  <2>5. CASE i \in Dispatchable
    <3> DEFINE w == CHOOSE x \in Worker : workOf[x] = None
    <3>1. (\E x \in Worker : workOf[x] = None) /\ workOf' = [workOf EXCEPT ![w] = i]
          /\ todo' = DispatchTo(i, w) \o Tail(todo)
      BY <1>11, <2>1, <2>5 DEF Dispatch
    <3>2. w \in Worker
      BY <3>1
    <3> HIDE DEF w
    <3>3. workOf'[w] = i
      BY <3>1, <3>2 DEF TypeOK
    <3>4. \A k \in 1..4 : DispatchTo(i, w)[k].item = i
      BY DEF DispatchTo, Stmt
    <3>5. /\ DispatchTo(i, w) \in Seq(Statement) /\ DispatchTo(i, w) # <<>>
          /\ Len(DispatchTo(i, w)) = 4
      BY <2>3, <3>2, Handlers
    <3>6. NothingBegun(4 + 1)'
      BY <2>4, <3>1, <3>4, <3>5
    <3>7. NothingBegun(5)'
      BY <3>6
    <3> QED
      BY <2>1, <2>3, <2>5, <3>1, <3>2, <3>3, <3>7, DispatchFirst DEF HandlerInOrder
  <2>6. CASE i \notin Dispatchable
    <3>1. todo' = Reject(i) \o Tail(todo)
      BY <1>11, <2>1, <2>6 DEF Dispatch
    <3>2. \A k \in 1..2 : Reject(i)[k].item = i
      BY DEF Reject, Stmt
    <3>3. Reject(i) \in Seq(Statement) /\ Reject(i) # <<>> /\ Len(Reject(i)) = 2
      BY <2>3, Handlers
    <3>4. NothingBegun(2 + 1)'
      BY <2>4, <3>1, <3>2, <3>3
    <3>5. NothingBegun(3)'
      BY <3>4
    <3> QED
      BY <2>1, <2>3, <2>6, <3>1, <3>5, RejectFirst DEF HandlerInOrder
  <2> QED
    BY <2>5, <2>6
<1>12. CASE StartFails
  <2>1. /\ todo # <<>> /\ Head(todo) = todo[1] /\ todo[1].op = "start"
        /\ Tail(todo) \in Seq(Statement) /\ UNCHANGED <<item, workOf>>
        /\ todo' = Settle(todo[1].worker, "failed") \o Tail(todo)
    BY <1>0, <1>12, TailOf DEF StartFails, AtStatement, db, os
  <2> DEFINE w == todo[1].worker
  <2>2. /\ w \in Worker /\ workOf[w] \in Item /\ workOf[w] \in Dispatchable
        /\ workOf[w] = todo[1].item /\ NothingBegun(2)
    BY <2>1 DEF HandlerInOrder, Settling, Dispatching, Rejecting, NothingBegun
  <2> HIDE DEF w
  <2>3. /\ Settle(w, "failed") \in Seq(Statement) /\ Settle(w, "failed") # <<>>
        /\ Len(Settle(w, "failed")) = 3
    BY <2>2, Handlers DEF Terminal
  <2>4. \A k \in 1..3 : Settle(w, "failed")[k].item = todo[1].item
    BY <2>2 DEF Settle, Stmt
  <2>5. NothingBegun(3 + 1)'
    BY <1>0, <2>1, <2>2, <2>3, <2>4, ReplacedBy DEF w
  <2>6. NothingBegun(4)'
    BY <2>5
  <2> QED
    BY <2>1, <2>2, <2>6, SettleFirst DEF HandlerInOrder, Terminal, w
<1>13. ASSUME NEW w \in Worker, Expire(w) PROVE Goal
  <2>1. /\ todo # <<>> /\ Head(todo) = todo[1] /\ todo[1].op = "query"
        /\ UNCHANGED <<item, workOf>> /\ 1 \in DOMAIN todo
        /\ todo' = Settle(w, "failed") \o todo
    BY <1>0, <1>13, TailOf DEF Expire, AtStatement, db
  <2>2. Len(todo) = 1
    BY <2>1 DEF HandlerInOrder, Settling, Dispatching, Rejecting, NothingBegun
  <2>3. workOf[w] \in Item /\ workOf[w] \in Dispatchable
    BY <1>13, SupervisorAssumption DEF Expire, Expirable, TrackedRun
  <2>4. /\ Settle(w, "failed") \in Seq(Statement) /\ Settle(w, "failed") # <<>>
        /\ Len(Settle(w, "failed")) = 3
    BY <2>3, Handlers DEF Terminal
  <2>5. Len(todo') = 4 /\ todo'[4] = todo[1]
    <3>1. ASSUME NEW p \in Seq(Statement), p # <<>>, Len(p) = 3
          PROVE  Len(p \o todo) = 4 /\ (p \o todo)[4] = todo[1]
      <4>1. 1 \in 1..Len(todo) /\ 1 + Len(p) = 4 /\ Len(p) + Len(todo) = 4
        BY <2>2, <3>1
      <4>2. Len(p \o todo) = Len(p) + Len(todo) /\ (p \o todo)[1 + Len(p)] = todo[1]
        BY <1>0, <3>1, <4>1, InFrontOf
      <4> QED
        BY <4>1, <4>2
    <3> QED
      BY <2>1, <2>4, <3>1
  <2>6. NothingBegun(4)'
    BY <2>1, <2>5 DEF NothingBegun
  <2> QED
    BY <1>0, <2>1, <2>3, <2>6, SettleFirst DEF HandlerInOrder, Terminal
<1>14. ASSUME NEW w \in Worker, WorkerExits(w) PROVE Goal
  BY <1>1, <1>14 DEF WorkerExits, db
<1>15. ASSUME NEW i \in Item, Seed(i) PROVE Goal
  BY <1>1, <1>15 DEF Seed, os, mem, TypeOK
<1>16. CASE StartSupervisor
  BY <1>1, <1>16 DEF StartSupervisor, db, os, mem
<1>17. CASE StopSupervisor
  BY <1>2, <1>17 DEF StopSupervisor, Forget
<1>18. CASE CrashSupervisor
  BY <1>2, <1>18 DEF CrashSupervisor, Forget
<1>19. CASE UNCHANGED vars
  BY <1>1, <1>19 DEF vars, db, os, mem
<1> QED
  BY <1>4, <1>5, <1>6, <1>7, <1>8, <1>9, <1>10, <1>11, <1>12, <1>13, <1>14, <1>15, <1>16,
     <1>17, <1>18, <1>19 DEF Next

-----------------------------------------------------------------------------
(* Types.                                                                   *)

\* The statement a handler has begun with.
LEMMA First ==
  ASSUME TypeOK, HandlerInOrder, todo # <<>>, Head(todo).op \notin {"query", "dispatch"}
  PROVE  /\ Head(todo) = todo[1] /\ Begun /\ 1 \in DOMAIN todo
         /\ Settling(todo[1]) \/ Dispatching(todo[1]) \/ Rejecting(todo[1])
         /\ todo[1].item \in Item
         /\ todo[1].op \in {"item", "log"} => todo[1].to \in {"running"} \cup Terminal
         /\ todo[1].op \in {"open", "close", "start"} =>
              todo[1].worker \in Worker /\ workOf[todo[1].worker] = todo[1].item
<1>1. Head(todo) = todo[1] /\ Begun /\ 1 \in DOMAIN todo
  BY TailOf DEF TypeOK, Begun
<1>2. Settling(todo[1]) \/ Dispatching(todo[1]) \/ Rejecting(todo[1])
  BY <1>1 DEF HandlerInOrder, Begun
<1>3. todo[1].item \in Item
  BY <1>2 DEF Settling, Dispatching, Rejecting
<1>4. todo[1].op \in {"item", "log"} => todo[1].to \in {"running"} \cup Terminal
  BY <1>2 DEF Settling, Dispatching, Rejecting, Terminal
<1>5. todo[1].op \in {"open", "close", "start"} =>
        todo[1].worker \in Worker /\ workOf[todo[1].worker] = todo[1].item
  BY <1>2 DEF Settling, Dispatching, Rejecting
<1> QED
  BY <1>1, <1>2, <1>3, <1>4, <1>5

LEMMA TypesKeep ==
  ASSUME TypeOK, HandlerInOrder, TrackedRun, [Next]_vars
  PROVE  TypeOK'
<1>0. todo' \in Seq(Statement)
  BY HandlerKeeps
<1> USE <1>0, SupervisorAssumption DEF TypeOK, db, os, mem, hist
<1>1. CASE RunStatement
  <2>1. /\ todo # <<>> /\ Head(todo) = todo[1] /\ todo[1].item \in Item
        /\ todo[1].op \in {"item", "log", "open", "close"}
        /\ todo[1].op \in {"item", "log"} => todo[1].to \in {"running"} \cup Terminal
        /\ todo[1].op \in {"open", "close", "start"} => todo[1].worker \in Worker
    BY <1>1, First DEF RunStatement, AtStatement
  <2>2. item' \in [Item -> {"absent", "pending", "running"} \cup Terminal]
    BY <1>1, <2>1 DEF RunStatement, Apply
  <2>3. log' \in [Item -> Seq({"pending", "running"} \cup Terminal)]
    BY <1>1, <2>1 DEF RunStatement, Apply
  <2>4. dispatch' \in [Worker -> {"none", "open", "closed"}]
    BY <1>1, <2>1 DEF RunStatement, Apply
  <2> QED
    BY <1>1, <2>2, <2>3, <2>4 DEF RunStatement
<1>2. CASE StatementFails
  <2>1. Head(todo).item \in Item
    BY <1>2, First DEF StatementFails, AtStatement
  <2> QED
    BY <1>2, <2>1 DEF StatementFails
<1>3. CASE StartWorker
  <2>1. Head(todo).worker \in Worker
    BY <1>3, First DEF StartWorker, AtStatement
  <2> QED
    BY <1>3, <2>1 DEF StartWorker, Track
<1>4. CASE HandleResult
  BY <1>4 DEF HandleResult
<1>5. CASE Tick
  BY <1>5 DEF Tick
<1>6. CASE Query
  BY <1>6 DEF Query
<1>7. CASE QueryFails
  BY <1>7 DEF QueryFails
<1>8. CASE Dispatch
  <2>1. /\ todo # <<>> /\ Head(todo) = todo[1] /\ todo[1].op = "dispatch"
    BY <1>8, TailOf DEF Dispatch, AtStatement
  <2>2. todo[1].item \in Item
    <3>1. 1 \in DOMAIN todo
      BY <2>1, TailOf
    <3> QED
      BY <2>1, <3>1 DEF HandlerInOrder, NothingBegun, Settling, Dispatching, Rejecting
  <2>3. workOf' \in [Worker -> Item \cup {None}]
    BY <1>8, <2>1, <2>2 DEF Dispatch
  <2> QED
    BY <1>8, <2>3 DEF Dispatch
<1>9. CASE StartFails
  BY <1>9 DEF StartFails
<1>10. ASSUME NEW w \in Worker, Expire(w) PROVE TypeOK'
  BY <1>10 DEF Expire, Expirable
<1>11. ASSUME NEW w \in Worker, WorkerExits(w) PROVE TypeOK'
  BY <1>11 DEF WorkerExits
<1>12. ASSUME NEW i \in Item, Seed(i) PROVE TypeOK'
  BY <1>12 DEF Seed
<1>13. CASE StartSupervisor
  BY <1>13 DEF StartSupervisor
<1>14. CASE StopSupervisor
  BY <1>14 DEF StopSupervisor, Forget
<1>15. CASE CrashSupervisor
  <2>1. \A k \in DOMAIN todo : todo[k].item \in Item \cup {0}
    <3>1. DOMAIN todo = 1..Len(todo) /\ \A k \in 1..Len(todo) : todo[k] \in Statement
      BY LenProperties, ElementOfSeq
    <3> QED
      BY <3>1 DEF Statement
  <2> QED
    BY <1>15, <2>1 DEF CrashSupervisor, Forget
<1>16. CASE UNCHANGED vars
  BY <1>16 DEF vars
<1> QED
  BY <1>1, <1>2, <1>3, <1>4, <1>5, <1>6, <1>7, <1>8, <1>9, <1>10, <1>11, <1>12, <1>13, <1>14,
     <1>15, <1>16 DEF Next

-----------------------------------------------------------------------------
(* Tracked workers.                                                         *)

\* A handler that goes on and has begun is still about the same item.
LEMMA SameItem ==
  ASSUME TypeOK, HandlerInOrder, Begun, todo' = Tail(todo), Begun'
  PROVE  todo'[1].item = todo[1].item /\ todo[1].op # "start"
<1>1. todo # <<>> /\ todo' # <<>>
  BY DEF Begun
<1>2. Popped
  BY <1>1, TailPops
<1>3. Len(todo) > 1 /\ todo'[1] = todo[2]
  BY <1>1, <1>2 DEF Popped
<1>4. ~ NothingBegun(2)
  BY <1>2, <1>3 DEF NothingBegun, Begun, Popped
<1>5. Settling(todo[1]) \/ Dispatching(todo[1]) \/ Rejecting(todo[1])
  BY <1>1 DEF HandlerInOrder, Begun
<1>6. todo[1].op # "start"
  BY <1>4, <1>5 DEF Settling, Dispatching, Rejecting
<1>7. \E op, w, to : todo[2] = Stmt(op, todo[1].item, w, to)
  BY <1>4, <1>5 DEF Settling, Dispatching, Rejecting, Due
<1> QED
  BY <1>3, <1>6, <1>7 DEF Stmt

\* A new front of a handler begins with its first statement.
LEMMA FirstOfSettle ==
  ASSUME NEW w \in Worker, NEW to \in Terminal, workOf[w] \in Item,
         NEW q \in Seq(Statement), todo' = Settle(w, to) \o q
  PROVE  todo'[1] = Stmt("item", workOf[w], w, to)
<1>1. Settle(w, to) \in Seq(Statement) /\ Settle(w, to) # <<>> /\ Len(Settle(w, to)) = 3
  BY Handlers
<1>2. todo'[1] = Settle(w, to)[1]
  BY <1>1, ComeFirst
<1> QED
  BY <1>2 DEF Settle

LEMMA FirstOfDispatch ==
  ASSUME TypeOK, HandlerInOrder, Dispatch
  PROVE  LET i == todo[1].item IN
         /\ ~ Begun /\ i \in Item /\ item[i] = "pending"
         /\ IF i \in Dispatchable
            THEN \E w \in Worker : /\ workOf[w] = None /\ workOf' = [workOf EXCEPT ![w] = i]
                                   /\ todo'[1] = Stmt("item", i, w, "running")
            ELSE workOf' = workOf /\ todo'[1] = Stmt("item", i, None, "failed")
<1> DEFINE i == todo[1].item
<1>1. /\ todo # <<>> /\ Head(todo) = todo[1] /\ todo[1].op = "dispatch" /\ 1 \in DOMAIN todo
      /\ Tail(todo) \in Seq(Statement)
  BY TailOf DEF Dispatch, AtStatement, TypeOK
<1>2. item[i] = "pending" /\ i \in Item
  BY <1>1 DEF HandlerInOrder, NothingBegun, Settling, Dispatching, Rejecting
<1>3. CASE i \in Dispatchable
  <2> DEFINE w == CHOOSE x \in Worker : workOf[x] = None
  <2>1. /\ \E x \in Worker : workOf[x] = None
        /\ workOf' = [workOf EXCEPT ![w] = i]
        /\ todo' = DispatchTo(i, w) \o Tail(todo)
    BY <1>1, <1>3 DEF Dispatch
  <2>2. w \in Worker /\ workOf[w] = None
    BY <2>1
  <2> HIDE DEF w, i
  <2>3. /\ DispatchTo(i, w) \in Seq(Statement) /\ DispatchTo(i, w) # <<>>
        /\ Len(DispatchTo(i, w)) = 4
    BY <1>2, <2>2, Handlers
  <2>4. todo'[1] = DispatchTo(i, w)[1]
    BY <1>1, <2>1, <2>3, ComeFirst
  <2>5. todo'[1] = Stmt("item", i, w, "running")
    BY <2>4 DEF DispatchTo
  <2> QED
    BY <1>1, <1>2, <1>3, <2>1, <2>2, <2>5 DEF Begun, i
<1>4. CASE i \notin Dispatchable
  <2>1. todo' = Reject(i) \o Tail(todo) /\ workOf' = workOf
    BY <1>1, <1>4 DEF Dispatch
  <2>2. Reject(i) \in Seq(Statement) /\ Reject(i) # <<>> /\ Len(Reject(i)) = 2
    BY <1>2, Handlers
  <2> HIDE DEF i
  <2>3. todo'[1] = Reject(i)[1]
    BY <1>1, <2>1, <2>2, ComeFirst
  <2>4. todo'[1] = Stmt("item", i, None, "failed")
    BY <2>3 DEF Reject
  <2> QED
    BY <1>1, <1>2, <1>4, <2>1, <2>4 DEF Begun, i
<1> QED
  BY <1>3, <1>4

LEMMA TrackedKeeps ==
  ASSUME SIInv, [Next]_vars
  PROVE  TrackedRun'
<1> USE SupervisorAssumption DEF SIInv
<1>0. TypeOK /\ todo \in Seq(Statement)
  BY DEF TypeOK
<1>1. ASSUME UNCHANGED <<workOf, tracked>>, faulty \subseteq faulty',
             \A w \in tracked : workOf[w] \notin faulty => item'[workOf[w]] = item[workOf[w]],
             Begun' => \/ Begun /\ todo'[1].item = todo[1].item
                       \/ \A w \in tracked : workOf[w] \notin faulty => todo'[1].item # workOf[w]
      PROVE  TrackedRun'
  BY <1>1 DEF TrackedRun
<1>2. CASE RunStatement
  <2>1. todo # <<>> /\ Begun /\ Head(todo) = todo[1] /\ todo' = Tail(todo)
    BY <1>0, <1>2, First DEF RunStatement, AtStatement
  <2>2. \A i \in Item : i # todo[1].item => item'[i] = item[i]
    BY <1>2, <2>1 DEF RunStatement, Apply, TypeOK
  <2> QED
    BY <1>1, <1>2, <2>1, <2>2, SameItem DEF RunStatement, os, hist, TrackedRun
<1>3. CASE StatementFails
  <2>1. todo # <<>> /\ Begun /\ Head(todo) = todo[1] /\ todo' = Tail(todo)
    BY <1>0, <1>3, First DEF StatementFails, AtStatement
  <2> QED
    BY <1>1, <1>3, <2>1, SameItem DEF StatementFails, os, db
<1>4. CASE StartWorker
  <2> DEFINE w == todo[1].worker
  <2>1. /\ todo # <<>> /\ Begun /\ Head(todo) = todo[1] /\ todo' = Tail(todo)
        /\ todo[1].op = "start" /\ ~ Begun'
    BY <1>0, <1>4, First, SameItem DEF StartWorker, AtStatement
  <2>2. w \in Worker /\ workOf[w] = todo[1].item /\ workOf[w] \in Dispatchable
    BY <2>1 DEF HandlerInOrder, Begun, Settling, Dispatching, Rejecting
  <2>3. workOf[w] \notin faulty => item[workOf[w]] = "running"
    BY <2>1, <2>2 DEF PathsTold, HowFar
  <2>4. tracked' = tracked \cup {w} /\ UNCHANGED <<item, workOf, faulty>>
    BY <1>4, <2>1 DEF StartWorker, Track, db, os, hist
  <2> HIDE DEF w
  <2> QED
    BY <2>1, <2>2, <2>3, <2>4 DEF TrackedRun
<1>5. ASSUME NEW w \in tracked, tracked' = tracked \ {w}, UNCHANGED <<item, workOf, faulty>>,
             todo'[1].item = workOf[w]
      PROVE  TrackedRun'
  BY <1>5 DEF TrackedRun
<1>6. CASE HandleResult
  <2>1. PICK r \in results : /\ tracked' = tracked \ {r.worker}
                            /\ todo' = IF Counts(r.worker) THEN Settle(r.worker, r.to) ELSE <<>>
    BY <1>6 DEF HandleResult
  <2>2. UNCHANGED <<item, workOf, faulty>>
    BY <1>6 DEF HandleResult, db, os, hist
  <2>3. CASE r.worker \in tracked
    <3>1. todo'[1].item = workOf[r.worker]
      BY <2>1, <2>3 DEF Counts, Settle, Stmt
    <3> QED
      BY <1>5, <2>1, <2>2, <2>3, <3>1
  <2>4. CASE r.worker \notin tracked
    <3>1. tracked' = tracked /\ ~ Begun'
      BY <2>1, <2>4 DEF Counts, Begun
    <3> QED
      BY <1>1, <2>2, <3>1
  <2> QED
    BY <2>3, <2>4
<1>7. CASE Tick
  <2>1. ~ Begun'
    BY <1>7 DEF Tick, Begun, Stmt
  <2> QED
    BY <1>1, <1>7, <2>1 DEF Tick, db, os, hist
<1>8. CASE Query
  <2>1. ~ Begun'
    <3>1. todo' # <<>> => 1 \in DOMAIN todo'
      BY <1>0, <1>8, QueryFinds, TailOf
    <3> QED
      BY <1>0, <1>8, <3>1, QueryFinds DEF Begun
  <2> QED
    BY <1>1, <1>8, <2>1 DEF Query, db, os, hist
<1>9. CASE QueryFails
  BY <1>1, <1>9 DEF QueryFails, Begun, db, os
<1>10. CASE Dispatch
  <2>1. UNCHANGED <<item, tracked, faulty>>
    BY <1>10 DEF Dispatch, db, hist
  <2>2. item[todo[1].item] = "pending" /\ todo'[1].item = todo[1].item
    <3>1. \E w, to : todo'[1] = Stmt("item", todo[1].item, w, to)
      BY <1>0, <1>10, FirstOfDispatch
    <3> QED
      BY <1>0, <1>10, <3>1, FirstOfDispatch DEF Stmt
  <2>3. \A w \in tracked : workOf[w] # None
    BY DEF TrackedRun
  <2>4. \A w \in tracked : workOf'[w] = workOf[w]
    BY <1>0, <1>10, <2>3, FirstOfDispatch DEF TypeOK
  <2> QED
    BY <2>1, <2>2, <2>4 DEF TrackedRun
<1>11. CASE StartFails
  <2>1. /\ todo # <<>> /\ Begun /\ Head(todo) = todo[1] /\ Tail(todo) \in Seq(Statement)
        /\ todo[1].op = "start"
        /\ todo' = Settle(todo[1].worker, "failed") \o Tail(todo)
        /\ UNCHANGED <<item, workOf, tracked, faulty>>
    BY <1>0, <1>11, First, TailOf DEF StartFails, AtStatement, db, os, hist
  <2>2. todo[1].worker \in Worker /\ workOf[todo[1].worker] = todo[1].item /\ todo[1].item \in Item
    BY <1>0, <2>1, First
  <2>3. todo'[1] = Stmt("item", todo[1].item, todo[1].worker, "failed")
    BY <2>1, <2>2, FirstOfSettle DEF Terminal
  <2>4. todo'[1].item = todo[1].item
    BY <2>3 DEF Stmt
  <2> QED
    BY <1>1, <2>1, <2>4
<1>12. ASSUME NEW w \in Worker, Expire(w) PROVE TrackedRun'
  <2>1. /\ w \in tracked /\ tracked' = tracked \ {w} /\ UNCHANGED <<item, workOf, faulty>>
        /\ todo' = Settle(w, "failed") \o todo
    BY <1>12 DEF Expire, Expirable, db, hist
  <2>2. todo'[1] = Stmt("item", workOf[w], w, "failed")
    BY <1>0, <2>1, FirstOfSettle DEF TrackedRun, Terminal
  <2>3. todo'[1].item = workOf[w]
    BY <2>2 DEF Stmt
  <2> QED
    BY <1>5, <2>1, <2>3
<1>13. ASSUME NEW w \in Worker, WorkerExits(w) PROVE TrackedRun'
  BY <1>1, <1>13 DEF WorkerExits, db, hist, Begun
<1>14. ASSUME NEW i \in Item, Seed(i) PROVE TrackedRun'
  BY <1>1, <1>14 DEF Seed, os, mem, hist, Begun, TrackedRun, TypeOK
<1>15. CASE StartSupervisor
  BY <1>1, <1>15 DEF StartSupervisor, db, os, mem, Begun
<1>16. CASE StopSupervisor
  BY <1>16 DEF StopSupervisor, Forget, TrackedRun
<1>17. CASE CrashSupervisor
  BY <1>17 DEF CrashSupervisor, Forget, TrackedRun
<1>18. CASE UNCHANGED vars
  BY <1>1, <1>18 DEF vars, db, os, mem, hist, Begun
<1> QED
  BY <1>2, <1>3, <1>4, <1>6, <1>7, <1>8, <1>9, <1>10, <1>11, <1>12, <1>13, <1>14, <1>15, <1>16,
     <1>17, <1>18 DEF Next

-----------------------------------------------------------------------------
(* The transition log.                                                      *)

\* With nothing else begun, the handler is through with its item.
LEMMA LastOfItem ==
  ASSUME Popped, NothingBegun(2)
  PROVE  ~ Begun'
<1> SUFFICES ASSUME todo' # <<>> PROVE todo'[1].op \in {"query", "dispatch"}
  BY DEF Begun
<1>1. Len(todo) \in Nat /\ Len(todo) > 1 /\ todo'[1] = todo[2] /\ DOMAIN todo = 1..Len(todo)
  BY DEF Popped
<1>2. 2 \in DOMAIN todo
  BY <1>1
<1> QED
  BY <1>1, <1>2 DEF NothingBegun

\* What a statement of a handler does to the log of its item.
LEMMA StatementTells ==
  ASSUME SIInv, RunStatement, NEW i, i = todo[1].item, i \notin faulty
  PROVE  /\ item'[i] \in {"running", "completed"} => i \in Dispatchable
         /\ IF Begun' THEN HowFar(i, todo[1])' ELSE log'[i] = Path(i)'
<1> DEFINE h == todo[1]
           Goal == /\ item'[i] \in {"running", "completed"} => i \in Dispatchable
                   /\ IF Begun' THEN HowFar(i, todo[1])' ELSE log'[i] = Path(i)'
<1> USE SupervisorAssumption DEF SIInv
<1>0. TypeOK /\ todo # <<>> /\ Head(todo) = h /\ Begun /\ Popped /\ i \in Item
      /\ h.op \in {"item", "log", "open", "close"}
  BY First, TailPops DEF RunStatement, AtStatement
<1>1. Apply(h)
  BY <1>0 DEF RunStatement
<1>2. /\ item[i] \in {"running", "completed"} => i \in Dispatchable
      /\ HowFar(i, h)
  BY <1>0 DEF PathsTold
<1>3. /\ h.op = "item" => item'[i] = h.to /\ log'[i] = log[i]
      /\ h.op = "log" => item'[i] = item[i] /\ log'[i] = Append(log[i], h.to)
      /\ h.op \in {"open", "close"} => item'[i] = item[i] /\ log'[i] = log[i]
  BY <1>0, <1>1 DEF Apply, TypeOK
<1>4. Settling(h) \/ Dispatching(h) \/ Rejecting(h)
  BY <1>0, First
<1>5. NothingBegun(2) => ~ Begun'
  BY <1>0, LastOfItem
<1>6. \A k \in {1, 2, 3} : Len(todo) >= k + 1 => todo'[k] = todo[k + 1]
  BY <1>0 DEF Popped
<1> HIDE DEF h
<1>7. CASE Settling(h)
  <2>0. h.worker # None /\ i \in Dispatchable
    BY <1>7 DEF Settling, h
  <2>1. CASE h.op = "item"
    <3>1. /\ h.to \in Terminal
          /\ todo'[1] = Stmt("close", i, h.worker, "none") /\ todo'[2] = Stmt("log", i, h.worker, h.to)
      BY <1>6, <1>7, <2>1 DEF Settling, Due, h
    <3>2. todo'[1].op = "close" /\ todo'[2].to = h.to
      BY <3>1 DEF Stmt
    <3>3. item[i] = "running" /\ log[i] = Path(i)
      BY <1>2, <2>0, <2>1, <3>1 DEF HowFar, Terminal
    <3>4. log'[i] = <<"pending", "running">> /\ item'[i] = h.to
      BY <1>3, <2>1, <3>3 DEF Path
    <3>5. HowFar(i, todo[1])'
      BY <3>2, <3>4 DEF HowFar
    <3>6. Begun'
      BY <1>0, <1>7, <2>1, <3>2, EmptySeq DEF Begun, Popped, Settling, Due, h
    <3> QED
      BY <2>0, <3>5, <3>6
  <2>2. CASE h.op = "close"
    <3>1. PICK to \in Terminal : Due(2, "log", i, h.worker, to)
      BY <1>7, <2>2 DEF Settling, h
    <3>2. todo[2] = Stmt("log", i, h.worker, to) /\ todo'[1] = todo[2]
      BY <1>6, <3>1 DEF Due
    <3>3. todo'[1].op = "log" /\ todo'[1].to = to /\ todo'[1].worker = h.worker /\ todo[2].to = to
      BY <3>2 DEF Stmt
    <3>4. item[i] = to /\ log[i] = <<"pending", "running">>
      BY <1>2, <2>2, <3>3 DEF HowFar, h
    <3>5. HowFar(i, todo[1])'
      BY <1>3, <2>0, <2>2, <3>3, <3>4 DEF HowFar, Terminal
    <3>6. Begun'
      BY <1>0, <3>1, <3>3, EmptySeq DEF Begun, Popped, Due
    <3> QED
      BY <2>0, <3>5, <3>6
  <2>3. CASE h.op = "log"
    <3>1. h.to \in Terminal /\ ~ Begun'
      BY <1>5, <1>7, <2>3 DEF Settling, h
    <3>2. item'[i] = h.to /\ log[i] = <<"pending", "running">>
      BY <1>2, <1>3, <2>0, <2>3, <3>1 DEF HowFar, Terminal
    <3>3. log'[i] = <<"pending", "running", h.to>>
      BY <1>3, <2>3, <3>2
    <3>4. Path(i)' = <<"pending", "running", h.to>>
      BY <2>0, <3>1, <3>2 DEF Path, Terminal
    <3> QED
      BY <2>0, <3>1, <3>3, <3>4
  <2> QED
    BY <1>7, <2>1, <2>2, <2>3 DEF Settling, h
<1>8. CASE Dispatching(h)
  <2>0. h.worker # None /\ i \in Dispatchable
    BY <1>8 DEF Dispatching, h
  <2>1. CASE h.op = "item"
    <3>1. h.to = "running" /\ todo'[1] = Stmt("log", i, h.worker, "running") /\ Len(todo) > 1
      BY <1>6, <1>8, <2>1 DEF Dispatching, Due, h
    <3>2. todo'[1].op = "log" /\ todo'[1].to = "running"
      BY <3>1 DEF Stmt
    <3>3. item[i] = "pending" /\ log[i] = Path(i)
      BY <1>2, <2>1, <3>1 DEF HowFar
    <3>4. item'[i] = "running" /\ log'[i] = <<"pending">>
      <4>1. item'[i] = "running" /\ log'[i] = log[i]
        BY <1>3, <2>1, <3>1
      <4>2. Path(i) = <<"pending">>
        BY <3>3 DEF Path
      <4> QED
        BY <3>3, <4>1, <4>2
    <3>5. HowFar(i, todo[1])'
      <4>1. todo'[1].op # "item" /\ todo'[1].op # "close"
        BY <3>2
      <4> QED
        BY <3>2, <3>4, <4>1 DEF HowFar
    <3>6. Begun'
      BY <1>0, <3>1, <3>2, EmptySeq DEF Begun, Popped
    <3> QED
      BY <2>0, <3>5, <3>6
  <2>2. CASE h.op = "log"
    <3>1. h.to = "running" /\ todo'[1] = Stmt("open", i, h.worker, "none") /\ Len(todo) > 1
      BY <1>6, <1>8, <2>2 DEF Dispatching, Due, h
    <3>2. todo'[1].op = "open"
      BY <3>1 DEF Stmt
    <3>3. item'[i] = "running" /\ log'[i] = <<"pending", "running">>
      <4>1. item[i] = "running" /\ log[i] = <<"pending">>
        BY <1>2, <2>2, <3>1 DEF HowFar
      <4> QED
        BY <1>3, <2>2, <3>1, <4>1
    <3>4. HowFar(i, todo[1])'
      BY <3>2, <3>3 DEF HowFar, Path
    <3>5. Begun'
      BY <1>0, <3>1, <3>2, EmptySeq DEF Begun, Popped
    <3> QED
      BY <2>0, <3>4, <3>5
  <2>3. CASE h.op = "open"
    <3>1. todo'[1] = Stmt("start", i, h.worker, "none") /\ Len(todo) > 1
      BY <1>6, <1>8, <2>3 DEF Dispatching, Due, h
    <3>2. todo'[1].op = "start"
      BY <3>1 DEF Stmt
    <3>3. item'[i] = "running" /\ log'[i] = Path(i) /\ item[i] = "running"
      BY <1>2, <1>3, <2>3 DEF HowFar
    <3>4. HowFar(i, todo[1])'
      BY <3>2, <3>3 DEF HowFar, Path
    <3>5. Begun'
      BY <1>0, <3>1, <3>2, EmptySeq DEF Begun, Popped
    <3> QED
      BY <2>0, <3>4, <3>5
  <2> QED
    BY <1>0, <1>8, <2>1, <2>2, <2>3 DEF Dispatching, h
<1>9. CASE Rejecting(h)
  <2>0. h.worker = None /\ i \notin Dispatchable /\ h.to = "failed"
    BY <1>9 DEF Rejecting, h
  <2>1. CASE h.op = "item"
    <3>1. todo'[1] = Stmt("log", i, None, "failed") /\ Len(todo) > 1
      BY <1>6, <1>9, <2>1 DEF Rejecting, Due, h
    <3>2. todo'[1].op = "log" /\ todo'[1].to = "failed" /\ todo'[1].worker = None
      BY <3>1 DEF Stmt
    <3>3. item[i] = "pending" /\ log[i] = Path(i)
      BY <1>2, <2>0, <2>1 DEF HowFar
    <3>4. item'[i] = "failed" /\ log'[i] = <<"pending">>
      BY <1>3, <2>0, <2>1, <3>3 DEF Path
    <3>5. HowFar(i, todo[1])'
      BY <3>2, <3>4 DEF HowFar
    <3>6. Begun'
      BY <1>0, <3>1, <3>2, EmptySeq DEF Begun, Popped
    <3> QED
      BY <3>4, <3>5, <3>6
  <2>2. CASE h.op = "log"
    <3>1. ~ Begun'
      BY <1>5, <1>9, <2>2 DEF Rejecting, h
    <3>2. item'[i] = "failed" /\ log[i] = <<"pending">>
      BY <1>2, <1>3, <2>0, <2>2 DEF HowFar
    <3>3. log'[i] = <<"pending", "failed">>
      BY <1>3, <2>0, <2>2, <3>2
    <3>4. Path(i)' = <<"pending", "failed">>
      BY <2>0, <3>2 DEF Path
    <3> QED
      BY <3>1, <3>2, <3>3, <3>4
  <2> QED
    BY <1>9, <2>1, <2>2 DEF Rejecting, h
<1> QED
  BY <1>4, <1>7, <1>8, <1>9

LEMMA PathsKeep ==
  ASSUME SIInv, [Next]_vars
  PROVE  PathsTold'
<1> USE SupervisorAssumption DEF SIInv
<1>0. TypeOK /\ todo \in Seq(Statement)
  BY DEF TypeOK
<1>1. ASSUME UNCHANGED <<item, log>>, faulty \subseteq faulty',
             \A i \in Item \ faulty' : Begun /\ todo[1].item = i =>
               Begun' /\ todo'[1].item = i /\ (HowFar(i, todo[1]) => HowFar(i, todo[1])'),
             \A i \in Item \ faulty' : Begun' /\ todo'[1].item = i /\ ~ (Begun /\ todo[1].item = i) =>
               (log[i] = Path(i) => HowFar(i, todo[1])')
      PROVE  PathsTold'
  <2>1. \A i \in Item : Path(i)' = Path(i)
    BY <1>1 DEF Path
  <2> QED
    BY <1>1, <2>1 DEF PathsTold
<1>2. CASE RunStatement
  <2>1. todo # <<>> /\ Begun /\ Head(todo) = todo[1] /\ todo' = Tail(todo) /\ todo[1].item \in Item
    BY <1>0, <1>2, First DEF RunStatement, AtStatement
  <2>2. UNCHANGED faulty /\ \A i \in Item : i # todo[1].item => item'[i] = item[i] /\ log'[i] = log[i]
    BY <1>2, <2>1 DEF RunStatement, Apply, TypeOK, hist
  <2>3. Begun' => todo'[1].item = todo[1].item
    BY <2>1, SameItem
  <2>4. ASSUME NEW i \in Item \ faulty, i # todo[1].item
        PROVE  /\ item'[i] \in {"running", "completed"} => i \in Dispatchable
               /\ IF Begun' /\ todo'[1].item = i THEN HowFar(i, todo[1])' ELSE log'[i] = Path(i)'
    BY <2>1, <2>2, <2>3, <2>4 DEF PathsTold, Path
  <2>5. ASSUME NEW i \in Item \ faulty, i = todo[1].item
        PROVE  /\ item'[i] \in {"running", "completed"} => i \in Dispatchable
               /\ IF Begun' /\ todo'[1].item = i THEN HowFar(i, todo[1])' ELSE log'[i] = Path(i)'
    BY <1>2, <2>3, <2>5, StatementTells
  <2> QED
    BY <2>2, <2>4, <2>5 DEF PathsTold
<1>3. CASE StatementFails
  <2>1. /\ todo # <<>> /\ Begun /\ Head(todo) = todo[1] /\ todo' = Tail(todo)
        /\ faulty' = faulty \cup {todo[1].item} /\ UNCHANGED <<item, log>>
    BY <1>0, <1>3, First DEF StatementFails, AtStatement, db
  <2>2. Begun' => todo'[1].item = todo[1].item
    BY <2>1, SameItem
  <2> QED
    BY <1>1, <2>1, <2>2
<1>4. CASE StartWorker
  <2>1. /\ todo # <<>> /\ Begun /\ Head(todo) = todo[1] /\ todo' = Tail(todo)
        /\ todo[1].op = "start" /\ ~ Begun' /\ UNCHANGED <<item, log, faulty>>
    BY <1>0, <1>4, First, SameItem DEF StartWorker, AtStatement, db, hist
  <2>2. \A i \in Item : Path(i)' = Path(i)
    BY <2>1 DEF Path
  <2>3. \A i \in Item \ faulty : todo[1].item = i => log[i] = Path(i)
    BY <2>1 DEF PathsTold, HowFar
  <2> QED
    BY <2>1, <2>2, <2>3 DEF PathsTold
<1>5. ASSUME NEW w \in tracked, NEW to \in Terminal, UNCHANGED <<item, log, faulty>>, ~ Begun,
             todo'[1] = Stmt("item", workOf[w], w, to)
      PROVE  PathsTold'
  <2>1. w \in Worker /\ w # None
    BY DEF TypeOK
  <2>2. \A i \in Item : Path(i)' = Path(i)
    BY <1>5 DEF Path
  <2>3. ASSUME NEW i \in Item \ faulty, i = workOf[w], log[i] = Path(i) PROVE HowFar(i, todo[1])'
    <3>1. item'[i] = "running" /\ log'[i] = Path(i)'
      BY <1>5, <2>2, <2>3 DEF TrackedRun
    <3>2. todo'[1].op = "item" /\ todo'[1].to # "running" /\ todo'[1].worker # None
      BY <1>5, <2>1 DEF Stmt, Terminal
    <3> QED
      BY <3>1, <3>2 DEF HowFar
  <2>4. todo'[1].item = workOf[w]
    BY <1>5 DEF Stmt
  <2> QED
    BY <1>5, <2>2, <2>3, <2>4 DEF PathsTold
<1>6. CASE HandleResult
  <2>1. PICK r \in results : todo' = IF Counts(r.worker) THEN Settle(r.worker, r.to) ELSE <<>>
    BY <1>6 DEF HandleResult
  <2>2. UNCHANGED <<item, log, faulty>> /\ ~ Begun
    BY <1>6 DEF HandleResult, Idle, Begun, db, hist
  <2>3. CASE r.worker \in tracked
    <3>1. todo'[1] = Stmt("item", workOf[r.worker], r.worker, r.to) /\ r.to \in Terminal
      BY <2>1, <2>3 DEF Counts, Settle, TypeOK
    <3> QED
      BY <1>5, <2>2, <2>3, <3>1
  <2>4. CASE r.worker \notin tracked
    <3>1. ~ Begun'
      BY <2>1, <2>4 DEF Counts, Begun
    <3> QED
      BY <1>1, <2>2, <3>1
  <2> QED
    BY <2>3, <2>4
<1>7. CASE Tick
  <2>1. ~ Begun' /\ ~ Begun
    BY <1>7 DEF Tick, Begun, Stmt, Idle
  <2> QED
    BY <1>1, <1>7, <2>1 DEF Tick, db, hist
<1>8. CASE Query
  <2>1. ~ Begun'
    <3>1. todo' # <<>> => 1 \in DOMAIN todo'
      BY <1>0, <1>8, QueryFinds, TailOf
    <3> QED
      BY <1>0, <1>8, <3>1, QueryFinds DEF Begun
  <2>2. ~ Begun
    BY <1>0, <1>8, TailOf DEF Query, AtStatement, Begun
  <2> QED
    BY <1>1, <1>8, <2>1, <2>2 DEF Query, db, hist
<1>9. CASE QueryFails
  <2>1. ~ Begun
    BY <1>0, <1>9, TailOf DEF QueryFails, AtStatement, Begun
  <2> QED
    BY <1>1, <1>9, <2>1 DEF QueryFails, Begun, db
<1>10. CASE Dispatch
  <2> DEFINE i == todo[1].item
  <2>1. ~ Begun /\ UNCHANGED <<item, log, faulty>> /\ item[i] = "pending"
    BY <1>0, <1>10, FirstOfDispatch DEF Dispatch, db, hist
  <2>2. PICK w \in Worker \cup {None} :
          IF i \in Dispatchable THEN w # None /\ todo'[1] = Stmt("item", i, w, "running")
                                ELSE w = None /\ todo'[1] = Stmt("item", i, w, "failed")
    BY <1>0, <1>10, FirstOfDispatch
  <2>3. /\ todo'[1].op = "item" /\ todo'[1].item = i
        /\ todo'[1].to = "running" \/ todo'[1].worker = None
    BY <2>2 DEF Stmt
  <2>4. ASSUME NEW j, j = i, log[j] = Path(j) PROVE HowFar(j, todo[1])'
    <3>1. item'[j] = "pending" /\ log'[j] = Path(j)'
      BY <2>1, <2>4 DEF Path
    <3> QED
      BY <2>3, <3>1 DEF HowFar
  <2> QED
    BY <1>1, <2>1, <2>3, <2>4
<1>11. CASE StartFails
  <2>1. /\ todo # <<>> /\ Begun /\ Head(todo) = todo[1] /\ Tail(todo) \in Seq(Statement)
        /\ todo[1].op = "start"
        /\ todo' = Settle(todo[1].worker, "failed") \o Tail(todo)
        /\ UNCHANGED <<item, log, workOf, tracked, faulty>>
    BY <1>0, <1>11, First, TailOf DEF StartFails, AtStatement, db, os, hist
  <2>2. todo[1].worker \in Worker /\ workOf[todo[1].worker] = todo[1].item /\ todo[1].item \in Item
    BY <1>0, <2>1, First
  <2>3. todo'[1] = Stmt("item", todo[1].item, todo[1].worker, "failed")
    BY <2>1, <2>2, FirstOfSettle DEF Terminal
  <2>4. /\ todo'[1].op = "item" /\ todo'[1].item = todo[1].item /\ todo'[1].to = "failed"
        /\ todo'[1].worker = todo[1].worker
    BY <2>3 DEF Stmt
  <2>5. todo' # <<>>
    <3>1. /\ Settle(todo[1].worker, "failed") \in Seq(Statement)
          /\ Settle(todo[1].worker, "failed") # <<>>
      BY <2>2, Handlers DEF Terminal
    <3> QED
      BY <2>1, <3>1, ComeFirst
  <2>6. Begun'
    BY <2>4, <2>5 DEF Begun
  <2>7. ASSUME NEW i \in Item, HowFar(i, todo[1]) PROVE HowFar(i, todo[1])'
    <3>1. item'[i] = "running" /\ log'[i] = Path(i)'
      BY <2>1, <2>7 DEF HowFar, Path
    <3> QED
      BY <2>2, <2>4, <3>1 DEF HowFar
  <2> QED
    BY <1>1, <2>1, <2>4, <2>6, <2>7
<1>12. ASSUME NEW w \in Worker, Expire(w) PROVE PathsTold'
  <2>1. /\ w \in tracked /\ UNCHANGED <<item, log, faulty>>
        /\ todo' = Settle(w, "failed") \o todo /\ ~ Begun
    BY <1>0, <1>12, TailOf DEF Expire, Expirable, db, hist, AtStatement, Begun
  <2>2. todo'[1] = Stmt("item", workOf[w], w, "failed")
    BY <1>0, <2>1, FirstOfSettle DEF TrackedRun, Terminal
  <2> QED
    BY <1>5, <2>1, <2>2 DEF Terminal
<1>13. ASSUME UNCHANGED <<item, log, todo, faulty>> PROVE PathsTold'
  <2>1. Begun' = Begun /\ \A i \in Item : HowFar(i, todo[1]) => HowFar(i, todo[1])'
    BY <1>13 DEF Begun, HowFar, Path
  <2> QED
    BY <1>1, <1>13, <2>1
<1>14. ASSUME NEW w \in Worker, WorkerExits(w) PROVE PathsTold'
  BY <1>13, <1>14 DEF WorkerExits, db, hist
<1>15. ASSUME NEW i \in Item, Seed(i) PROVE PathsTold'
  <2>1. /\ item[i] = "absent" /\ item'[i] = "pending" /\ log'[i] = Append(log[i], "pending")
        /\ UNCHANGED <<todo, faulty>>
        /\ \A j \in Item : j # i => item'[j] = item[j] /\ log'[j] = log[j]
    BY <1>15 DEF Seed, mem, hist, TypeOK
  <2>2. i \in faulty \/ ~ (Begun /\ todo[1].item = i)
    <3>1. Begun /\ HowFar(i, todo[1]) => item[i] \in {"pending", "running"} \cup Terminal
      <4>1. Begun /\ todo[1].op = "close" => todo[2].to \in Terminal
        <5>1. SUFFICES ASSUME Begun, todo[1].op = "close" PROVE todo[2].to \in Terminal
          OBVIOUS
        <5>2. \E to \in Terminal : todo[2] = Stmt("log", todo[1].item, todo[1].worker, to)
          BY <5>1 DEF HandlerInOrder, Begun, Settling, Dispatching, Rejecting, Due
        <5> QED
          BY <5>2 DEF Stmt
      <4>2. Begun /\ todo[1].op \in {"item", "log"} => todo[1].to \in {"running"} \cup Terminal
        BY <1>0, First, TailOf DEF Begun
      <4> SUFFICES ASSUME Begun, HowFar(i, todo[1])
                   PROVE  item[i] \in {"pending", "running"} \cup Terminal
        OBVIOUS
      <4>0. todo[1].op \in {"item", "log", "open", "close", "start"}
        BY <1>0, First, TailOf DEF Begun, Settling, Dispatching, Rejecting
      <4>3. CASE todo[1].op = "close"
        BY <4>1, <4>3 DEF HowFar
      <4>4. CASE todo[1].op = "item"
        BY <4>4 DEF HowFar
      <4>5. CASE todo[1].op = "log"
        BY <4>2, <4>5 DEF HowFar, Terminal
      <4>6. CASE todo[1].op \notin {"close", "item", "log"}
        BY <4>0, <4>6 DEF HowFar
      <4> QED
        BY <4>3, <4>4, <4>5, <4>6
    <3>2. Begun /\ todo[1].item = i /\ i \notin faulty =>
            item[i] \in {"pending", "running"} \cup Terminal
      <4> SUFFICES ASSUME Begun, todo[1].item = i, i \notin faulty
                   PROVE  item[i] \in {"pending", "running"} \cup Terminal
        OBVIOUS
      <4>1. HowFar(i, todo[1])
        BY DEF PathsTold
      <4> QED
        BY <3>1, <4>1
    <3> QED
      BY <2>1, <3>2 DEF Terminal
  <2>3. CASE i \notin faulty
    <3>1. log'[i] = <<"pending">>
      <4>1. log[i] = Path(i)
        BY <2>2, <2>3 DEF PathsTold
      <4>2. Path(i) = <<>>
        BY <2>1 DEF Path
      <4> QED
        BY <2>1, <4>1, <4>2
    <3>2. \A j \in Item : j # i => Path(j)' = Path(j) /\ (HowFar(j, todo[1]) => HowFar(j, todo[1])')
      BY <2>1 DEF Path, HowFar
    <3>3. Begun' = Begun /\ Path(i)' = <<"pending">>
      BY <2>1 DEF Begun, Path
    <3> QED
      BY <2>1, <2>2, <2>3, <3>1, <3>2, <3>3 DEF PathsTold
  <2>4. CASE i \in faulty
    <3>1. \A j \in Item : j # i => Path(j)' = Path(j) /\ (HowFar(j, todo[1]) => HowFar(j, todo[1])')
      BY <2>1 DEF Path, HowFar
    <3>2. Begun' = Begun
      BY <2>1 DEF Begun
    <3> QED
      BY <2>1, <2>4, <3>1, <3>2 DEF PathsTold
  <2> QED
    BY <2>3, <2>4
<1>16. CASE StartSupervisor
  BY <1>13, <1>16 DEF StartSupervisor, db, mem
<1>17. CASE StopSupervisor
  <2>1. ~ Begun /\ ~ Begun' /\ UNCHANGED <<item, log, faulty>>
    BY <1>17 DEF StopSupervisor, Idle, Forget, Begun, db, hist
  <2> QED
    BY <1>1, <2>1
<1>18. CASE CrashSupervisor
  <2>1. /\ ~ Begun' /\ UNCHANGED <<item, log>>
        /\ faulty' = faulty \cup ({todo[k].item : k \in DOMAIN todo} \ {0})
    BY <1>18 DEF CrashSupervisor, Forget, Begun, db
  <2>2. Begun => 1 \in DOMAIN todo /\ todo[1].item \in Item
    BY <1>0, First, TailOf DEF Begun
  <2>3. Begun => todo[1].item \in faulty'
    BY <2>1, <2>2 DEF Item
  <2> QED
    BY <1>1, <2>1, <2>3
<1>19. CASE UNCHANGED vars
  BY <1>13, <1>19 DEF vars, db, mem, hist
<1> QED
  BY <1>2, <1>3, <1>4, <1>6, <1>7, <1>8, <1>9, <1>10, <1>11, <1>12, <1>14, <1>15, <1>16,
     <1>17, <1>18, <1>19 DEF Next

\* The supervisor's invariant: for any number of items, workers, runs and failing
\* statements, handlers run in order, each about one item that no tracked worker has.
THEOREM SupervisorInductive == Spec => []SIInv
<1>1. Init => SIInv
  <2> SUFFICES ASSUME Init PROVE SIInv
    OBVIOUS
  <2>1. TypeOK
    BY SupervisorAssumption, EmptySeq DEF Init, TypeOK
  <2>2. HandlerInOrder /\ TrackedRun
    BY DEF Init, HandlerInOrder, TrackedRun
  <2>3. PathsTold
    BY DEF Init, PathsTold, Begun, Path
  <2> QED
    BY <2>1, <2>2, <2>3 DEF SIInv
<1>2. SIInv /\ [Next]_vars => SIInv'
  <2> SUFFICES ASSUME SIInv, [Next]_vars PROVE SIInv'
    OBVIOUS
  <2>1. HandlerInOrder' /\ TypeOK'
    BY HandlerKeeps, TypesKeep DEF SIInv
  <2> QED
    BY <2>1, TrackedKeeps, PathsKeep DEF SIInv
<1> QED
  BY <1>1, <1>2, PTL DEF Spec

\* The transition log (sprint.go's work_item_state_transitions) tells how each item
\* got to its state, whenever the loop is between two events, unless a statement
\* about the item was lost.
THEOREM LogTold == Spec => []LogTellsPath
<1>1. SIInv => LogTellsPath
  BY DEF SIInv, PathsTold, LogTellsPath, Begun
<1> QED
  BY <1>1, SupervisorInductive, PTL

-----------------------------------------------------------------------------
(* Settled for good.                                                        *)

\* A query with one worker in flight finds nothing, and otherwise at most one item.
LEMMA QueryFindsOne ==
  ASSUME SIInv, Query, MaxInFlight <= 1, \A w, u \in tracked : w = u
  PROVE  Len(todo') <= 1 /\ (tracked # {} => todo' = <<>>)
<1> DEFINE S == Oldest(Room)
<1>1. TypeOK /\ todo' \in Seq(Statement)
  BY QueryFinds DEF SIInv
<1>2. Len(todo') = Cardinality(S) /\ Cardinality(S) \in Nat /\ IsFiniteSet(Pending)
  <2>1. Items \in Nat /\ S \subseteq 1..Items /\ Pending \subseteq 1..Items
    BY SupervisorAssumption DEF Oldest, Pending, Item
  <2> HIDE DEF S
  <2>0. IsFiniteSet(1..Items)
    BY <2>1, FS_Interval
  <2>2. IsFiniteSet(S) /\ IsFiniteSet(Pending)
    BY <2>0, <2>1, FS_Subset
  <2>3. Cardinality(S) \in Nat
    BY <2>2, FS_CardinalityType
  <2>4. DOMAIN todo' = 1..Cardinality(S)
    BY DEF Query, S
  <2> QED
    BY <1>1, <2>2, <2>3, <2>4, LenProperties
<1>3. CASE tracked # {}
  <2>1. PICK w \in tracked : tracked = {w}
    BY <1>3
  <2>2. Cardinality(tracked) = 1
    BY <2>1, FS_Singleton
  <2>3. Room = 0
    BY <2>2, SupervisorAssumption DEF Room
  <2>4. S = {}
    <3> SUFFICES ASSUME NEW i \in Pending, Cardinality({j \in Pending : j < i}) < 0 PROVE FALSE
      BY <2>3 DEF Oldest
    <3>1. IsFiniteSet({j \in Pending : j < i})
      BY <1>2, FS_Subset
    <3>2. Cardinality({j \in Pending : j < i}) \in Nat
      BY <3>1, FS_CardinalityType
    <3> QED
      BY <3>2
  <2>5. Len(todo') = 0
    BY <1>2, <2>4, FS_EmptySet
  <2> QED
    BY <1>1, <2>5, EmptySeq
<1>4. CASE tracked = {}
  <2>1. Room = MaxInFlight /\ (MaxInFlight = 0 \/ MaxInFlight = 1)
    BY <1>4, SupervisorAssumption, FS_EmptySet DEF Room
  <2>2. \A i, k \in S : i = k
    <3> SUFFICES ASSUME NEW i \in S, NEW k \in S, i < k PROVE FALSE
      BY DEF Oldest, Pending, Item
    <3> DEFINE P == {j \in Pending : j < k}
    <3>1. IsFiniteSet(P) /\ i \in P
      BY <1>2, FS_Subset DEF Oldest
    <3>2. Cardinality(P) \in Nat /\ Cardinality(P) # 0
      BY <3>1, FS_CardinalityType, FS_EmptySet
    <3>3. Cardinality(P) < Room
      BY DEF Oldest
    <3> QED
      BY <2>1, <3>2, <3>3
  <2> HIDE DEF S
  <2>3. S = {} \/ \E i \in S : S = {i}
    BY <2>2
  <2>4. Cardinality(S) <= 1
    <3>1. Cardinality(S) = 0 \/ Cardinality(S) = 1
      BY <2>3, FS_EmptySet, FS_Singleton
    <3> QED
      BY <3>1
  <2> QED
    BY <1>2, <1>4, <2>4
<1> QED
  BY <1>3, <1>4, <1>2

\* Settle in front of statements that dispatch nothing.
LEMMA SettlesOnly ==
  ASSUME NEW w \in Worker, NEW to \in Terminal, workOf[w] \in Item,
         NEW q \in Seq(Statement), \A k \in DOMAIN q : q[k].op # "dispatch",
         todo' = Settle(w, to) \o q
  PROVE  /\ todo'[1].item = workOf[w]
         /\ \A k \in DOMAIN todo' : todo'[k].op # "dispatch"
<1>1. Settle(w, to) \in Seq(Statement) /\ Settle(w, to) # <<>> /\ Len(Settle(w, to)) = 3
  BY Handlers
<1>2. ASSUME NEW p \in Seq(Statement), p # <<>>, Len(p) = 3, \A k \in 1..3 : p[k].op # "dispatch",
             todo' = p \o q
      PROVE  \A k \in DOMAIN todo' : todo'[k].op # "dispatch"
  <2> SUFFICES ASSUME NEW k \in DOMAIN todo' PROVE todo'[k].op # "dispatch"
    OBVIOUS
  <2>1. /\ Len(q) \in Nat /\ DOMAIN todo' = 1..(3 + Len(q)) /\ DOMAIN q = 1..Len(q)
        /\ \A j \in 1..3 : todo'[j] = p[j]
        /\ \A j \in 1..Len(q) : todo'[j + 3] = q[j]
    <3>1. Len(q) \in Nat /\ DOMAIN q = 1..Len(q)
      BY LenProperties
    <3>2. /\ DOMAIN (p \o q) = 1..(Len(p) + Len(q))
          /\ \A j \in 1..Len(p) : (p \o q)[j] = p[j]
          /\ \A j \in 1..Len(q) : (p \o q)[j + Len(p)] = q[j]
      BY <1>2, InFrontOf
    <3> QED
      BY <1>2, <3>1, <3>2
  <2>2. CASE k \in 1..3
    BY <1>2, <2>1, <2>2
  <2>3. CASE k \notin 1..3
    <3>1. k - 3 \in 1..Len(q) /\ (k - 3) + 3 = k
      BY <2>1, <2>3
    <3>2. todo'[(k - 3) + 3] = q[k - 3]
      BY <2>1, <3>1
    <3> QED
      BY <2>1, <3>1, <3>2
  <2> QED
    BY <2>2, <2>3
<1>3. \A k \in 1..3 : Settle(w, to)[k].op # "dispatch"
  BY DEF Settle, Stmt
<1>4. todo'[1].item = workOf[w]
  <2>1. todo'[1] = Stmt("item", workOf[w], w, to)
    BY FirstOfSettle
  <2> QED
    BY <2>1 DEF Stmt
<1> QED
  BY <1>1, <1>2, <1>3, <1>4

LEMMA OneKeeps ==
  ASSUME SIInv, OneInFlight, MaxInFlight <= 1, [Next]_vars
  PROVE  OneInFlight'
<1> USE SupervisorAssumption DEF SIInv
<1>0. TypeOK /\ todo \in Seq(Statement)
  BY DEF TypeOK
<1>1. ASSUME UNCHANGED <<todo, workOf>>, tracked' \subseteq tracked,
             \A i \in Item : Unsettled(i) => Unsettled(i)'
      PROVE  OneInFlight'
  <2>1. todo # <<>> /\ todo[1].op # "query" /\ todo[1].op # "dispatch" => todo[1].item \in Item
    BY <1>0, First, TailOf
  <2> QED
    BY <1>1, <2>1 DEF OneInFlight, TrackedRun
<1>2. ASSUME todo' = <<>>, UNCHANGED <<item, workOf>>, tracked' \subseteq tracked
      PROVE  OneInFlight'
  BY <1>2 DEF OneInFlight, Unsettled
<1>3. ASSUME NEW k \in 1..Len(todo), k > 1, todo[1].op \notin {"query", "dispatch"}
      PROVE  todo[k].op # "dispatch"
  BY <1>0, <1>3, LenProperties DEF OneInFlight
<1>4. CASE RunStatement \/ StatementFails
  <2>1. /\ todo # <<>> /\ Head(todo) = todo[1] /\ todo' = Tail(todo) /\ Popped /\ Begun
        /\ todo[1].op \in {"item", "log", "open", "close"} /\ tracked' = {} /\ todo[1].item \in Item
    BY <1>0, <1>4, First, TailPops DEF RunStatement, StatementFails, AtStatement, OneInFlight
  <2>2. \A k \in DOMAIN todo' : todo'[k].op # "dispatch"
    BY <1>3, <2>1 DEF Popped
  <2>3. ASSUME todo' # <<>>,
               todo'[1].op \in {"item", "open", "start"}
                 \/ (todo'[1].op = "log" /\ todo'[1].to = "running")
        PROVE  Unsettled(todo[1].item)'
    <3>1. Settling(todo[1]) \/ Dispatching(todo[1]) \/ Rejecting(todo[1])
      BY <1>0, <2>1, First
    <3>2. todo'[1] = todo[2] /\ Len(todo) > 1 /\ Begun'
      BY <2>1, <2>3 DEF Popped, Begun
    <3>3. ~ NothingBegun(2)
      BY <2>1, <3>2, LastOfItem
    <3>4. CASE Settling(todo[1])
      BY <2>3, <3>2, <3>3, <3>4 DEF Settling, Due, Stmt, Terminal
    <3>5. CASE Rejecting(todo[1])
      BY <2>3, <3>2, <3>3, <3>5 DEF Rejecting, Due, Stmt
    <3>6. CASE Dispatching(todo[1])
      <4>1. todo'[1].item = todo[1].item
        BY <1>0, <2>1, <3>2, SameItem
      <4>2. Unsettled(todo[1].item)
        BY <2>1, <3>6 DEF OneInFlight, Dispatching
      <4>3. item'[todo[1].item] = item[todo[1].item] \/ item'[todo[1].item] = "running"
        BY <1>4, <2>1, <3>6 DEF RunStatement, StatementFails, Apply, Dispatching, TypeOK, db
      <4> QED
        BY <4>1, <4>2, <4>3 DEF Unsettled, Terminal
    <3> QED
      BY <3>1, <3>4, <3>5, <3>6
  <2> QED
    BY <2>1, <2>2, <2>3 DEF OneInFlight
<1>5. CASE StartWorker
  <2> DEFINE w == todo[1].worker
  <2>1. /\ todo # <<>> /\ Head(todo) = todo[1] /\ todo' = Tail(todo) /\ Popped /\ Begun
        /\ todo[1].op = "start" /\ tracked = {} /\ UNCHANGED <<item, workOf>>
        /\ w \in Worker /\ workOf[w] = todo[1].item /\ Unsettled(todo[1].item)
    BY <1>0, <1>5, First, TailPops DEF StartWorker, AtStatement, OneInFlight, db, os
  <2>2. tracked' = {w}
    BY <1>5, <2>1 DEF StartWorker, Track
  <2>3. NothingBegun(2)
    BY <2>1 DEF HandlerInOrder, Begun, Settling, Dispatching, Rejecting
  <2>4. \A k \in DOMAIN todo' : todo'[k].op # "dispatch"
    BY <1>3, <2>1 DEF Popped
  <2>5. todo' # <<>> => 1 \in DOMAIN todo'
    BY <2>1 DEF Popped
  <2>6. todo' # <<>> => todo'[1].op = "query"
    BY <2>1, <2>3, <2>4, <2>5, LastOfItem DEF Begun
  <2> HIDE DEF w
  <2> QED
    BY <2>1, <2>2, <2>4, <2>6 DEF OneInFlight, Unsettled
<1>6. ASSUME NEW w \in tracked, tracked' = tracked \ {w}, UNCHANGED <<item, workOf>>,
             NEW q \in Seq(Statement), \A k \in DOMAIN q : q[k].op # "dispatch",
             NEW to \in Terminal, todo' = Settle(w, to) \o q
      PROVE  OneInFlight'
  <2>1. w \in Worker /\ workOf[w] \in Item /\ Unsettled(workOf[w]) /\ tracked' = {}
    BY <1>6 DEF TypeOK, TrackedRun, OneInFlight
  <2>2. todo'[1].item = workOf[w] /\ \A k \in DOMAIN todo' : todo'[k].op # "dispatch"
    BY <1>6, <2>1, SettlesOnly
  <2>3. Unsettled(todo[1].item)'
    BY <1>6, <2>1, <2>2 DEF Unsettled
  <2> QED
    BY <2>1, <2>2, <2>3 DEF OneInFlight
<1>7. CASE HandleResult
  <2>1. PICK r \in results : /\ tracked' = tracked \ {r.worker}
                            /\ todo' = IF Counts(r.worker) THEN Settle(r.worker, r.to) ELSE <<>>
    BY <1>7 DEF HandleResult
  <2>2. UNCHANGED <<item, workOf>> /\ r.to \in Terminal
    BY <1>7, <2>1 DEF HandleResult, db, os, TypeOK
  <2>3. CASE r.worker \in tracked
    <3>1. r.worker \in Worker /\ workOf[r.worker] \in Item
      BY <2>3 DEF TypeOK, TrackedRun
    <3>2. Settle(r.worker, r.to) \in Seq(Statement)
      BY <2>2, <3>1, Handlers
    <3>3. todo' = Settle(r.worker, r.to) \o <<>> /\ <<>> \in Seq(Statement)
          /\ \A k \in DOMAIN <<>> : <<>>[k].op # "dispatch"
      BY <2>1, <2>3, <3>2, ConcatEmptySeq, EmptySeq DEF Counts
    <3> QED
      BY <1>6, <2>1, <2>2, <2>3, <3>3
  <2>4. CASE r.worker \notin tracked
    BY <1>2, <2>1, <2>2, <2>4 DEF Counts
  <2> QED
    BY <2>3, <2>4
<1>8. CASE Tick
  <2>1. /\ todo' = << Stmt("query", 0, None, "none") >> /\ UNCHANGED <<item, workOf, tracked>>
    BY <1>8 DEF Tick, db, os
  <2>2. Len(todo') = 1 /\ todo'[1].op = "query"
    BY <2>1 DEF Stmt
  <2> QED
    BY <2>1, <2>2 DEF OneInFlight, Unsettled
<1>9. CASE Query
  <2>1. UNCHANGED <<item, workOf, tracked>> /\ todo' \in Seq(Statement)
    BY <1>9, QueryFinds DEF Query, db, os
  <2>2. Len(todo') <= 1 /\ (tracked # {} => todo' = <<>>)
    BY <1>9, QueryFindsOne DEF OneInFlight
  <2>3. /\ todo' # <<>> => 1 \in DOMAIN todo' /\ Len(todo') = 1
        /\ \A k \in DOMAIN todo' : k = 1 /\ Len(todo') = 1
    <3>1. Len(todo') \in Nat /\ DOMAIN todo' = 1..Len(todo')
      BY <2>1, LenProperties
    <3>2. todo' # <<>> => Len(todo') # 0
      BY <2>1, EmptySeq
    <3> QED
      BY <2>2, <3>1, <3>2
  <2>4. \A k \in DOMAIN todo' : todo'[k].op = "dispatch"
    BY <1>9, QueryFinds
  <2> QED
    BY <2>1, <2>2, <2>3, <2>4 DEF OneInFlight, Unsettled
<1>10. CASE QueryFails
  BY <1>2, <1>10 DEF QueryFails, db, os
<1>11. CASE Dispatch
  <2>1. /\ todo # <<>> /\ Head(todo) = todo[1] /\ todo[1].op = "dispatch" /\ 1 \in DOMAIN todo
        /\ UNCHANGED <<item, tracked>>
    BY <1>0, <1>11, TailOf DEF Dispatch, AtStatement, db
  <2>2. tracked' = {} /\ Len(todo) = 1
    BY <2>1 DEF OneInFlight
  <2>3. Tail(todo) = <<>>
    <3>1. Tail(todo) \in Seq(Statement) /\ Len(Tail(todo)) = Len(todo) - 1
      BY <1>0, <2>1, TailOf
    <3>2. Len(Tail(todo)) = 0
      BY <2>2, <3>1
    <3> QED
      BY <3>1, <3>2, EmptySeq
  <2>4. todo[1].item \in Item /\ item[todo[1].item] = "pending"
    BY <1>0, <1>11, FirstOfDispatch
  <2>5. /\ \A k \in DOMAIN todo' : todo'[k].op # "dispatch"
        /\ todo'[1].item = todo[1].item
    <3> DEFINE i == todo[1].item
    <3>1. CASE i \in Dispatchable
      <4>1. PICK w \in Worker : todo' = DispatchTo(i, w) \o <<>>
        BY <1>11, <2>1, <2>3, <3>1 DEF Dispatch
      <4>2. todo' = DispatchTo(i, w) /\ Len(todo') = 4 /\ DOMAIN todo' = 1..4
        BY <2>4, <4>1, Handlers, ConcatEmptySeq, LenProperties
      <4> QED
        BY <4>2 DEF DispatchTo, Stmt
    <3>2. CASE i \notin Dispatchable
      <4>1. todo' = Reject(i) \o <<>>
        BY <1>11, <2>1, <2>3, <3>2 DEF Dispatch
      <4>2. todo' = Reject(i) /\ Len(todo') = 2 /\ DOMAIN todo' = 1..2
        BY <2>4, <4>1, Handlers, ConcatEmptySeq, LenProperties
      <4> QED
        BY <4>2 DEF Reject, Stmt
    <3> QED
      BY <3>1, <3>2
  <2>6. Unsettled(todo[1].item)'
    BY <2>1, <2>4, <2>5 DEF Unsettled, Terminal
  <2> QED
    BY <2>2, <2>5, <2>6 DEF OneInFlight
<1>12. CASE StartFails
  <2> DEFINE w == todo[1].worker
  <2>1. /\ todo # <<>> /\ Begun /\ Head(todo) = todo[1] /\ Tail(todo) \in Seq(Statement)
        /\ todo[1].op = "start" /\ todo' = Settle(w, "failed") \o Tail(todo)
        /\ UNCHANGED <<item, workOf, tracked>> /\ tracked = {} /\ Unsettled(todo[1].item)
    BY <1>0, <1>12, First, TailOf DEF StartFails, AtStatement, db, os, OneInFlight
  <2>2. w \in Worker /\ workOf[w] = todo[1].item /\ todo[1].item \in Item
    BY <1>0, <2>1, First
  <2>3. \A k \in DOMAIN Tail(todo) : Tail(todo)[k].op # "dispatch"
    BY <1>0, <1>3, <2>1, TailOf
  <2> HIDE DEF w
  <2>4. todo'[1].item = workOf[w] /\ \A k \in DOMAIN todo' : todo'[k].op # "dispatch"
    BY <2>1, <2>2, <2>3, SettlesOnly DEF Terminal
  <2> QED
    BY <2>1, <2>2, <2>4 DEF OneInFlight, Unsettled
<1>13. ASSUME NEW w \in Worker, Expire(w) PROVE OneInFlight'
  <2>1. /\ todo # <<>> /\ Head(todo) = todo[1] /\ todo[1].op = "query"
        /\ UNCHANGED <<item, workOf>> /\ w \in tracked /\ tracked' = tracked \ {w}
        /\ todo' = Settle(w, "failed") \o todo /\ 1 \in DOMAIN todo
    BY <1>0, <1>13, TailOf DEF Expire, AtStatement, Expirable, db
  <2>2. \A k \in DOMAIN todo : todo[k].op # "dispatch"
    BY <1>0, <2>1, LenProperties DEF OneInFlight
  <2> QED
    BY <1>0, <1>6, <2>1, <2>2 DEF Terminal
<1>14. ASSUME NEW w \in Worker, WorkerExits(w) PROVE OneInFlight'
  BY <1>1, <1>14 DEF WorkerExits, db, Unsettled
<1>15. ASSUME NEW i \in Item, Seed(i) PROVE OneInFlight'
  BY <1>1, <1>15 DEF Seed, os, mem, Unsettled, Terminal, TypeOK
<1>16. CASE StartSupervisor
  BY <1>1, <1>16 DEF StartSupervisor, db, os, mem, Unsettled
<1>17. CASE StopSupervisor
  BY <1>2, <1>17 DEF StopSupervisor, Forget, db
<1>18. CASE CrashSupervisor
  BY <1>2, <1>18 DEF CrashSupervisor, Forget, db, os
<1>19. CASE UNCHANGED vars
  BY <1>1, <1>19 DEF vars, db, os, mem, Unsettled
<1> QED
  BY <1>4, <1>5, <1>7, <1>8, <1>9, <1>10, <1>11, <1>12, <1>13, <1>14, <1>15, <1>16,
     <1>17, <1>18, <1>19 DEF Next

\* With at most one worker in flight, as the code has it (sprintMaxInFlight is 1), an
\* item that is completed or failed keeps that state, whatever statements fail and
\* however often the supervisor dies: no late result and no restart settles it again.
THEOREM SettledOnce == ASSUME MaxInFlight <= 1 PROVE Spec => SettledForGood
<1>1. Init => OneInFlight
  BY DEF Init, OneInFlight
<1>2. SIInv /\ OneInFlight /\ [Next]_vars => OneInFlight'
  BY OneKeeps
<1>3. SIInv /\ OneInFlight /\ [Next]_vars =>
        [\A i \in Item : item[i] \in Terminal => item'[i] = item[i]]_vars
  <2> SUFFICES ASSUME SIInv, OneInFlight, Next, NEW i \in Item, item[i] \in Terminal
               PROVE  item'[i] = item[i]
    OBVIOUS
  <2>1. CASE RunStatement
    <3>1. /\ todo # <<>> /\ Head(todo) = todo[1] /\ Apply(todo[1]) /\ TypeOK
      BY <2>1, TailOf DEF RunStatement, AtStatement, SIInv, TypeOK
    <3>2. todo[1].op = "item" => i # todo[1].item
      BY <3>1 DEF OneInFlight, Unsettled
    <3> QED
      BY <3>1, <3>2 DEF Apply, TypeOK
  <2>2. ASSUME NEW j \in Item, Seed(j) PROVE item'[i] = item[i]
    BY <2>2 DEF Seed, Terminal, SIInv, TypeOK
  <2>3. ASSUME UNCHANGED item PROVE item'[i] = item[i]
    BY <2>3
  <2> QED
    BY <2>1, <2>2, <2>3
    DEF Next, StatementFails, HandleResult, Tick, Query, QueryFails, Dispatch, StartWorker,
        StartFails, Expire, WorkerExits, StartSupervisor, StopSupervisor, CrashSupervisor, db
<1> QED
  BY <1>1, <1>2, <1>3, SupervisorInductive, PTL DEF Spec, SettledForGood
=============================================================================
