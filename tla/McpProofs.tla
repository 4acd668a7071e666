------------------------------ MODULE McpProofs -----------------------------
(* Proofs about McpServer, for any directories, agents and configurations.  *)
EXTENDS McpServer, FiniteSetTheorems, WellFoundedInduction, TLAPS

\* The session is bound to whoever has executed a tool, and what it may have changed
\* is in the tree of that agent.
Bound ==
  /\ acted.actors \subseteq {bound} \ {None}
  /\ acted.trees \subseteq acted.actors

IInv == cfg \in Configs /\ Bound

-----------------------------------------------------------------------------
(* The context of a call.                                                   *)

LEMMA DepthIsNat ==
  ASSUME NEW d \in Dir, NEW c, NEW k \in Matching(c, d)
  PROVE  Depth(d, c.repos[k].path) \in Nat
<1>1. PICK i \in DOMAIN Above[d] : Above[d][i] = c.repos[k].path
  BY DEF Matching
<1>2. Depth(d, c.repos[k].path) \in DOMAIN Above[d]
  BY <1>1 DEF Depth
<1>3. Above[d] \in Seq(Dir)
  BY DirAssumption
<1> QED BY <1>2, <1>3

\* A registered directory has an innermost stanza.
LEMMA Matched ==
  ASSUME NEW d \in Dir, NEW c, Registered(c, d)
  PROVE  MatchRepo(c, d) \in DOMAIN c.repos
<1> DEFINE D(k) == Depth(d, c.repos[k].path)
           T == {D(k) : k \in Matching(c, d)}
<1>1. T \subseteq Nat
  BY DepthIsNat
<1>2. T # {}
  BY DEF Registered
<1> HIDE DEF T, D
<1>3. PICK x \in T : \A y \in T : ~ (<<y, x>> \in OpToRel(<, Nat))
  BY <1>1, <1>2, NatLessThanWellFounded, WFMin
<1>4. \A y \in T : x <= y
  <2> SUFFICES ASSUME NEW y \in T PROVE x <= y
    OBVIOUS
  <2>1. x \in Nat /\ y \in Nat
    BY <1>1
  <2>2. ~ (<<y, x>> \in {p \in Nat \X Nat : p[1] < p[2]})
    BY <1>3 DEF OpToRel
  <2>3. ~ (y < x)
    BY <2>1, <2>2
  <2> QED BY <2>1, <2>3
<1>5. \E k \in Matching(c, d) : \A j \in Matching(c, d) : D(k) <= D(j)
  BY <1>4 DEF T
<1>6. MatchRepo(c, d) \in Matching(c, d)
  BY <1>5 DEF MatchRepo, D
<1> QED BY <1>6 DEF Matching

\* No roster knows an agent without a name.
LEMMA Named ==
  ASSUME NEW d \in Dir, NEW c \in Configs, Registered(c, d)
  PROVE  None \notin DOMAIN Registry(c, d).agents
<1>1. MatchRepo(c, d) \in DOMAIN c.repos
  BY Matched
<1>2. None \notin DOMAIN c.agents /\ None \notin DOMAIN c.repos[MatchRepo(c, d)].agents
  BY <1>1, McpAssumption
<1> QED BY <1>2 DEF Registry, MergeRoster

LEMMA FirstIsOne ==
  ASSUME NEW a, NEW b, NEW c, NEW ok
  PROVE  First(<<a, b, c>>, ok) \in ok \cup {None}
<1> DEFINE cands == <<a, b, c>>
           good == {i \in DOMAIN cands : cands[i] \in ok}
<1>1. good \subseteq {1, 2, 3}
  OBVIOUS
<1>2. CASE good = {}
  BY <1>2 DEF First
<1>3. CASE good # {}
  <2>1. \E i \in good : \A j \in good : i <= j
    <3> HIDE DEF good
    <3>1. CASE 1 \in good
      BY <1>1, <3>1
    <3>2. CASE 1 \notin good /\ 2 \in good
      BY <1>1, <3>2
    <3>3. CASE 1 \notin good /\ 2 \notin good
      <4>1. good = {3}
        BY <1>1, <1>3, <3>3
      <4> QED BY <4>1
    <3> QED BY <3>1, <3>2, <3>3
  <2>2. (CHOOSE i \in good : \A j \in good : i <= j) \in good
    BY <2>1
  <2> QED BY <1>3, <2>2 DEF First
<1> QED BY <1>2, <1>3

\* The directory that a context with an agent is of, and what the context says.
LEMMA GateContext ==
  ASSUME NEW d, NEW a, Gate(CallContext(d, a))
  PROVE  \E at \in Dir :
           /\ Resolvable(at) /\ Registered(cfg, at)
           /\ CallContext(d, a) = ContextOf(cfg, at, a, None, proc.harness)
           /\ CallContext(d, a).dir = at
           /\ CallContext(d, a).actor =
                IF DirActor(cfg, at) # None THEN DirActor(cfg, at) ELSE a
           /\ CallContext(d, a).actor \in DOMAIN Registry(cfg, at).agents
<1> DEFINE ok == {x \in Dir : Resolvable(x)}
           at == First(Candidates(d, proc.pwd), ok)
<1>1. at \in ok \cup {None}
  BY FirstIsOne DEF Candidates
<1>2. at # None /\ Registered(cfg, at)
  BY DEF CallContext, ResolveRegistry, Gate, NoContext
<1>3. CallContext(d, a) = ContextOf(cfg, at, a, None, proc.harness)
  BY <1>2 DEF CallContext, ResolveRegistry
<1> HIDE DEF at
<1>4. /\ CallContext(d, a).dir = at
      /\ CallContext(d, a).actor = IF DirActor(cfg, at) # None THEN DirActor(cfg, at) ELSE a
      /\ CallContext(d, a).actor \in DOMAIN Registry(cfg, at).agents
  BY <1>3 DEF ContextOf, Gate, Role
<1> QED
  BY <1>1, <1>2, <1>3, <1>4

\* Where the gate opens there is an agent in the context.
LEMMA GateNames ==
  ASSUME cfg \in Configs, NEW d, NEW a, Gate(CallContext(d, a))
  PROVE  CallContext(d, a).actor # None
<1>1. PICK at \in Dir :
         Registered(cfg, at) /\ CallContext(d, a).actor \in DOMAIN Registry(cfg, at).agents
  BY GateContext
<1> QED
  BY <1>1, Named
-----------------------------------------------------------------------------
(* The steps.                                                               *)

LEMMA Initially == Init => IInv
BY DEF Init, IInv, Bound, NothingDone

\* A call that runs a tool is bound to the actor it runs as; and where the tool may
\* change something that actor is the tree's own.
LEMMA Executor ==
  ASSUME NEW callActor, NEW dirActor, NEW tool,
         dirActor # None, ~Conflict(callActor),
         NEW executing, executing = Executing(callActor, dirActor),
         ReadOnly(tool) \/ ~Cross(executing, dirActor, tool)
  PROVE  /\ Binding(executing, dirActor, tool) # None
         /\ bound # None => Binding(executing, dirActor, tool) = bound
         /\ ~ReadOnly(tool) => Binding(executing, dirActor, tool) = dirActor
<1>1. executing # None
  BY DEF Executing
<1>2. CASE bound # None
  BY <1>2 DEF Binding, Cross
<1>3. CASE bound = None
  BY <1>1, <1>3 DEF Binding, Cross
<1> QED BY <1>2, <1>3

LEMMA CallKeeps ==
  ASSUME IInv, NEW tool \in Tool, NEW arg, NEW callActor, Call(tool, arg, callActor)
  PROVE  IInv'
<1> DEFINE c == CallContext(Given(arg), callActor)
           executing == Executing(callActor, c.actor)
           cross == Cross(executing, c.actor, tool)
<1>1. cfg' \in Configs
  BY DEF IInv, Call
<1>2. CASE ~Gate(c) \/ Conflict(callActor)
  BY <1>1, <1>2 DEF IInv, Bound, Call
<1>3. CASE Gate(c) /\ ~Conflict(callActor)
  <2> DEFINE binding == Binding(executing, c.actor, tool)
  <2>1. c.actor # None
    BY <1>3, GateNames DEF IInv
  <2>2. bound' = binding
    BY <1>3 DEF Call
  <2>3. bound # None => binding = bound
    BY DEF Binding
  <2>4. acted.actors \subseteq {binding} \ {None}
    BY <2>3 DEF IInv, Bound
  <2>5. CASE ~(ReadOnly(tool) \/ ~cross)
    <3>1. acted' = acted
      BY <1>3, <2>5 DEF Call
    <3> QED BY <1>1, <2>2, <2>4, <3>1 DEF IInv, Bound
  <2>6. CASE ReadOnly(tool) \/ ~cross
    <3>1. binding # None /\ (~ReadOnly(tool) => binding = c.actor)
      BY <1>3, <2>1, <2>6, Executor
    <3>2. acted' = [actors |-> acted.actors \cup {binding},
                    trees |-> acted.trees \cup IF ReadOnly(tool) THEN {} ELSE {c.actor}]
      BY <1>3, <2>2, <2>6, <3>1 DEF Call
    <3> HIDE DEF binding, c
    <3>3. acted'.actors \subseteq {bound'} \ {None}
      BY <2>2, <2>4, <3>1, <3>2
    <3>4. acted'.trees \subseteq acted'.actors
      BY <3>1, <3>2 DEF IInv, Bound
    <3> QED BY <1>1, <3>3, <3>4 DEF IInv, Bound
  <2> QED BY <2>5, <2>6
<1> QED BY <1>2, <1>3

\* The end of a session forgets who it was bound to, with what was done.
LEMMA EndsKeeps ==
  ASSUME IInv, Ends
  PROVE  IInv'
BY DEF IInv, Bound, Ends, NothingDone

\* Everything else leaves the session and its deeds alone.
LEMMA Elsewhere ==
  ASSUME IInv, UNCHANGED <<bound, acted>>, cfg' = cfg \/ cfg' \in Configs
  PROVE  IInv'
BY DEF IInv, Bound

LEMMA Inductive == IInv /\ [Next]_vars => IInv'
<1> SUFFICES ASSUME IInv, [Next]_vars PROVE IInv'
  OBVIOUS
<1>1. CASE \E t \in Tool, d \in Dir \cup {None}, a \in Name \cup {None} : Call(t, d, a)
  BY <1>1, CallKeeps
<1>2. CASE Ends
  BY <1>2, EndsKeeps
<1>3. CASE Serve
  BY <1>3, Elsewhere DEF Serve
<1>4. CASE EditConfig
  BY <1>4, Elsewhere DEF EditConfig
<1>5. CASE SessionComesOrGoes
  BY <1>5, Elsewhere DEF SessionComesOrGoes
<1>6. CASE \E h \in Harness : Mint(h)
  BY <1>6, Elsewhere DEF Mint
<1>7. CASE \E d \in Dir \cup {None} : Orient(d)
  BY <1>7, Elsewhere DEF Orient
<1>8. CASE ReadResource
  BY <1>8, Elsewhere DEF ReadResource
<1>9. CASE IngestFails \/ IngestRearms
  BY <1>9, Elsewhere DEF IngestFails, IngestRearms
<1>10. CASE UNCHANGED vars
  BY <1>10, Elsewhere DEF vars
<1> QED BY <1>1, <1>2, <1>3, <1>4, <1>5, <1>6, <1>7, <1>8, <1>9, <1>10 DEF Next

-----------------------------------------------------------------------------

\* The session stays bound to the one agent it acts as (resolveActor), whatever calls,
\* refusals and edits of the configuration there are.
THEOREM McpInvariant == Spec => []IInv
<1> QED BY Initially, Inductive, PTL DEF Spec

\* One session acts as one agent and changes only that agent's tree, for any
\* directories, agents and configurations.
THEOREM OneActor == Spec => []OneActorActs
<1>1. IInv => OneActorActs
  <2> SUFFICES ASSUME IInv PROVE OneActorActs
    OBVIOUS
  <2>1. acted.actors \in SUBSET {bound}
    BY DEF IInv, Bound
  <2>2. Cardinality(acted.actors) <= 1
    <3>1. IsFiniteSet({bound}) /\ Cardinality({bound}) = 1
      BY FS_Singleton
    <3>2. Cardinality(acted.actors) <= Cardinality({bound})
      BY <2>1, <3>1, FS_Subset
    <3> QED BY <3>1, <3>2
  <2> QED BY <2>2 DEF IInv, Bound, OneActorActs
<1> QED BY <1>1, McpInvariant, PTL
-----------------------------------------------------------------------------
(* The serve gate and the runtime.                                          *)

\* Where the two resolvers are not known to differ, and the directory names somebody
\* who is an agent, the runtime starts as that agent.
LEMMA ResolversAgree ==
  ASSUME NEW c, NEW d \in Dir, Resolvable(d), Registered(c, d), ~ KnownDifference(c, d),
         DirActor(c, d) # None, DirActor(c, d) \in DOMAIN Registry(c, d).agents
  PROVE  Runs(c, d) /\ FamActor(d) = DirActor(c, d)
<1> DEFINE reg == Registry(c, d)
           declared == DOMAIN reg.agents \cup reg.users
<1>1. /\ Toplevel[d] # None
      /\ WalkUp(d) = Parsed[Toplevel[d]]
      /\ Base[Toplevel[d]] \in declared => Parsed[Toplevel[d]] = None
      /\ \A n \in DOMAIN reg.agents :
           n \in {DirActor(c, d), FamActor(d)} => reg.agents[n] # None /\ n \notin reg.users
  BY DEF Resolvable, KnownDifference
<1>2. FamActor(d) = DirActor(c, d)
  <2>1. CASE Base[Toplevel[d]] \in declared
    BY <1>1, <2>1 DEF FamActor, DirActor
  <2>2. CASE Base[Toplevel[d]] \notin declared
    BY <1>1, <2>2 DEF FamActor, DirActor
  <2> QED
    BY <2>1, <2>2
<1> QED
  BY <1>1, <1>2 DEF Runs

\* A tool runs only where the runtime would start, and for the agent it would start as,
\* but for the known differences and the directories that name nobody: for any
\* directories, rosters and stanzas.
THEOREM GateAgreement == Spec => []GateAgrees
<1>1. GateAgrees
  <2> SUFFICES ASSUME NEW d \in Dir, NEW a \in Name \cup {None}, Gate(CallContext(d, a)),
                      ~ KnownDifference(cfg, CallContext(d, a).dir)
               PROVE  \/ DirActor(cfg, CallContext(d, a).dir) = None /\ CallContext(d, a).actor = a
                      \/ /\ Runs(cfg, CallContext(d, a).dir)
                         /\ FamActor(CallContext(d, a).dir) = CallContext(d, a).actor
    BY DEF GateAgrees
  <2>1. PICK at \in Dir :
           /\ Resolvable(at) /\ Registered(cfg, at)
           /\ CallContext(d, a).dir = at
           /\ CallContext(d, a).actor =
                IF DirActor(cfg, at) # None THEN DirActor(cfg, at) ELSE a
           /\ CallContext(d, a).actor \in DOMAIN Registry(cfg, at).agents
    BY GateContext
  <2>2. CASE DirActor(cfg, at) = None
    BY <2>1, <2>2
  <2>3. CASE DirActor(cfg, at) # None
    BY <2>1, <2>3, ResolversAgree
  <2> QED
    BY <2>2, <2>3
<1> QED
  BY <1>1, PTL
=============================================================================
