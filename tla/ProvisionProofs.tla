-------------------------- MODULE ProvisionProofs ---------------------------
(* Proofs about Provision, for any number of commands, fams and actors; and *)
(* about Worktree as MCFleet has it (W), for any worktrees and changes.     *)
EXTENDS MCFleet, SequenceTheorems, TLAPS

-----------------------------------------------------------------------------
(* Provision: commands that write the same files.                           *)

State == {"absent", "directory", "plain", "identified"}
Place == {"start", "trees", "read", "truncated"} \cup Writing \cup Editing \cup Over

\* Where a command can be that has left its worktrees behind.
Past == {"read", "truncated", "done"} \cup Editing

\* The part of TypeOK that the worktrees need.
Typed ==
  /\ tree \in [Slug \X Actor -> State]
  /\ todo \in [Proc -> SUBSET Actor]
  /\ pc \in [Proc -> Place]

\* What a command has struck off its list is ready, and stays so whoever else is at
\* work; and it goes on only with an empty list.
Struck ==
  \A p \in Proc : CommandOf[p] # "setup" =>
    /\ \A a \in Actor \ todo[p] : tree[Of(p, a)] = "identified"
    /\ pc[p] \in Past => todo[p] = {}

IInv == Typed /\ Struck

-----------------------------------------------------------------------------

LEMMA OfIsTree ==
  ASSUME NEW p \in Proc, NEW a \in Actor
  PROVE  Of(p, a) \in Slug \X Actor
BY DEF Of, Slug

\* A step that leaves the worktrees alone, and that enters none of the places after
\* them from before, keeps the invariant.
LEMMA Elsewhere ==
  ASSUME IInv, NEW p \in Proc, NEW stage \in Place,
         UNCHANGED <<tree, todo>>, Goto(p, stage),
         stage \in Past => pc[p] \in Past \/ CommandOf[p] = "setup" \/ todo[p] = {}
  PROVE  IInv'
BY DEF IInv, Typed, Struck, Goto, Of

LEMMA Stays ==
  ASSUME IInv, UNCHANGED <<tree, todo, pc>>
  PROVE  IInv'
BY DEF IInv, Typed, Struck, Of

LEMMA Initially == Init => IInv
<1> SUFFICES ASSUME Init PROVE IInv
  OBVIOUS
<1>1. Typed
  BY DEF Init, Typed, State, Place, Writing, Editing, Over
<1>2. Struck
  BY DEF Init, Struck, Past, Editing
<1> QED BY <1>1, <1>2 DEF IInv

-----------------------------------------------------------------------------
(* The steps that touch a worktree.                                         *)

LEMMA AddTreeKeeps ==
  ASSUME IInv, NEW p \in Proc, NEW a \in Actor, AddTree(p, a)
  PROVE  IInv'
<1>1. /\ tree[Of(p, a)] = "absent"
      /\ tree' = [tree EXCEPT ![Of(p, a)] = "directory"]
      /\ UNCHANGED <<todo, pc>>
  BY DEF AddTree, Adds
<1>2. Typed'
  BY <1>1, OfIsTree DEF IInv, Typed, State
<1>3. ASSUME NEW q \in Proc, NEW b \in Actor, tree[Of(q, b)] = "identified"
      PROVE  tree'[Of(q, b)] = "identified"
  BY <1>1, <1>3, OfIsTree DEF IInv, Typed
<1>4. Struck'
  BY <1>1, <1>3 DEF IInv, Struck, Of
<1> QED BY <1>2, <1>4 DEF IInv

LEMMA FillTreeKeeps ==
  ASSUME IInv, NEW p \in Proc, NEW a \in Actor, FillTree(p, a)
  PROVE  IInv'
<1>1. /\ tree[Of(p, a)] = "directory"
      /\ tree' = [tree EXCEPT ![Of(p, a)] = "plain"]
      /\ UNCHANGED <<todo, pc>>
  BY DEF FillTree
<1>2. Typed'
  BY <1>1, OfIsTree DEF IInv, Typed, State
<1>3. ASSUME NEW q \in Proc, NEW b \in Actor, tree[Of(q, b)] = "identified"
      PROVE  tree'[Of(q, b)] = "identified"
  BY <1>1, <1>3, OfIsTree DEF IInv, Typed
<1>4. Struck'
  BY <1>1, <1>3 DEF IInv, Struck, Of
<1> QED BY <1>2, <1>4 DEF IInv

LEMMA SetIdentityKeeps ==
  ASSUME IInv, NEW p \in Proc, NEW a \in Actor, SetIdentity(p, a)
  PROVE  IInv'
<1>1. /\ tree' = [tree EXCEPT ![Of(p, a)] = "identified"]
      /\ todo' = [todo EXCEPT ![p] = todo[p] \ {a}]
      /\ pc' = pc
  BY DEF SetIdentity
<1>2. Typed'
  BY <1>1, OfIsTree DEF IInv, Typed, State
<1>3. ASSUME NEW q \in Proc, NEW b \in Actor, tree[Of(q, b)] = "identified"
      PROVE  tree'[Of(q, b)] = "identified"
  BY <1>1, <1>3, OfIsTree DEF IInv, Typed
<1>4. tree'[Of(p, a)] = "identified"
  BY <1>1, OfIsTree DEF IInv, Typed
<1>5. ASSUME NEW q \in Proc, CommandOf[q] # "setup"
      PROVE  /\ \A b \in Actor \ todo'[q] : tree'[Of(q, b)] = "identified"
             /\ pc'[q] \in Past => todo'[q] = {}
  <2>1. CASE q = p
    <3>1. todo'[q] = todo[q] \ {a}
      BY <1>1, <2>1 DEF IInv, Typed
    <3>2. \A b \in Actor \ todo'[q] : b = a \/ b \in Actor \ todo[q]
      BY <3>1
    <3>3. \A b \in Actor \ todo[q] : tree[Of(q, b)] = "identified"
      BY <1>5 DEF IInv, Struck
    <3>4. pc[q] \in Past => todo[q] = {}
      BY <1>5 DEF IInv, Struck
    <3>5. \A b \in Actor \ todo'[q] : tree'[Of(q, b)] = "identified"
      BY <3>2, <3>3, <1>3, <1>4, <2>1
    <3> QED BY <3>1, <3>4, <3>5, <1>1
  <2>2. CASE q # p
    <3>1. todo'[q] = todo[q]
      BY <1>1, <2>2 DEF IInv, Typed
    <3> QED BY <3>1, <1>1, <1>3, <1>5 DEF IInv, Struck
  <2> QED BY <2>1, <2>2
<1>6. Struck'
  BY <1>5 DEF Struck, Of
<1> QED BY <1>2, <1>6 DEF IInv

-----------------------------------------------------------------------------

\* Whatever the commands do, each step keeps the invariant.
LEMMA Inductive == IInv /\ [Next]_vars => IInv'
<1> SUFFICES ASSUME IInv, [Next]_vars PROVE IInv'
  OBVIOUS
<1>1. CASE UNCHANGED vars
  BY <1>1, Stays DEF vars, trees
<1>2. ASSUME NEW p \in Proc, Run(p)
      PROVE  IInv'
  <2> DEFINE Enters(stage) ==
        /\ UNCHANGED <<tree, todo>> /\ Goto(p, stage) /\ stage \in Place
        /\ stage \in Past => pc[p] \in Past \/ CommandOf[p] = "setup" \/ todo[p] = {}
  <2>1. CASE LoadConfig(p)
    <3>1. Enters("loaded")
      BY <2>1 DEF LoadConfig, trees, Place, Writing, Past, Editing
    <3> QED BY <3>1, Elsewhere
  <2>2. CASE OpenTmp(p)
    <3>1. Enters("open")
      BY <2>2 DEF OpenTmp, trees, Place, Writing, Past, Editing
    <3> QED BY <3>1, Elsewhere
  <2>3. CASE WriteTmp(p)
    <3>1. Enters("written")
      BY <2>3 DEF WriteTmp, trees, Place, Writing, Past, Editing
    <3> QED BY <3>1, Elsewhere
  <2>4. CASE RenameTmp(p)
    <3>1. CASE CommandOf[p] = "setup"
      <4>1. Enters("get")
        BY <2>4, <3>1 DEF RenameTmp, trees, Place, Editing
      <4> QED BY <4>1, Elsewhere
    <3>2. CASE CommandOf[p] # "setup"
      <4>1. Enters("trees")
        BY <2>4, <3>2 DEF RenameTmp, trees, Place, Past, Editing
      <4> QED BY <4>1, Elsewhere
    <3> QED BY <3>1, <3>2
  <2>5. CASE RenameFails(p)
    <3>1. Enters("failed")
      BY <2>5 DEF RenameFails, trees, Place, Over, Past, Editing
    <3> QED BY <3>1, Elsewhere
  <2>6. ASSUME NEW a \in Actor, AddTree(p, a) PROVE IInv'
    BY <2>6, AddTreeKeeps
  <2>7. ASSUME NEW a \in Actor, FillTree(p, a) PROVE IInv'
    BY <2>7, FillTreeKeeps
  <2>8. ASSUME NEW a \in Actor, AddTreeFails(p, a) PROVE IInv'
    <3>1. Enters("failed")
      BY <2>8 DEF AddTreeFails, trees, Place, Over, Past, Editing
    <3> QED BY <3>1, Elsewhere
  <2>9. ASSUME NEW a \in Actor, SetIdentity(p, a) PROVE IInv'
    BY <2>9, SetIdentityKeeps
  <2>10. CASE TreesDone(p)
    <3>1. CASE CommandOf[p] = "newfam"
      <4>1. Enters("read")
        BY <2>10, <3>1 DEF TreesDone, trees, Place
      <4> QED BY <4>1, Elsewhere
    <3>2. CASE CommandOf[p] # "newfam"
      <4>1. Enters("get")
        BY <2>10, <3>2 DEF TreesDone, trees, Place, Editing
      <4> QED BY <4>1, Elsewhere
    <3> QED BY <3>1, <3>2
  <2>11. CASE Get(p)
    <3>1. Enters("set")
      BY <2>11 DEF Get, trees, Place, Past, Editing
    <3> QED BY <3>1, Elsewhere
  <2>12. CASE Lock(p)
    <3>1. PICK stage \in {"set*", "drop*", "retire*"} : Goto(p, stage)
      BY <2>12 DEF Lock
    <3>2. UNCHANGED <<tree, todo>> /\ pc[p] \in Past
      BY <2>12 DEF Lock, trees, Past, Editing
    <3>3. Enters(stage)
      BY <3>1, <3>2 DEF Place, Editing
    <3> QED BY <3>3, Elsewhere
  <2>13. CASE Replace(p)
    <3>1. PICK stage \in {"drop", "retire", "done"} : Goto(p, stage)
      BY <2>13 DEF Replace
    <3>2. UNCHANGED <<tree, todo>> /\ pc[p] \in Past
      BY <2>13 DEF Replace, trees, Past, Editing
    <3>3. Enters(stage)
      BY <3>1, <3>2 DEF Place, Editing, Over
    <3> QED BY <3>3, Elsewhere
  <2>14. CASE ReadMcp(p)
    BY <2>14, Stays DEF ReadMcp, trees
  <2>15. CASE Truncate(p)
    <3>1. Enters("truncated")
      BY <2>15 DEF Truncate, trees, Place, Past
    <3> QED BY <3>1, Elsewhere
  <2>16. CASE WriteInPlace(p)
    <3>1. Enters("done")
      BY <2>16 DEF WriteInPlace, trees, Place, Over, Past
    <3> QED BY <3>1, Elsewhere
  <2>17. CASE Die(p)
    <3>1. Enters("dead")
      BY <2>17 DEF Die, trees, Place, Over, Past, Editing
    <3> QED BY <3>1, Elsewhere
  <2> QED
    BY <1>2, <2>1, <2>2, <2>3, <2>4, <2>5, <2>6, <2>7, <2>8, <2>9, <2>10, <2>11, <2>12,
       <2>13, <2>14, <2>15, <2>16, <2>17 DEF Run
<1> QED BY <1>1, <1>2 DEF Next

\* What the worktree part of the state may hold, and what a command has struck off its
\* list: the inductive invariant.
THEOREM ProvisionInvariant == Spec => []IInv
BY Initially, Inductive, PTL DEF Spec

\* A clone or newfam that reports success leaves every actor of its fam a worktree with
\* an identity, however many commands run side by side and wherever others are killed.
THEOREM CompleteReady == Spec => []CompleteMeansReady
<1>1. IInv => CompleteMeansReady
  BY DEF IInv, Struck, CompleteMeansReady, Finished, Past, Editing
<1> QED BY <1>1, ProvisionInvariant, PTL
-----------------------------------------------------------------------------
(* The files.                                                               *)

File(entries) == [ino : Proc \cup {None}, has : SUBSET entries]

FilesTyped ==
  /\ config \in File(Slug) /\ mcp \in File(Entry)
  /\ tmp \in {None} \cup [ino : Proc, has : SUBSET Slug]
  /\ lock \in Proc \cup {None}
  /\ branch \subseteq Slug \X Actor
  /\ view \in [Proc -> SUBSET Entry]
  /\ fd \in [Proc -> Proc \cup {None}]
  /\ env \in [Proc -> BOOLEAN]
  /\ raced \in BOOLEAN /\ exposed \in BOOLEAN
  /\ \A p \in Proc : pc[p] \in Writing => view[p] \subseteq Slug

\* While no two commands had config.toml loaded at once, at most one writes it: what
\* it has read is what the file still says, and the temporary file is its own.
OneWriter ==
  ~ raced => \A p \in Proc :
    /\ Configured(p) => SlugOf[p] \in config.has
    /\ pc[p] \in Writing => \A q \in Proc : pc[q] \in Writing => q = p
    /\ pc[p] \in {"loaded", "open"} => config.has \subseteq view[p]
    /\ pc[p] = "open" => tmp # None /\ tmp.ino = fd[p]
    /\ pc[p] = "written" =>
         tmp # None /\ config.has \subseteq tmp.has /\ SlugOf[p] \in tmp.has

\* A newfam that has read the harness configuration and is to write it in place, and
\* a command that edits it under the lock.
Rewrites(p) == (pc[p] = "read" /\ fd[p] = p) \/ pc[p] = "truncated"
Locked(p) == pc[p] \in {"set*", "drop*", "retire*"}
Engaged(p) == pc[p] \in Editing \ {"get"}

\* What EditsKept asks of the contents of the configuration.
Keeps(has) ==
  /\ OperatorEntries \subseteq has
  /\ \A p \in Proc : CommandOf[p] # "newfam" /\ Finished(p) =>
       "botfam" \in has /\ Forge(p) \notin has

\* The lock is its holder's; newfam opens the configuration only when it is through
\* with its worktrees.
InTurn ==
  \A p \in Proc :
    /\ Locked(p) => lock = p
    /\ pc[p] \in {"read", "truncated"} => CommandOf[p] = "newfam"
    /\ pc[p] = "trees" /\ todo[p] = {} => fd[p] = None

\* While no newfam wrote beside another command, and none was killed in the middle:
\* who is to write the configuration has read what it still says, and that keeps
\* what must be kept.
NothingLost ==
  ~ exposed => \A p \in Proc :
    /\ Rewrites(p) => Keeps(view[p]) /\ \A q \in Proc \ {p} : ~ Rewrites(q) /\ ~ Engaged(q)
    /\ pc[p] = "truncated" => fd[p] = mcp.ino
    /\ Locked(p) => view[p] = mcp.has
    /\ pc[p] \in {"set", "set*"} => env[p]
    /\ pc[p] \in {"drop", "drop*", "retire", "retire*"} => "botfam" \in mcp.has

KeptOrOpen ==
  ~ exposed /\ (\A p \in Proc : pc[p] # "truncated") => Keeps(mcp.has)

FInv == IInv /\ FilesTyped /\ OneWriter /\ InTurn /\ NothingLost /\ KeptOrOpen

LEMMA Slugs ==
  ASSUME NEW p \in Proc
  PROVE  SlugOf[p] \in Slug /\ SlugOf[p] \in Entry /\ SlugOf[p] \notin {"botfam", "collab", "own", "env"}
BY ProvisionAssumption DEF Slug, Entry

LEMMA FilesInitially == Init => FilesTyped /\ OneWriter /\ InTurn /\ NothingLost /\ KeptOrOpen
<1> SUFFICES ASSUME Init PROVE FilesTyped /\ OneWriter /\ InTurn /\ NothingLost /\ KeptOrOpen
  OBVIOUS
<1>1. \A p \in Proc : pc[p] = "start" /\ fd[p] = None
  BY DEF Init
<1>2. FilesTyped
  BY <1>1 DEF Init, FilesTyped, File, Writing
<1>3. OneWriter
  BY <1>1 DEF OneWriter, Configured, Writing, Editing
<1>4. InTurn
  BY <1>1 DEF InTurn, Locked
<1>5. NothingLost
  BY <1>1 DEF NothingLost, Rewrites, Locked
<1>6. Keeps(mcp.has)
  <2>1. mcp.has = Entry \ {"botfam"}
    BY DEF Init
  <2> QED
    BY <1>1, <2>1 DEF Keeps, Finished, OperatorEntries, Entry
<1> QED
  BY <1>2, <1>3, <1>4, <1>5, <1>6 DEF KeptOrOpen

LEMMA FilesStayTyped ==
  ASSUME IInv, FilesTyped, NEW p \in Proc, Run(p)
  PROVE  FilesTyped'
<1>0. SlugOf[p] \in Slug /\ Slug \subseteq Entry
  BY Slugs DEF Entry
<1> USE DEF IInv, Typed, FilesTyped, File, Goto, files, trees
<1>1. CASE LoadConfig(p)
  BY <1>0, <1>1 DEF LoadConfig, Writing
<1>2. CASE OpenTmp(p)
  BY <1>2 DEF OpenTmp, Writing
<1>3. CASE WriteTmp(p)
  <2>1. Stanzas(p) \subseteq Slug
    BY <1>0, <1>3 DEF WriteTmp, Stanzas, Writing
  <2>2. config' \in [ino : Proc \cup {None}, has : SUBSET Slug]
        /\ tmp' \in {None} \cup [ino : Proc, has : SUBSET Slug]
    BY <1>3, <2>1 DEF WriteTmp
  <2>3. \A q \in Proc : pc'[q] \in Writing => view'[q] \subseteq Slug
    BY <1>3 DEF WriteTmp, Writing
  <2> QED
    BY <1>3, <2>2, <2>3 DEF WriteTmp
<1>4. CASE RenameTmp(p)
  BY <1>4 DEF RenameTmp, Writing
<1>5. CASE RenameFails(p)
  BY <1>5 DEF RenameFails, Writing
<1>6. ASSUME NEW a \in Actor, AddTree(p, a) PROVE FilesTyped'
  BY <1>6, OfIsTree DEF AddTree
<1>7. ASSUME NEW a \in Actor, FillTree(p, a) PROVE FilesTyped'
  BY <1>7 DEF FillTree
<1>8. ASSUME NEW a \in Actor, AddTreeFails(p, a) PROVE FilesTyped'
  BY <1>8 DEF AddTreeFails, Writing
<1>9. ASSUME NEW a \in Actor, SetIdentity(p, a) PROVE FilesTyped'
  BY <1>9 DEF SetIdentity
<1>10. CASE TreesDone(p)
  BY <1>10 DEF TreesDone, Writing
<1>11. CASE Get(p)
  BY <1>11 DEF Get, Writing
<1>12. CASE Lock(p)
  BY <1>12 DEF Lock, Writing
<1>13. CASE Replace(p)
  <2>1. Edited(p) \subseteq Entry
    BY <1>13 DEF Replace, Edited, WithServer, Without, Entry, OperatorEntries
  <2> QED
    BY <1>13, <2>1 DEF Replace, Writing
<1>14. CASE ReadMcp(p)
  BY <1>14 DEF ReadMcp, Writing
<1>15. CASE Truncate(p)
  BY <1>15 DEF Truncate, Writing
<1>16. CASE WriteInPlace(p)
  <2>1. mcp' \in [ino : Proc \cup {None}, has : SUBSET Entry]
    BY <1>16 DEF WriteInPlace, Entry
  <2> QED
    BY <1>16, <2>1 DEF WriteInPlace, Writing
<1>17. CASE Die(p)
  BY <1>17 DEF Die, Writing
<1> QED
  BY <1>1, <1>2, <1>3, <1>4, <1>5, <1>6, <1>7, <1>8, <1>9, <1>10, <1>11, <1>12, <1>13,
     <1>14, <1>15, <1>16, <1>17 DEF Run

-----------------------------------------------------------------------------
(* config.toml.                                                             *)

\* A step that leaves the two files alone, of a command that does not write them.
LEMMA NoWriter ==
  ASSUME IInv, OneWriter, NEW p \in Proc, UNCHANGED <<config, tmp, raced>>,
         \A q \in Proc \ {p} : pc'[q] = pc[q] /\ view'[q] = view[q] /\ fd'[q] = fd[q],
         pc'[p] \notin Writing, Configured(p)' => Configured(p)
  PROVE  OneWriter'
BY DEF OneWriter, Configured, Writing

LEMMA OneWriterKeeps ==
  ASSUME IInv, FilesTyped, OneWriter, NEW p \in Proc, Run(p)
  PROVE  OneWriter'
<1> USE DEF IInv, Typed, FilesTyped, Goto, files, trees
<1>1. CASE LoadConfig(p)
  <2> SUFFICES ASSUME ~ raced' PROVE OneWriter'
    BY DEF OneWriter
  <2>1. ~ raced /\ \A q \in Proc \ {p} : pc[q] \notin Writing
    BY <1>1 DEF LoadConfig, Others
  <2>2. pc'[p] = "loaded" /\ view'[p] = config.has /\ UNCHANGED <<config, tmp>>
        /\ \A q \in Proc \ {p} : pc'[q] = pc[q]
    BY <1>1 DEF LoadConfig
  <2> QED
    BY <2>1, <2>2 DEF OneWriter, Configured, Writing, Editing
<1>2. CASE OpenTmp(p)
  <2> SUFFICES ASSUME ~ raced PROVE OneWriter'
    BY <1>2 DEF OneWriter, OpenTmp
  <2>1. /\ pc[p] = "loaded" /\ pc'[p] = "open" /\ UNCHANGED <<config, view>>
        /\ tmp' \in [ino : Proc, has : SUBSET Slug] /\ fd'[p] = tmp'.ino
        /\ \A q \in Proc \ {p} : pc'[q] = pc[q]
    BY <1>2, FilesStayTyped DEF OpenTmp
  <2>3. tmp' # None
    BY <2>1, ProvisionAssumption
  <2>2. \A q \in Proc \ {p} : pc[q] \notin Writing
    BY <2>1 DEF OneWriter, Writing
  <2> QED
    BY <2>1, <2>2, <2>3 DEF OneWriter, Configured, Writing, Editing
<1>3. CASE WriteTmp(p)
  <2> SUFFICES ASSUME ~ raced PROVE OneWriter'
    BY <1>3 DEF OneWriter, WriteTmp
  <2>1. /\ pc[p] = "open" /\ pc'[p] = "written" /\ \A q \in Proc \ {p} : pc'[q] = pc[q]
    BY <1>3 DEF WriteTmp
  <2>2. /\ tmp # None /\ tmp.ino = fd[p] /\ config.has \subseteq view[p]
        /\ \A q \in Proc \ {p} : pc[q] \notin Writing
    BY <2>1 DEF OneWriter, Writing
  <2>3. tmp' = [tmp EXCEPT !.has = Stanzas(p)] /\ config' = config
    BY <1>3, <2>2 DEF WriteTmp
  <2>4. tmp'.has = view[p] \cup {SlugOf[p]} /\ tmp' # None
    <3>1. tmp \in [ino : Proc, has : SUBSET Slug] /\ Stanzas(p) \subseteq Slug
      BY <2>1, <2>2, Slugs DEF Stanzas, Writing
    <3>2. tmp' \in [ino : Proc, has : SUBSET Slug] /\ tmp'.has = Stanzas(p)
      BY <2>3, <3>1
    <3> QED
      BY <3>2, ProvisionAssumption DEF Stanzas
  <2> QED
    BY <2>1, <2>2, <2>3, <2>4 DEF OneWriter, Configured, Writing, Editing
<1>4. CASE RenameTmp(p)
  <2> SUFFICES ASSUME ~ raced PROVE OneWriter'
    BY <1>4 DEF OneWriter, RenameTmp
  <2>1. /\ pc[p] = "written" /\ pc'[p] \in {"get", "trees"} /\ config' = tmp
        /\ \A q \in Proc \ {p} : pc'[q] = pc[q]
    BY <1>4 DEF RenameTmp
  <2>2. /\ config.has \subseteq tmp.has /\ SlugOf[p] \in tmp.has
        /\ \A q \in Proc \ {p} : pc[q] \notin Writing
    BY <2>1 DEF OneWriter, Writing
  <2> QED
    BY <2>1, <2>2 DEF OneWriter, Configured, Writing, Editing
<1>5. CASE RenameFails(p)
  BY <1>5, NoWriter DEF RenameFails, Writing, Configured, Editing
<1>6. ASSUME NEW a \in Actor, AddTree(p, a) \/ FillTree(p, a) \/ SetIdentity(p, a)
      PROVE OneWriter'
  BY <1>6, NoWriter DEF AddTree, Adds, FillTree, SetIdentity, Writing, Configured
<1>7. ASSUME NEW a \in Actor, AddTreeFails(p, a) PROVE OneWriter'
  BY <1>7, NoWriter DEF AddTreeFails, Writing, Configured, Editing
<1>8. CASE TreesDone(p)
  BY <1>8, NoWriter DEF TreesDone, Writing, Configured, Editing
<1>9. CASE Get(p)
  BY <1>9, NoWriter DEF Get, Writing, Configured, Editing
<1>10. CASE Lock(p)
  BY <1>10, NoWriter DEF Lock, Writing, Configured, Editing
<1>11. CASE Replace(p)
  BY <1>11, NoWriter DEF Replace, Writing, Configured, Editing
<1>12. CASE ReadMcp(p)
  BY <1>12, NoWriter DEF ReadMcp, Writing, Configured, Editing
<1>13. CASE Truncate(p)
  BY <1>13, NoWriter DEF Truncate, Writing, Configured, Editing
<1>14. CASE WriteInPlace(p)
  BY <1>14, NoWriter DEF WriteInPlace, Writing, Configured, Editing
<1>15. CASE Die(p)
  BY <1>15, NoWriter DEF Die, Writing, Configured, Editing
<1> QED
  BY <1>1, <1>2, <1>3, <1>4, <1>5, <1>6, <1>7, <1>8, <1>9, <1>10, <1>11, <1>12, <1>13,
     <1>14, <1>15 DEF Run

-----------------------------------------------------------------------------
(* The harness configuration.                                               *)

LEMMA InTurnKeeps ==
  ASSUME IInv, FilesTyped, InTurn, NEW p \in Proc, Run(p)
  PROVE  InTurn'
<1> USE DEF IInv, Typed, FilesTyped, Goto, files, trees, Locked
<1>0. \A q \in Proc \ {p} : pc'[q] = pc[q] /\ todo'[q] = todo[q] /\ fd'[q] = fd[q]
  BY DEF Run, LoadConfig, OpenTmp, WriteTmp, RenameTmp, RenameFails, AddTree, FillTree,
         AddTreeFails, SetIdentity, TreesDone, Get, Lock, Replace, ReadMcp, Truncate,
         WriteInPlace, Die
<1>1. CASE lock' = lock /\ pc'[p] \notin {"trees", "read", "truncated", "set*", "drop*", "retire*"}
  BY <1>0, <1>1 DEF InTurn
<1>2. CASE LoadConfig(p) \/ OpenTmp(p) \/ WriteTmp(p) \/ RenameFails(p) \/ Get(p) \/ WriteInPlace(p)
  BY <1>1, <1>2 DEF LoadConfig, OpenTmp, WriteTmp, RenameFails, Get, WriteInPlace
<1>3. CASE RenameTmp(p)
  BY <1>0, <1>3 DEF InTurn, RenameTmp
<1>4. ASSUME NEW a \in Actor, AddTree(p, a) \/ FillTree(p, a) \/ SetIdentity(p, a)
      PROVE  InTurn'
  BY <1>0, <1>4 DEF InTurn, AddTree, Adds, FillTree, SetIdentity
<1>5. ASSUME NEW a \in Actor, AddTreeFails(p, a) PROVE InTurn'
  BY <1>1, <1>5 DEF AddTreeFails
<1>6. CASE TreesDone(p)
  BY <1>0, <1>6 DEF InTurn, TreesDone
<1>7. CASE Lock(p)
  BY <1>0, <1>7, ProvisionAssumption DEF InTurn, Lock, MayLock
<1>8. CASE Replace(p)
  BY <1>0, <1>8 DEF InTurn, Replace
<1>9. CASE ReadMcp(p) \/ Truncate(p)
  BY <1>0, <1>9 DEF InTurn, ReadMcp, Truncate
<1>10. CASE Die(p)
  BY <1>0, <1>10 DEF InTurn, Die
<1> QED
  BY <1>2, <1>3, <1>4, <1>5, <1>6, <1>7, <1>8, <1>9, <1>10 DEF Run

\* A step of a command that neither opens nor edits the configuration.
LEMMA Away ==
  ASSUME NothingLost, KeptOrOpen, NEW p \in Proc, UNCHANGED <<mcp, exposed>>,
         \A q \in Proc \ {p} : pc'[q] = pc[q] /\ view'[q] = view[q] /\ fd'[q] = fd[q] /\ env'[q] = env[q],
         ~ Rewrites(p)', ~ Engaged(p)', pc[p] # "truncated", pc'[p] # "done"
  PROVE  NothingLost' /\ KeptOrOpen'
<1>1. pc'[p] \notin {"truncated", "set", "set*", "drop", "drop*", "retire", "retire*"}
  BY DEF Rewrites, Engaged, Editing
<1>2. \A has : Keeps(has) => Keeps(has)'
  BY DEF Keeps, Finished, Forge
<1>3. KeptOrOpen'
  BY <1>2 DEF KeptOrOpen
<1>4. ASSUME ~ exposed', NEW q \in Proc
      PROVE  /\ Rewrites(q)' => Keeps(view[q])' /\ \A r \in Proc \ {q} : ~ Rewrites(r)' /\ ~ Engaged(r)'
             /\ pc'[q] = "truncated" => fd'[q] = mcp'.ino
             /\ Locked(q)' => view'[q] = mcp'.has
             /\ pc'[q] \in {"set", "set*"} => env'[q]
             /\ pc'[q] \in {"drop", "drop*", "retire", "retire*"} => "botfam" \in mcp'.has
  <2>1. CASE q = p
    BY <1>1, <2>1 DEF Locked
  <2>2. CASE q # p
    <3>1. Rewrites(q)' => Rewrites(q) /\ Keeps(view[q])'
      BY <1>2, <1>4, <2>2 DEF Rewrites, NothingLost, Keeps
    <3>2. \A r \in Proc \ {q} : Rewrites(q) => ~ Rewrites(r)' /\ ~ Engaged(r)'
      BY <1>4 DEF NothingLost, Rewrites, Engaged
    <3> QED
      BY <1>4, <2>2, <3>1, <3>2 DEF NothingLost, Locked
  <2> QED
    BY <2>1, <2>2
<1> QED
  BY <1>3, <1>4 DEF NothingLost

\* While a command edits the configuration under the lock, nobody else writes it.
LEMMA EditorAlone ==
  ASSUME NothingLost, KeptOrOpen, ~ exposed, NEW p \in Proc, Engaged(p)
  PROVE  /\ \A q \in Proc : ~ Rewrites(q)
         /\ Keeps(mcp.has)
<1>1. \A q \in Proc : ~ Rewrites(q)
  BY DEF NothingLost, Engaged, Rewrites, Editing
<1> QED
  BY <1>1 DEF KeptOrOpen, Rewrites

LEMMA ReplaceKeeps ==
  ASSUME IInv, FilesTyped, InTurn, NothingLost, KeptOrOpen, NEW p \in Proc, Replace(p)
  PROVE  NothingLost' /\ KeptOrOpen'
<1> USE DEF IInv, Typed, FilesTyped
<1> SUFFICES ASSUME ~ exposed PROVE NothingLost' /\ KeptOrOpen'
  BY DEF Replace, NothingLost, KeptOrOpen
<1>0. /\ pc[p] \in {"set*", "drop*", "retire*"} /\ Locked(p) /\ Engaged(p)
      /\ mcp' = [ino |-> p, has |-> Edited(p)]
      /\ UNCHANGED <<view, fd, env, exposed>>
      /\ pc' = [pc EXCEPT ![p] = IF pc[p] = "set*" THEN "drop" ELSE IF pc[p] = "drop*" THEN "retire" ELSE "done"]
  BY DEF Replace, Goto, Locked, Engaged, Editing
<1>1. /\ \A q \in Proc : ~ Rewrites(q)
      /\ Keeps(mcp.has) /\ view[p] = mcp.has
  BY <1>0, EditorAlone DEF NothingLost
<1>2. /\ pc'[p] \in {"drop", "retire", "done"}
      /\ \A q \in Proc \ {p} : pc'[q] = pc[q] /\ ~ Locked(q)
  BY <1>0 DEF InTurn, Locked
<1>3. /\ "botfam" \in Edited(p) /\ OperatorEntries \subseteq Edited(p)
      /\ pc[p] = "retire*" => Forge(p) \notin Edited(p)
      /\ \A q \in Proc : Forge(q) \notin mcp.has => Forge(q) \notin Edited(p)
  <2>1. CASE pc[p] = "set*"
    <3>1. env[p] /\ Edited(p) = (mcp.has \ {"env"}) \cup {"botfam", "env"}
      BY <1>1, <2>1 DEF NothingLost, Edited, WithServer
    <3> QED
      BY <1>1, <2>1, <3>1, Slugs DEF Keeps, OperatorEntries, Forge
  <2>2. CASE pc[p] = "drop*"
    <3>1. "botfam" \in mcp.has /\ Edited(p) = mcp.has \ {"collab"}
      BY <1>1, <2>2 DEF NothingLost, Edited, Without
    <3> QED
      BY <1>1, <2>2, <3>1 DEF Keeps, OperatorEntries
  <2>3. CASE pc[p] = "retire*"
    <3>1. "botfam" \in mcp.has /\ Edited(p) = mcp.has \ {Forge(p)}
      BY <1>1, <2>3 DEF NothingLost, Edited, Without
    <3> QED
      BY <1>1, <2>3, <3>1, Slugs DEF Keeps, OperatorEntries, Forge
  <2> QED
    BY <1>0, <2>1, <2>2, <2>3
<1>4. \A q \in Proc : CommandOf[q] # "newfam" /\ pc'[q] = "done" => Forge(q) \notin Edited(p)
  <2> SUFFICES ASSUME NEW q \in Proc, CommandOf[q] # "newfam", pc'[q] = "done"
               PROVE  Forge(q) \notin Edited(p)
    OBVIOUS
  <2>1. CASE q = p
    <3>1. pc[p] = "retire*"
      BY <1>0, <2>1
    <3> QED
      BY <1>3, <2>1, <3>1
  <2>2. CASE q # p
    <3>1. pc[q] = "done"
      BY <1>2, <2>2
    <3> QED
      BY <1>1, <1>3, <3>1 DEF Keeps, Finished
  <2> QED
    BY <2>1, <2>2
<1>5. mcp'.has = Edited(p)
  BY <1>0
<1>6. KeptOrOpen'
  BY <1>3, <1>4, <1>5 DEF KeptOrOpen, Keeps, Finished, Forge
<1>7. NothingLost'
  BY <1>0, <1>1, <1>2, <1>3, <1>5 DEF NothingLost, Rewrites, Locked
<1> QED
  BY <1>6, <1>7

LEMMA ConfigurationKeeps ==
  ASSUME IInv, FilesTyped, InTurn, NothingLost, KeptOrOpen, NEW p \in Proc, Run(p)
  PROVE  NothingLost' /\ KeptOrOpen'
<1> USE DEF IInv, Typed, FilesTyped, Goto, files, trees
<1>0. \A q \in Proc \ {p} : /\ pc'[q] = pc[q] /\ view'[q] = view[q]
                           /\ fd'[q] = fd[q] /\ env'[q] = env[q]
  BY DEF Run, LoadConfig, OpenTmp, WriteTmp, RenameTmp, RenameFails, AddTree, FillTree,
         AddTreeFails, SetIdentity, TreesDone, Get, Lock, Replace, ReadMcp, Truncate,
         WriteInPlace, Die
<1>1. ASSUME UNCHANGED <<mcp, exposed>>, pc[p] # "truncated",
             pc'[p] \in {"loaded", "open", "written", "get", "trees", "failed", "dead"}
      PROVE  NothingLost' /\ KeptOrOpen'
  BY <1>0, <1>1, Away DEF Rewrites, Engaged, Editing
<1>2. CASE LoadConfig(p) \/ OpenTmp(p) \/ WriteTmp(p) \/ RenameTmp(p) \/ RenameFails(p)
  BY <1>1, <1>2 DEF LoadConfig, OpenTmp, WriteTmp, RenameTmp, RenameFails
<1>3. ASSUME NEW a \in Actor, AddTree(p, a) \/ FillTree(p, a) \/ AddTreeFails(p, a) \/ SetIdentity(p, a)
      PROVE  NothingLost' /\ KeptOrOpen'
  BY <1>1, <1>3 DEF AddTree, Adds, FillTree, AddTreeFails, SetIdentity
<1>4. CASE TreesDone(p)
  <2>1. /\ pc[p] = "trees" /\ fd'[p] = None /\ UNCHANGED <<mcp, exposed>>
        /\ pc'[p] = "read" \/ pc'[p] = "get"
    BY <1>4 DEF TreesDone, InTurn
  <2>2. ~ Rewrites(p)' /\ ~ Engaged(p)'
    BY <2>1, ProvisionAssumption DEF Rewrites, Engaged, Editing
  <2> QED
    BY <1>0, <2>1, <2>2, Away
<1>5. CASE Get(p)
  <2> SUFFICES ASSUME ~ exposed' PROVE NothingLost' /\ KeptOrOpen'
    BY DEF NothingLost, KeptOrOpen
  <2>1. /\ ~ exposed /\ pc[p] = "get" /\ pc'[p] = "set" /\ UNCHANGED mcp
        /\ \A q \in Proc : pc[q] \notin {"read", "truncated"}
        /\ env'[p] = ("env" \in mcp.has)
    BY <1>5 DEF Get, Others
  <2>2. Keeps(mcp.has)
    BY <2>1 DEF KeptOrOpen
  <2>3. env'[p] /\ Keeps(mcp.has)'
    BY <1>0, <2>1, <2>2 DEF Keeps, OperatorEntries, Finished, Forge
  <2> QED
    BY <1>0, <2>1, <2>3 DEF NothingLost, KeptOrOpen, Rewrites, Locked
<1>6. CASE Lock(p)
  <2> SUFFICES ASSUME ~ exposed' PROVE NothingLost' /\ KeptOrOpen'
    BY DEF NothingLost, KeptOrOpen
  <2>1. /\ ~ exposed /\ pc[p] \in {"set", "drop", "retire"} /\ UNCHANGED <<mcp, env>>
        /\ pc'[p] = IF pc[p] = "set" THEN "set*" ELSE IF pc[p] = "drop" THEN "drop*" ELSE "retire*"
        /\ \A q \in Proc : pc[q] \notin {"read", "truncated"}
        /\ view'[p] = mcp.has
    BY <1>6 DEF Lock, Others
  <2>2. Keeps(mcp.has)'
    BY <1>0, <2>1 DEF KeptOrOpen, Keeps, Finished, Forge
  <2>3. \A q \in Proc : pc'[q] \notin {"read", "truncated"}
    BY <1>0, <2>1
  <2> QED
    BY <1>0, <2>1, <2>2, <2>3 DEF NothingLost, KeptOrOpen, Rewrites, Locked
<1>7. CASE Replace(p)
  BY <1>7, ReplaceKeeps
<1>8. CASE ReadMcp(p)
  <2> SUFFICES ASSUME ~ exposed' PROVE NothingLost' /\ KeptOrOpen'
    BY DEF NothingLost, KeptOrOpen
  <2>1. /\ ~ exposed /\ pc[p] = "read" /\ UNCHANGED <<mcp, env, pc>>
        /\ \A q \in Proc \ {p} : pc[q] \notin Editing \cup {"read", "truncated"}
        /\ view'[p] = mcp.has
    BY <1>8 DEF ReadMcp, Others
  <2>2. Keeps(mcp.has)'
    BY <2>1 DEF KeptOrOpen, Keeps, Finished, Forge
  <2> QED
    BY <1>0, <2>1, <2>2 DEF NothingLost, KeptOrOpen, Rewrites, Engaged, Locked, Editing, Keeps
<1>9. CASE Truncate(p)
  <2> SUFFICES ASSUME ~ exposed' PROVE NothingLost' /\ KeptOrOpen'
    BY DEF NothingLost, KeptOrOpen
  <2>1. /\ ~ exposed /\ pc[p] = "read" /\ Rewrites(p) /\ pc'[p] = "truncated"
        /\ UNCHANGED <<view, env>> /\ mcp'.ino = mcp.ino /\ fd'[p] = mcp.ino
    BY <1>9 DEF Truncate, Rewrites, File
  <2>2. /\ \A q \in Proc \ {p} : ~ Rewrites(q) /\ ~ Engaged(q)
        /\ Keeps(view[p])
    BY <2>1 DEF NothingLost
  <2>3. Keeps(view[p])' /\ \A q \in Proc \ {p} : ~ Rewrites(q)' /\ ~ Engaged(q)'
    BY <1>0, <2>1, <2>2 DEF Keeps, Finished, Forge, Rewrites, Engaged
  <2> QED
    BY <1>0, <2>1, <2>3 DEF NothingLost, KeptOrOpen, Rewrites, Engaged, Locked, Editing
<1>10. CASE WriteInPlace(p)
  <2> SUFFICES ASSUME ~ exposed' PROVE NothingLost' /\ KeptOrOpen'
    BY DEF NothingLost, KeptOrOpen
  <2>1. /\ ~ exposed /\ pc[p] = "truncated" /\ Rewrites(p) /\ pc'[p] = "done"
        /\ UNCHANGED <<view, env, fd>> /\ CommandOf[p] = "newfam"
    BY <1>10 DEF WriteInPlace, Rewrites, InTurn
  <2>2. /\ \A q \in Proc \ {p} : ~ Rewrites(q) /\ ~ Engaged(q)
        /\ Keeps(view[p]) /\ fd[p] = mcp.ino
    BY <2>1 DEF NothingLost
  <2>3. mcp'.has = view[p] \cup {"collab"}
    BY <1>10, <2>2 DEF WriteInPlace, File
  <2>4. Keeps(mcp.has)'
    BY <1>0, <2>1, <2>2, <2>3, Slugs DEF Keeps, Finished, Forge
  <2>5. \A q \in Proc : ~ Rewrites(q)' /\ ~ Engaged(q)'
    BY <1>0, <2>1, <2>2 DEF Rewrites, Engaged, Editing
  <2> QED
    BY <2>4, <2>5 DEF NothingLost, KeptOrOpen, Rewrites, Engaged, Locked, Editing
<1>11. CASE Die(p)
  <2>1. CASE pc[p] = "truncated"
    BY <1>11, <2>1 DEF Die, NothingLost, KeptOrOpen
  <2>2. CASE pc[p] # "truncated"
    BY <1>1, <1>11, <2>2 DEF Die
  <2> QED
    BY <2>1, <2>2
<1> QED
  BY <1>2, <1>3, <1>4, <1>5, <1>6, <1>7, <1>8, <1>9, <1>10, <1>11 DEF Run

-----------------------------------------------------------------------------

\* The worktrees, config.toml and the harness configuration together: the inductive
\* invariant behind what setup, clone and newfam keep.
THEOREM FilesInvariant == Spec => []FInv
<1>1. Init => FInv
  BY Initially, FilesInitially DEF FInv
<1>2. FInv /\ [Next]_vars => FInv'
  <2> SUFFICES ASSUME FInv, [Next]_vars PROVE FInv'
    OBVIOUS
  <2>1. IInv'
    BY Inductive DEF FInv
  <2>2. ASSUME NEW p \in Proc, Run(p) PROVE FInv'
    BY <2>1, <2>2, FilesStayTyped, OneWriterKeeps, InTurnKeeps, ConfigurationKeeps DEF FInv
  <2>3. CASE UNCHANGED vars
    BY <2>1, <2>3 DEF FInv, FilesTyped, OneWriter, InTurn, NothingLost, KeptOrOpen, vars, files,
                      trees, Configured, Rewrites, Locked, Engaged, Keeps, Finished, Forge
  <2> QED
    BY <2>2, <2>3 DEF Next
<1> QED
  BY <1>1, <1>2, PTL DEF Spec

\* Every reachable state of the commands and of the files they write is well typed.
THEOREM TypeCorrect == Spec => []TypeOK
<1>1. FInv => TypeOK
  BY DEF FInv, IInv, Typed, FilesTyped, File, TypeOK, State, Place
<1> QED
  BY <1>1, FilesInvariant, PTL

\* The stanza that a command has written stays in config.toml, wherever commands are
\* killed, unless two had the file loaded at once: WriteConfig is atomic only then.
THEOREM StanzasStay == Spec => []StanzasKept
<1>1. FInv => StanzasKept
  BY DEF FInv, OneWriter, StanzasKept
<1> QED
  BY <1>1, FilesInvariant, PTL

\* Any number of setups and clones, killed anywhere, lose nothing of the operator's
\* harness configuration and undo nothing of each other, unless a newfam writes it
\* beside them or is killed while it does.
THEOREM EditsStay == Spec => []EditsKept
<1>1. FInv => EditsKept
  BY DEF FInv, KeptOrOpen, Keeps, EditsKept
<1> QED
  BY <1>1, FilesInvariant, PTL

-----------------------------------------------------------------------------
(* Worktree: syncs that share one stash.                                    *)

\* An entry of the stash: who pushed it, and what.
Pushed == [by : Tree, what : SUBSET Change]

\* What an agent stashed is its own, but for what a mixed sync gave it.
Homes ==
  /\ \A t \in Tree : \A c \in dirty[t] : HomeOf[c] = t \/ t \in mixed
  /\ \A i \in DOMAIN stash : \A c \in stash[i].what : HomeOf[c] = stash[i].by \/ stash[i].by \in mixed

\* A sync that stashed something and that no other has disturbed has its entry on top.
OnTop ==
  \A t \in Tree : did[t] =>
    /\ wpc[t] # "idle"
    /\ wpc[t] # "popped" /\ t \notin mixed => stash # <<>> /\ stash[1].by = t

SyncInv == W!TypeOK /\ stash \in Seq(Pushed) /\ Homes /\ OnTop

\* Pushing an entry puts it above the others.
LEMMA OnTopOf ==
  ASSUME NEW S, NEW s \in Seq(S), NEW e \in S
  PROVE  /\ <<e>> \o s \in Seq(S) /\ Len(<<e>> \o s) = Len(s) + 1
         /\ <<e>> \o s # <<>> /\ (<<e>> \o s)[1] = e
         /\ \A j \in 2..(Len(s) + 1) : (<<e>> \o s)[j] = s[j - 1]
<1>1. <<e>> \in Seq(S) /\ Len(<<e>>) = 1 /\ <<e>>[1] = e /\ Len(s) \in Nat
  BY LenProperties
<1> DEFINE one == <<e>>
<1>2. /\ one \o s \in Seq(S) /\ Len(one \o s) = Len(s) + 1
      /\ \A j \in 1..(Len(s) + 1) : (one \o s)[j] = IF j <= 1 THEN one[j] ELSE s[j - 1]
  <2>1. one \in Seq(S) /\ Len(one) = 1 /\ 1 + Len(s) = Len(s) + 1
    BY <1>1
  <2> HIDE DEF one
  <2>2. /\ one \o s \in Seq(S) /\ Len(one \o s) = Len(one) + Len(s)
        /\ \A j \in 1..(Len(one) + Len(s)) : (one \o s)[j] = IF j <= Len(one) THEN one[j] ELSE s[j - Len(one)]
    BY <2>1, ConcatProperties
  <2> QED
    BY <1>1, <2>1, <2>2
<1>3. one[1] = e
  BY <1>1
<1> HIDE DEF one
<1>4. one \o s # <<>>
  BY <1>1, <1>2
<1>5. (one \o s)[1] = e
  BY <1>1, <1>2, <1>3
<1>6. \A j \in 2..(Len(s) + 1) : (one \o s)[j] = s[j - 1]
  BY <1>1, <1>2
<1> QED
  BY <1>2, <1>4, <1>5, <1>6 DEF one

\* Removing an entry keeps the entries above it; what is left was there.
LEMMA Removed ==
  ASSUME NEW S, NEW s \in Seq(S), NEW i \in 1..Len(s)
  PROVE  /\ W!RemoveAt(s, i) \in Seq(S)
         /\ Len(W!RemoveAt(s, i)) = Len(s) - 1
         /\ \A j \in 1..(Len(s) - 1) : W!RemoveAt(s, i)[j] = s[IF j < i THEN j ELSE j + 1]
<1>0. Len(s) \in Nat
  BY LenProperties
<1>1. /\ SubSeq(s, 1, i - 1) \in Seq(S) /\ Len(SubSeq(s, 1, i - 1)) = i - 1
      /\ \A j \in 1..(i - 1) : SubSeq(s, 1, i - 1)[j] = s[j]
  <2>1. \A j \in 1..(i - 1) : s[j] \in S
    BY <1>0, ElementOfSeq
  <2> QED
    BY <1>0, <2>1, SubSeqProperties
<1>2. SubSeq(s, i + 1, Len(s)) \in Seq(S) /\ Len(SubSeq(s, i + 1, Len(s))) = Len(s) - i
      /\ \A j \in 1..(Len(s) - i) : SubSeq(s, i + 1, Len(s))[j] = s[i + j]
  <2>1. \A j \in (i + 1)..Len(s) : s[j] \in S
    BY <1>0, ElementOfSeq
  <2> QED
    BY <1>0, <2>1, SubSeqProperties
<1> DEFINE above == SubSeq(s, 1, i - 1)
           below == SubSeq(s, i + 1, Len(s))
<1>3. W!RemoveAt(s, i) = above \o below
  BY DEF W!RemoveAt
<1> HIDE DEF above, below
<1>4. above \in Seq(S) /\ below \in Seq(S) /\ Len(above) = i - 1 /\ Len(below) = Len(s) - i
  BY <1>1, <1>2 DEF above, below
<1>5. /\ above \o below \in Seq(S) /\ Len(above \o below) = Len(above) + Len(below)
      /\ \A j \in 1..(Len(above) + Len(below)) :
           (above \o below)[j] = IF j <= Len(above) THEN above[j] ELSE below[j - Len(above)]
  BY <1>4, ConcatProperties
<1>6. \A j \in 1..(i - 1) : above[j] = s[j]
  BY <1>1 DEF above
<1>7. \A j \in 1..(Len(s) - i) : below[j] = s[i + j]
  BY <1>2 DEF below
<1>8. ASSUME NEW j \in 1..(Len(s) - 1)
      PROVE  (above \o below)[j] = s[IF j < i THEN j ELSE j + 1]
  <2>0. j < i \/ j >= i
    BY <1>0
  <2>1. CASE j < i
    BY <1>0, <1>4, <1>5, <1>6, <2>1
  <2>2. CASE j >= i
    <3>1. (above \o below)[j] = below[j - (i - 1)]
      BY <1>0, <1>4, <1>5, <2>2
    <3>2. j - (i - 1) \in 1..(Len(s) - i) /\ i + (j - (i - 1)) = j + 1
      BY <1>0, <2>2
    <3>3. below[j - (i - 1)] = s[j + 1]
      BY <1>7, <3>2
    <3>4. (IF j < i THEN j ELSE j + 1) = j + 1
      BY <1>0, <2>2
    <3> QED
      BY <3>1, <3>3, <3>4, Zenon
  <2> QED
    BY <2>0, <2>1, <2>2, Zenon
<1> QED
  BY <1>0, <1>3, <1>4, <1>5, <1>8

\* The two halves of TypeOK.
RefsTyped ==
  /\ remote \in 0..MaxCommits /\ fetched \in 0..MaxCommits
  /\ local \in [{"main", "topic"} -> W!Absent..MaxCommits]
  /\ at \in DOMAIN local /\ local[at] # W!Absent /\ own \subseteq DOMAIN local
  /\ wbranch \in [Tree -> 0..MaxCommits]
WorkTyped ==
  /\ made \subseteq Change /\ dirty \in [Tree -> SUBSET made]
  /\ \A i \in DOMAIN stash : stash[i].by \in Tree /\ stash[i].what \subseteq made
  /\ ident \in [Tree -> {"none", "operator", "actor@localhost", "plus"}]
  /\ wiki \in [WikiTree -> {"clean", "dirty", "in stash"}]
  /\ wpc \in [Tree -> W!Stage] /\ did \in [Tree -> BOOLEAN]
  /\ mixed \subseteq Tree
\* An entry of the stash after a step was there before, or is what its owner had.
FromStash(s) ==
  /\ s \in Seq(Pushed)
  /\ \A i \in DOMAIN s : \/ \E k \in DOMAIN stash : s[i] = stash[k]
                         \/ s[i].by \in Tree /\ s[i].what \subseteq dirty[s[i].by]

LEMMA TopEntry ==
  ASSUME SyncInv, stash # <<>>
  PROVE  1 \in DOMAIN stash /\ Head(stash) = stash[1]
<1>1. stash \in Seq(Pushed)
  BY DEF SyncInv
<1> QED
  BY <1>1

\* What a step does to the stash.
LEMMA StashStep ==
  SyncInv /\ [W!Next]_(W!vars) => FromStash(stash')
<1> SUFFICES ASSUME SyncInv, [W!Next]_(W!vars) PROVE FromStash(stash')
  OBVIOUS
<1> USE FleetAssumption DEF SyncInv, W!WorktreeAssumption, W!TypeOK, W!Stage, W!Others, Pushed,
        FromStash, W!refs, W!work
<1>1. ASSUME W!Push PROVE FromStash(stash')
  BY <1>1 DEF W!Push
<1>2. ASSUME NEW c \in Change, W!Edit(c) PROVE FromStash(stash')
  BY <1>2 DEF W!Edit
<1>3. ASSUME NEW t \in Tree, W!WikiEdit(t) PROVE FromStash(stash')
  BY <1>3 DEF W!WikiEdit
<1>4. ASSUME NEW t \in Tree, W!PopByHand(t) PROVE FromStash(stash')
  <2>1. PICK i \in DOMAIN stash : stash' = W!RemoveAt(stash, i)
    BY <1>4 DEF W!PopByHand
  <2>2. stash \in Seq(Pushed) /\ Len(stash) \in Nat /\ DOMAIN stash = 1..Len(stash)
    BY LenProperties
  <2> HIDE DEF SyncInv, W!TypeOK, Pushed
  <2>3. /\ stash' \in Seq(Pushed) /\ Len(stash') = Len(stash) - 1
        /\ \A j \in 1..(Len(stash) - 1) : stash'[j] = stash[IF j < i THEN j ELSE j + 1]
    BY <2>1, <2>2, Removed
  <2>4. DOMAIN stash' = 1..(Len(stash) - 1)
    BY <2>3, LenProperties
  <2>5. ASSUME NEW j \in DOMAIN stash'
        PROVE  \E k \in DOMAIN stash : stash'[j] = stash[k]
    <3>1. (IF j < i THEN j ELSE j + 1) \in DOMAIN stash
      BY <2>2, <2>4
    <3> QED
      BY <2>3, <2>4, <3>1
  <2> QED
    BY <2>3, <2>5
<1>5. ASSUME NEW t \in Tree, W!InitWorktree(t) PROVE FromStash(stash')
  BY <1>5 DEF W!InitWorktree, W!Email
<1>6. ASSUME NEW t \in Tree, W!Stash(t) PROVE FromStash(stash')
  <2> DEFINE what == dirty[t] \ Nested
             e == [by |-> t, what |-> what]
  <2>1. stash' = IF what = {} THEN stash ELSE <<e>> \o stash
    BY <1>6 DEF W!Stash
  <2>2. stash \in Seq(Pushed) /\ e \in Pushed
    OBVIOUS
  <2>3. e.by = t /\ e.what \subseteq dirty[t]
    OBVIOUS
  <2> HIDE DEF SyncInv, W!TypeOK, Pushed, what, e
  <2>4. CASE what = {}
    BY <2>1, <2>2, <2>4
  <2>5. CASE what # {}
    <3>1. /\ stash' \in Seq(Pushed) /\ Len(stash') = Len(stash) + 1 /\ stash'[1] = e
          /\ \A j \in 2..(Len(stash) + 1) : stash'[j] = stash[j - 1]
      BY <2>1, <2>2, <2>5, OnTopOf
    <3>2. DOMAIN stash' = 1..(Len(stash) + 1) /\ DOMAIN stash = 1..Len(stash) /\ Len(stash) \in Nat
      BY <2>2, <3>1, LenProperties
    <3>3. ASSUME NEW j \in DOMAIN stash', j # 1
          PROVE  \E k \in DOMAIN stash : stash'[j] = stash[k]
      <4>1. j \in 2..(Len(stash) + 1) /\ j - 1 \in DOMAIN stash
        BY <3>2, <3>3
      <4> QED
        BY <3>1, <4>1
    <3> QED
      BY <2>3, <3>1, <3>3
  <2> QED
    BY <2>4, <2>5
<1>7. ASSUME NEW t \in Tree, W!Fetch(t) PROVE FromStash(stash')
  BY <1>7 DEF W!Fetch, W!Goto
<1>8. ASSUME NEW t \in Tree, W!FastForward(t) PROVE FromStash(stash')
  BY <1>8 DEF W!FastForward, W!Goto
<1>9. ASSUME NEW t \in Tree, W!FastForwardFails(t) PROVE FromStash(stash')
  BY <1>9 DEF W!FastForwardFails, W!Return, W!Goto
<1>10. ASSUME NEW t \in Tree, W!Merge(t) PROVE FromStash(stash')
  BY <1>10 DEF W!Merge, W!Goto, W!MergeTarget
<1>11. ASSUME NEW t \in Tree, W!MergeFails(t) PROVE FromStash(stash')
  BY <1>11 DEF W!MergeFails, W!Return, W!Goto
<1>12. ASSUME NEW t \in Tree, W!Pop(t) PROVE FromStash(stash')
  <2>1. stash # <<>> /\ stash' = Tail(stash)
    BY <1>12 DEF W!Pop
  <2>2. stash \in Seq(Pushed)
    OBVIOUS
  <2> HIDE DEF SyncInv, W!TypeOK, Pushed
  <2>3. /\ stash' \in Seq(Pushed) /\ Len(stash') = Len(stash) - 1 /\ Len(stash) \in Nat
        /\ \A j \in 1..(Len(stash) - 1) : stash'[j] = stash[j + 1]
    BY <2>1, <2>2, HeadTailProperties, LenProperties
  <2>4. DOMAIN stash' = 1..(Len(stash) - 1) /\ DOMAIN stash = 1..Len(stash)
    BY <2>2, <2>3, LenProperties
  <2>5. ASSUME NEW j \in DOMAIN stash'
        PROVE  \E k \in DOMAIN stash : stash'[j] = stash[k]
    <3>1. j + 1 \in DOMAIN stash
      BY <2>3, <2>4
    <3> QED
      BY <2>3, <2>4, <3>1
  <2> QED
    BY <2>3, <2>5
<1>13. ASSUME NEW t \in Tree, W!PopFails(t) PROVE FromStash(stash')
  BY <1>13 DEF W!PopFails, W!Return, W!Goto
<1>14. ASSUME NEW t \in Tree, W!NoPop(t) PROVE FromStash(stash')
  BY <1>14 DEF W!NoPop, W!Goto
<1>15. ASSUME NEW t \in Tree, W!SyncWiki(t) PROVE FromStash(stash')
  BY <1>15 DEF W!SyncWiki, W!Return, W!Goto
<1>16. ASSUME NEW t \in Tree, W!Die(t) PROVE FromStash(stash')
  BY <1>16 DEF W!Die, W!Return, W!Goto
<1>17. CASE UNCHANGED W!vars
  BY <1>17 DEF W!vars
<1> QED
  BY <1>1, <1>2, <1>3, <1>4, <1>5, <1>6, <1>7, <1>8, <1>9, <1>10, <1>11, <1>12, <1>13, <1>14,
       <1>15, <1>16, <1>17 DEF W!Next, W!Sync

\* Whose is what.
LEMMA HomesStep ==
  SyncInv /\ [W!Next]_(W!vars) => Homes'
<1> SUFFICES ASSUME SyncInv, [W!Next]_(W!vars) PROVE Homes'
  OBVIOUS
<1>m. FromStash(stash')
  BY StashStep
<1> USE FleetAssumption DEF SyncInv, W!WorktreeAssumption, W!TypeOK, W!Stage, W!Others, Pushed,
        Homes, W!refs, W!work
<1>1. ASSUME W!Push PROVE Homes'
  BY <1>1 DEF W!Push
<1>2. ASSUME NEW c \in Change, W!Edit(c) PROVE Homes'
  BY <1>2 DEF W!Edit
<1>3. ASSUME NEW t \in Tree, W!WikiEdit(t) PROVE Homes'
  BY <1>3 DEF W!WikiEdit
<1>4. ASSUME NEW t \in Tree, W!PopByHand(t) PROVE Homes'
  <2>1. PICK i \in DOMAIN stash : stash[i].by = t /\ dirty' = [dirty EXCEPT ![t] = dirty[t] \cup stash[i].what]
    BY <1>4 DEF W!PopByHand
  <2>2. UNCHANGED mixed
    BY <1>4 DEF W!PopByHand
  <2> QED
    BY <1>m, <2>1, <2>2 DEF FromStash
<1>5. ASSUME NEW t \in Tree, W!InitWorktree(t) PROVE Homes'
  BY <1>5 DEF W!InitWorktree, W!Email
<1>6. ASSUME NEW t \in Tree, W!Stash(t) PROVE Homes'
  <2>1. dirty' = [dirty EXCEPT ![t] = dirty[t] \ (dirty[t] \ Nested)] /\ mixed \subseteq mixed'
    BY <1>6 DEF W!Stash
  <2> QED
    BY <1>m, <2>1 DEF FromStash
<1>7. ASSUME NEW t \in Tree, W!Fetch(t) PROVE Homes'
  BY <1>7 DEF W!Fetch, W!Goto
<1>8. ASSUME NEW t \in Tree, W!FastForward(t) PROVE Homes'
  BY <1>8 DEF W!FastForward, W!Goto
<1>9. ASSUME NEW t \in Tree, W!FastForwardFails(t) PROVE Homes'
  BY <1>9 DEF W!FastForwardFails, W!Return, W!Goto
<1>10. ASSUME NEW t \in Tree, W!Merge(t) PROVE Homes'
  BY <1>10 DEF W!Merge, W!Goto, W!MergeTarget
<1>11. ASSUME NEW t \in Tree, W!MergeFails(t) PROVE Homes'
  BY <1>11 DEF W!MergeFails, W!Return, W!Goto
<1>12. ASSUME NEW t \in Tree, W!Pop(t) PROVE Homes'
  <2>1. /\ did[t] /\ wpc[t] = "merged" /\ stash # <<>>
        /\ dirty' = [dirty EXCEPT ![t] = dirty[t] \cup stash[1].what] /\ mixed \subseteq mixed'
    BY <1>12, TopEntry DEF W!Pop, W!MayPop
  <2>2. 1 \in DOMAIN stash
    BY <2>1, TopEntry
  <2>3. \A c \in stash[1].what : HomeOf[c] = t \/ t \in mixed
    BY <2>1, <2>2 DEF OnTop
  <2> QED
    BY <1>m, <2>1, <2>3 DEF FromStash
<1>13. ASSUME NEW t \in Tree, W!PopFails(t) PROVE Homes'
  BY <1>13 DEF W!PopFails, W!Return, W!Goto
<1>14. ASSUME NEW t \in Tree, W!NoPop(t) PROVE Homes'
  BY <1>14 DEF W!NoPop, W!Goto
<1>15. ASSUME NEW t \in Tree, W!SyncWiki(t) PROVE Homes'
  BY <1>15 DEF W!SyncWiki, W!Return, W!Goto
<1>16. ASSUME NEW t \in Tree, W!Die(t) PROVE Homes'
  BY <1>16 DEF W!Die, W!Return, W!Goto
<1>17. CASE UNCHANGED W!vars
  BY <1>17 DEF W!vars
<1> QED
  BY <1>1, <1>2, <1>3, <1>4, <1>5, <1>6, <1>7, <1>8, <1>9, <1>10, <1>11, <1>12, <1>13, <1>14,
       <1>15, <1>16, <1>17 DEF W!Next, W!Sync

\* Who stashed what.
LEMMA OnTopStep ==
  SyncInv /\ [W!Next]_(W!vars) => OnTop'
<1> SUFFICES ASSUME SyncInv, [W!Next]_(W!vars) PROVE OnTop'
  OBVIOUS
<1> USE FleetAssumption DEF SyncInv, W!WorktreeAssumption, W!TypeOK, W!Stage, W!Others, OnTop,
        Pushed, W!refs, W!work
<1>1. ASSUME W!Push PROVE OnTop'
  BY <1>1 DEF W!Push
<1>2. ASSUME NEW c \in Change, W!Edit(c) PROVE OnTop'
  BY <1>2 DEF W!Edit
<1>3. ASSUME NEW t \in Tree, W!WikiEdit(t) PROVE OnTop'
  BY <1>3 DEF W!WikiEdit
<1>4. ASSUME NEW t \in Tree, W!PopByHand(t) PROVE OnTop'
  <2>1. PICK i \in DOMAIN stash : stash[i].by = t /\ stash' = W!RemoveAt(stash, i)
    BY <1>4 DEF W!PopByHand
  <2>2. wpc[t] = "idle" /\ UNCHANGED <<did, wpc, mixed>>
    BY <1>4 DEF W!PopByHand
  <2>3. stash \in Seq(Pushed) /\ OnTop
    OBVIOUS
  <2> HIDE DEF SyncInv, W!TypeOK, OnTop, Pushed
  <2>4. DOMAIN stash = 1..Len(stash) /\ Len(stash) \in Nat
    BY <2>3, LenProperties
  <2>5. /\ stash' \in Seq(Pushed) /\ Len(stash') = Len(stash) - 1
        /\ \A j \in 1..(Len(stash) - 1) : stash'[j] = stash[IF j < i THEN j ELSE j + 1]
    BY <2>1, <2>3, <2>4, Removed
  <2>6. ASSUME NEW u \in Tree, did[u], wpc[u] # "popped", u \notin mixed
        PROVE  stash' # <<>> /\ stash'[1].by = u
    <3>1. stash[1].by = u /\ u # t
      BY <2>2, <2>3, <2>6 DEF OnTop
    <3>2. i > 1 /\ i \in Nat /\ Len(stash) > 1
      BY <2>1, <2>4, <3>1
    <3>3. stash'[1] = stash[1] /\ Len(stash') >= 1
      BY <2>4, <2>5, <3>2
    <3>4. stash' # <<>>
      BY <3>3
    <3> QED
      BY <3>1, <3>3, <3>4
  <2>7. \A u \in Tree : did[u] => wpc[u] # "idle"
    BY <2>3 DEF OnTop
  <2> QED
    BY <2>2, <2>6, <2>7 DEF OnTop
<1>5. ASSUME NEW t \in Tree, W!InitWorktree(t) PROVE OnTop'
  BY <1>5 DEF W!InitWorktree, W!Email
<1>6. ASSUME NEW t \in Tree, W!Stash(t) PROVE OnTop'
  <2> DEFINE what == dirty[t] \ Nested
             e == [by |-> t, what |-> what]
  <2>1. /\ wpc[t] = "idle" /\ wpc' = [wpc EXCEPT ![t] = "ready"] /\ did' = [did EXCEPT ![t] = dirty[t] # {}]
        /\ stash' = IF what = {} THEN stash ELSE <<e>> \o stash
        /\ mixed \subseteq mixed'
        /\ what = {} /\ dirty[t] # {} => t \in mixed'
        /\ what # {} => \A u \in Tree \ {t} : wpc[u] # "idle" /\ did[u] => u \in mixed'
    BY <1>6 DEF W!Stash, W!Goto
  <2>2. /\ stash \in Seq(Pushed) /\ OnTop /\ e \in Pushed
        /\ wpc \in [Tree -> W!Stage] /\ did \in [Tree -> BOOLEAN]
    OBVIOUS
  <2>3. e.by = t
    OBVIOUS
  <2> HIDE DEF SyncInv, W!TypeOK, OnTop, Pushed, what, e
  <2>4. CASE what = {}
    BY <2>1, <2>2, <2>4 DEF OnTop
  <2>5. CASE what # {}
    <3>1. stash' # <<>> /\ stash'[1] = e
      BY <2>1, <2>2, <2>5, OnTopOf
    <3> QED
      BY <2>1, <2>2, <2>3, <2>5, <3>1 DEF OnTop
  <2> QED
    BY <2>4, <2>5
<1>7. ASSUME NEW t \in Tree, W!Fetch(t) PROVE OnTop'
  BY <1>7 DEF W!Fetch, W!Goto
<1>8. ASSUME NEW t \in Tree, W!FastForward(t) PROVE OnTop'
  BY <1>8 DEF W!FastForward, W!Goto
<1>9. ASSUME NEW t \in Tree, W!FastForwardFails(t) PROVE OnTop'
  BY <1>9 DEF W!FastForwardFails, W!Return, W!Goto
<1>10. ASSUME NEW t \in Tree, W!Merge(t) PROVE OnTop'
  BY <1>10 DEF W!Merge, W!Goto, W!MergeTarget
<1>11. ASSUME NEW t \in Tree, W!MergeFails(t) PROVE OnTop'
  BY <1>11 DEF W!MergeFails, W!Return, W!Goto
<1>12. ASSUME NEW t \in Tree, W!Pop(t) PROVE OnTop'
  BY <1>12 DEF W!Pop, W!Goto, W!MayPop
<1>13. ASSUME NEW t \in Tree, W!PopFails(t) PROVE OnTop'
  BY <1>13 DEF W!PopFails, W!Return, W!Goto
<1>14. ASSUME NEW t \in Tree, W!NoPop(t) PROVE OnTop'
  BY <1>14 DEF W!NoPop, W!Goto
<1>15. ASSUME NEW t \in Tree, W!SyncWiki(t) PROVE OnTop'
  BY <1>15 DEF W!SyncWiki, W!Return, W!Goto
<1>16. ASSUME NEW t \in Tree, W!Die(t) PROVE OnTop'
  BY <1>16 DEF W!Die, W!Return, W!Goto
<1>17. CASE UNCHANGED W!vars
  BY <1>17 DEF W!vars
<1> QED
  BY <1>1, <1>2, <1>3, <1>4, <1>5, <1>6, <1>7, <1>8, <1>9, <1>10, <1>11, <1>12, <1>13, <1>14,
       <1>15, <1>16, <1>17 DEF W!Next, W!Sync

\* The types of branches.
LEMMA RefsStep ==
  SyncInv /\ [W!Next]_(W!vars) => RefsTyped'
<1> SUFFICES ASSUME SyncInv, [W!Next]_(W!vars) PROVE RefsTyped'
  OBVIOUS
<1>t. RefsTyped
  BY DEF SyncInv, W!TypeOK, RefsTyped
<1> USE FleetAssumption, <1>t DEF W!WorktreeAssumption, RefsTyped, W!refs, W!work
<1>1. ASSUME W!Push PROVE RefsTyped'
  BY <1>1 DEF W!Push
<1>2. ASSUME NEW c \in Change, W!Edit(c) PROVE RefsTyped'
  BY <1>2 DEF W!Edit
<1>3. ASSUME NEW t \in Tree, W!WikiEdit(t) PROVE RefsTyped'
  BY <1>3 DEF W!WikiEdit
<1>4. ASSUME NEW t \in Tree, W!PopByHand(t) PROVE RefsTyped'
  BY <1>4 DEF W!PopByHand
<1>5. ASSUME NEW t \in Tree, W!InitWorktree(t) PROVE RefsTyped'
  BY <1>5 DEF W!InitWorktree, W!Email
<1>6. ASSUME NEW t \in Tree, W!Stash(t) PROVE RefsTyped'
  BY <1>6 DEF W!Stash, W!Goto
<1>7. ASSUME NEW t \in Tree, W!Fetch(t) PROVE RefsTyped'
  BY <1>7 DEF W!Fetch, W!Goto
<1>8. ASSUME NEW t \in Tree, W!FastForward(t) PROVE RefsTyped'
  <2>1. fetched' = fetched /\ UNCHANGED <<remote, at, own, wbranch>>
    BY <1>8 DEF W!FastForward
  <2>2. local' = [local EXCEPT ![at] = IF fetched > local[at] THEN fetched ELSE local[at]]
    BY <1>8 DEF W!FastForward
  <2>3. fetched \in 0..MaxCommits /\ local[at] \in W!Absent..MaxCommits /\ local[at] # W!Absent
    OBVIOUS
  <2>4. (IF fetched > local[at] THEN fetched ELSE local[at]) \in 0..MaxCommits
    BY <2>3 DEF W!Absent
  <2> QED
    BY <2>1, <2>2, <2>4 DEF W!Absent
<1>9. ASSUME NEW t \in Tree, W!FastForwardFails(t) PROVE RefsTyped'
  BY <1>9 DEF W!FastForwardFails, W!Return, W!Goto
<1>10. ASSUME NEW t \in Tree, W!Merge(t) PROVE RefsTyped'
  <2>1. W!MergeTarget \in 0..MaxCommits
    BY DEF W!MergeTarget, W!Absent
  <2>2. wbranch' = [wbranch EXCEPT ![t] = IF W!MergeTarget > wbranch[t] THEN W!MergeTarget ELSE wbranch[t]]
    BY <1>10 DEF W!Merge
  <2>3. UNCHANGED W!refs
    BY <1>10 DEF W!Merge
  <2> HIDE DEF W!MergeTarget
  <2> QED
    BY <2>1, <2>2, <2>3
<1>11. ASSUME NEW t \in Tree, W!MergeFails(t) PROVE RefsTyped'
  BY <1>11 DEF W!MergeFails, W!Return, W!Goto
<1>12. ASSUME NEW t \in Tree, W!Pop(t) PROVE RefsTyped'
  BY <1>12 DEF W!Pop, W!Goto, W!MayPop
<1>13. ASSUME NEW t \in Tree, W!PopFails(t) PROVE RefsTyped'
  BY <1>13 DEF W!PopFails, W!Return, W!Goto
<1>14. ASSUME NEW t \in Tree, W!NoPop(t) PROVE RefsTyped'
  BY <1>14 DEF W!NoPop, W!Goto
<1>15. ASSUME NEW t \in Tree, W!SyncWiki(t) PROVE RefsTyped'
  BY <1>15 DEF W!SyncWiki, W!Return, W!Goto
<1>16. ASSUME NEW t \in Tree, W!Die(t) PROVE RefsTyped'
  BY <1>16 DEF W!Die, W!Return, W!Goto
<1>17. CASE UNCHANGED W!vars
  BY <1>17 DEF W!vars
<1> QED
  BY <1>1, <1>2, <1>3, <1>4, <1>5, <1>6, <1>7, <1>8, <1>9, <1>10, <1>11, <1>12, <1>13, <1>14,
       <1>15, <1>16, <1>17 DEF W!Next, W!Sync

\* The types of what is edited.
LEMMA WorkStep ==
  SyncInv /\ [W!Next]_(W!vars) => WorkTyped'
<1> SUFFICES ASSUME SyncInv, [W!Next]_(W!vars) PROVE WorkTyped'
  OBVIOUS
<1>m. FromStash(stash')
  BY StashStep
<1> USE FleetAssumption DEF SyncInv, W!WorktreeAssumption, W!TypeOK, W!Stage, W!Others, Pushed,
        WorkTyped, W!refs, W!work
<1>1. ASSUME W!Push PROVE WorkTyped'
  BY <1>1 DEF W!Push
<1>2. ASSUME NEW c \in Change, W!Edit(c) PROVE WorkTyped'
  BY <1>2 DEF W!Edit
<1>3. ASSUME NEW t \in Tree, W!WikiEdit(t) PROVE WorkTyped'
  BY <1>3 DEF W!WikiEdit
<1>4. ASSUME NEW t \in Tree, W!PopByHand(t) PROVE WorkTyped'
  <2>1. dirty' \in [Tree -> SUBSET made]
    BY <1>4 DEF W!PopByHand
  <2> QED
    BY <1>4, <1>m, <2>1 DEF W!PopByHand, FromStash
<1>5. ASSUME NEW t \in Tree, W!InitWorktree(t) PROVE WorkTyped'
  BY <1>5 DEF W!InitWorktree, W!Email
<1>6. ASSUME NEW t \in Tree, W!Stash(t) PROVE WorkTyped'
  <2>1. dirty' \in [Tree -> SUBSET made] /\ did' \in [Tree -> BOOLEAN] /\ wpc' \in [Tree -> W!Stage] /\ mixed' \subseteq Tree
    BY <1>6 DEF W!Stash, W!Goto
  <2> QED
    <3>1. \A i \in DOMAIN stash' : stash'[i].by \in Tree /\ stash'[i].what \subseteq made
      BY <1>m DEF FromStash
    <3>2. UNCHANGED <<made, ident, wiki>>
      BY <1>6 DEF W!Stash
    <3> QED
      BY <2>1, <3>1, <3>2
<1>7. ASSUME NEW t \in Tree, W!Fetch(t) PROVE WorkTyped'
  BY <1>7 DEF W!Fetch, W!Goto
<1>8. ASSUME NEW t \in Tree, W!FastForward(t) PROVE WorkTyped'
  BY <1>8 DEF W!FastForward, W!Goto
<1>9. ASSUME NEW t \in Tree, W!FastForwardFails(t) PROVE WorkTyped'
  BY <1>9 DEF W!FastForwardFails, W!Return, W!Goto
<1>10. ASSUME NEW t \in Tree, W!Merge(t) PROVE WorkTyped'
  BY <1>10 DEF W!Merge, W!Goto, W!MergeTarget
<1>11. ASSUME NEW t \in Tree, W!MergeFails(t) PROVE WorkTyped'
  BY <1>11 DEF W!MergeFails, W!Return, W!Goto
<1>12. ASSUME NEW t \in Tree, W!Pop(t) PROVE WorkTyped'
  <2>1. 1 \in DOMAIN stash /\ Head(stash) = stash[1]
    BY <1>12, TopEntry DEF W!Pop
  <2>2. dirty' \in [Tree -> SUBSET made]
    BY <1>12, <2>1 DEF W!Pop
  <2>3. wpc' \in [Tree -> W!Stage] /\ mixed' \subseteq Tree
    BY <1>12 DEF W!Pop, W!Goto
  <2> QED
    BY <1>12, <1>m, <2>2, <2>3 DEF W!Pop, FromStash
<1>13. ASSUME NEW t \in Tree, W!PopFails(t) PROVE WorkTyped'
  BY <1>13 DEF W!PopFails, W!Return, W!Goto
<1>14. ASSUME NEW t \in Tree, W!NoPop(t) PROVE WorkTyped'
  BY <1>14 DEF W!NoPop, W!Goto
<1>15. ASSUME NEW t \in Tree, W!SyncWiki(t) PROVE WorkTyped'
  BY <1>15 DEF W!SyncWiki, W!Return, W!Goto
<1>16. ASSUME NEW t \in Tree, W!Die(t) PROVE WorkTyped'
  BY <1>16 DEF W!Die, W!Return, W!Goto
<1>17. CASE UNCHANGED W!vars
  BY <1>17 DEF W!vars
<1> QED
  BY <1>1, <1>2, <1>3, <1>4, <1>5, <1>6, <1>7, <1>8, <1>9, <1>10, <1>11, <1>12, <1>13, <1>14,
       <1>15, <1>16, <1>17 DEF W!Next, W!Sync

LEMMA SyncStart ==
  W!Init => SyncInv
<1> SUFFICES ASSUME W!Init PROVE SyncInv
  OBVIOUS
<1> USE FleetAssumption DEF W!WorktreeAssumption, W!Init
<1>1. stash \in Seq(Pushed) /\ DOMAIN stash = {}
  OBVIOUS
<1>2. RefsTyped
  BY DEF RefsTyped, W!Absent
<1>3. WorkTyped
  BY <1>1 DEF WorkTyped, W!Stage
<1>4. Homes /\ OnTop
  BY <1>1 DEF Homes, OnTop
<1> QED
  BY <1>1, <1>2, <1>3, <1>4 DEF SyncInv, W!TypeOK, RefsTyped, WorkTyped

\* The strengthened invariant holds for any worktrees that are synced side by side.
THEOREM SyncInductive == W!Spec => []SyncInv
<1>1. SyncInv /\ [W!Next]_(W!vars) => SyncInv'
  <2> SUFFICES ASSUME SyncInv, [W!Next]_(W!vars) PROVE SyncInv'
    OBVIOUS
  <2>1. RefsTyped' /\ WorkTyped'
    BY RefsStep, WorkStep
  <2>2. W!TypeOK'
    BY <2>1 DEF W!TypeOK, RefsTyped, WorkTyped
  <2>3. stash' \in Seq(Pushed)
    BY StashStep DEF FromStash
  <2> QED
    BY <2>2, <2>3, HomesStep, OnTopStep DEF SyncInv
<1> QED
  BY <1>1, SyncStart, PTL DEF W!Spec

\* What an agent edits stays in its own worktree, unless the syncs overlapped or one of
\* them pushed nothing (worktree.go: SyncWorktree, the stash of the repository).
THEOREM ChangesStayHome == W!Spec => []StaysHome
<1>1. SyncInv => StaysHome
  BY DEF SyncInv, Homes, StaysHome, W!StaysHome
<1> QED
  BY <1>1, SyncInductive, PTL
=============================================================================
