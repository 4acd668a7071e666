---------------------------- MODULE MetaReview -----------------------------
(***************************************************************************)
(* `botfam meta-review` (internal/metareview, cli/review/metareview.go):   *)
(* detectors find candidate risks in an issue or a pull request, a model   *)
(* confirms and phrases them, one advisory comment is posted.              *)
(*                                                                         *)
(* The models answer anything the schema lets through; a model that        *)
(* follows its prompt ("ONLY the candidates you confirm") is `obedient'.   *)
(* The command is run again after an error, and whenever somebody likes.   *)
(***************************************************************************)
EXTENDS Naturals, Sequences, FiniteSets

CONSTANTS Artifact,   \* what may be found at the number under review
          Corpus,     \* checkouts and Lineage pages
          Evidence,   \* phrasings a model may give
          RepoLabels, \* labels the repository has
          MaxRuns,    \* bound on the runs
          None

Mechanical == {"risk/phase-inversion", "risk/superseded"}
PerArtifactLabels == Mechanical \cup {"risk/hollow-validation", "risk/speculative"}
MaxHollow == 3

\* An artifact has its kind, the paths and decisions it refers to, the paths its diff
\* adds, the number of added test lines that assert a literal, and whether it has a
\* speculative cue.  A corpus has the files of the checkout and the retired decisions.
MetaAssumption ==
  /\ \A a \in Artifact : a.kind \in {"issue", "pr"} /\ a.asserts \in Nat /\ a.cue \in BOOLEAN
  /\ MaxRuns \in Nat /\ RepoLabels \subseteq PerArtifactLabels /\ Evidence # {}

Suggestion == [label : PerArtifactLabels, evidence : Evidence, confidence : {"high", "low"}]
Unclean == [label : {"other"}, evidence : Evidence, confidence : {"high"}]

VARIABLES
  artifact, corpus,    \* what is under review
  escalate, apply, dry,\* --escalate, --apply-labels and --dry-run
  obedient,            \* do the models answer only what they are asked?
  pc, seen, found,     \* the driver: its place, the artifact it fetched, its suggestions
  posted,              \* the comments on the artifact: sets of suggestions
  labels,              \* the labels on it
  runs                 \* runs begun

vars == <<artifact, corpus, escalate, apply, dry, obedient, pc, seen, found, posted, labels, runs>>
options == <<corpus, escalate, apply, dry, obedient>>

\* What is known of an artifact with its diff or without.
Diffed(a, diff) == IF diff THEN a ELSE [a EXCEPT !.added = {}, !.asserts = 0]

TypeOK ==
  /\ artifact \in Artifact /\ corpus \in Corpus
  /\ seen = None \/ \E a \in Artifact, diff \in BOOLEAN : seen = Diffed(a, diff)
  /\ pc \in {"idle", "mechanical", "judgment", "compose", "labels"}
  /\ found \subseteq Suggestion /\ labels \subseteq PerArtifactLabels
  /\ \A i \in DOMAIN posted : posted[i] \subseteq Suggestion
  /\ runs \in 0..MaxRuns

-----------------------------------------------------------------------------
(* The detectors.                                                           *)

\* Candidates, by label and what they are about.
PhaseInversion(a, c) == {<<"risk/phase-inversion", p>> : p \in a.paths \ (a.added \cup c.tree)}
Superseded(a, c) == {<<"risk/superseded", d>> : d \in a.decisions \cap c.retired}
HollowValidation(a) ==
  {<<"risk/hollow-validation", "line", i>> :
     i \in 1..(IF a.asserts > MaxHollow THEN MaxHollow ELSE a.asserts)}
Speculative(a) == IF a.cue THEN {<<"risk/speculative", "cue">>} ELSE {}

Detect(a, c) ==
  PhaseInversion(a, c) \cup Superseded(a, c) \cup HollowValidation(a) \cup Speculative(a)

Labels(cands) == {c[1] : c \in cands}
MechanicalOf(cands) == {c \in cands : c[1] \in Mechanical}

JudgmentOf_Bug(cands) == {c \in cands : c[1] \notin Mechanical}

\* Without a stronger model, the judgment that only it can make is not asked for.
JudgmentOf(cands) ==
  {c \in cands : c[1] \notin Mechanical /\ (c[1] = "risk/hollow-validation" => escalate)}

\* What a model may answer when it is asked about the candidates.
Answers(cands) ==
  {s \in SUBSET (Suggestion \cup Unclean) :
     /\ Cardinality(s) <= 2
     /\ obedient => {x.label : x \in s} \subseteq Labels(cands)}

\* ValidateSuggestions drops labels that are not per-artifact ones.
Validated(s) == {x \in s : x.label \in PerArtifactLabels}

\* Without a stronger model the judgment is the local one's, at low confidence.
Clamp(s) == IF escalate THEN s ELSE {[x EXCEPT !.confidence = "low"] : x \in s}

\* One suggestion for a label and its evidence, the confident one if there is one.
Dedupe(s) == {x \in s : x.confidence = "high" \/ [x EXCEPT !.confidence = "high"] \notin s}

-----------------------------------------------------------------------------
(* The driver.                                                              *)

Init ==
  /\ artifact \in Artifact /\ corpus \in Corpus
  /\ escalate \in BOOLEAN /\ apply \in BOOLEAN /\ dry \in BOOLEAN /\ obedient \in BOOLEAN
  /\ pc = "idle" /\ seen = None /\ found = {}
  /\ posted = <<>> /\ labels = {} /\ runs = 0

\* fetchArtifact: the diff of a pull request may be missing, and nobody is told.
Fetch ==
  /\ pc = "idle" /\ runs < MaxRuns /\ runs' = runs + 1
  /\ \E diff \in IF artifact.kind = "pr" THEN BOOLEAN ELSE {FALSE} :
       seen' = Diffed(artifact, diff)
  /\ found' = {} /\ pc' = "mechanical"
  /\ UNCHANGED <<options, artifact, posted, labels>>

Cands == Detect(seen, corpus)

\* The mechanical risks are the local model's; its failure is the run's.
Confirm ==
  /\ pc = "mechanical"
  /\ \/ MechanicalOf(Cands) = {} /\ pc' = "judgment" /\ UNCHANGED found
     \/ /\ MechanicalOf(Cands) # {}
        /\ \E s \in Answers(MechanicalOf(Cands)) : found' = Validated(s)
        /\ pc' = "judgment"
     \/ MechanicalOf(Cands) # {} /\ pc' = "idle" /\ UNCHANGED found
  /\ UNCHANGED <<options, artifact, seen, posted, labels, runs>>

\* The failure of the judgment model drops its candidates.
Judge ==
  /\ pc = "judgment" /\ pc' = "compose"
  /\ \E s \in IF JudgmentOf(Cands) = {} THEN {{}} ELSE Answers(JudgmentOf(Cands)) \cup {{}} :
       found' = Dedupe(found \cup Clamp(Validated(s)))
  /\ UNCHANGED <<options, artifact, seen, posted, labels, runs>>

\* The comment is posted, or not, and the answer may be lost either way.
Post ==
  /\ pc = "compose"
  /\ \/ dry /\ pc' = "idle" /\ UNCHANGED posted
     \/ ~dry /\ posted' = Append(posted, found) /\ pc' = IF apply THEN "labels" ELSE "idle"
     \/ ~dry /\ posted' \in {posted, Append(posted, found)} /\ pc' = "idle"
  /\ UNCHANGED <<options, artifact, seen, found, labels, runs>>

Wanted == {x.label : x \in {y \in found : y.confidence = "high"}} \cap RepoLabels

\* applyHighConfidence: a failure is a warning.
ApplyLabels ==
  /\ pc = "labels" /\ labels' \in {labels, labels \cup Wanted} /\ pc' = "idle"
  /\ UNCHANGED <<options, artifact, seen, found, posted, runs>>

\* Somebody edits the artifact, or pushes to it.
Changes ==
  /\ artifact' \in Artifact
  /\ UNCHANGED <<options, pc, seen, found, posted, labels, runs>>

Next == Fetch \/ Confirm \/ Judge \/ Post \/ ApplyLabels \/ Changes

Spec == Init /\ [][Next]_vars

-----------------------------------------------------------------------------
(* Properties.                                                              *)

\* "so that hollow-validation is never silently trusted" (driver.go:93-96): with models
\* that answer what they are asked, and no stronger model, a hollow validation is never
\* posted, a speculative risk is never posted as certain, and no label but a mechanical
\* one is put on the artifact.  (A model that names a risk it was not asked for is believed.)
NeverSilentlyTrusted ==
  obedient /\ ~escalate =>
    /\ \A i \in DOMAIN posted : \A x \in posted[i] :
         x.label # "risk/hollow-validation" /\ (x.label \in Mechanical \/ x.confidence = "low")
    /\ labels \subseteq Mechanical
=============================================================================
