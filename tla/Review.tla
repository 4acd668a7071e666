------------------------------ MODULE Review -------------------------------
(***************************************************************************)
(* `botfam external-review` (cli/review/external_review.go): one prompt    *)
(* with its material, fanned out over the models of several providers, the *)
(* raw reviews and a MANIFEST left in a directory for a consolidator that  *)
(* reads only the directory.                                               *)
(*                                                                         *)
(* The models of a local provider share one goroutine, those of a remote   *)
(* one have a goroutine each.  The directory is named for the second the   *)
(* command started in and for the material, so two commands may share it.  *)
(*                                                                         *)
(* Files are written in place: opened, which truncates them, and filled.   *)
(* For a review and the MANIFEST these are two steps.                      *)
(***************************************************************************)
EXTENDS Naturals, Sequences, FiniteSets, SequencesExt

CONSTANTS Run,       \* commands
          Options,   \* the options a command may be given
          Second,    \* seconds a command may start in
          Slug,      \* the file name slugify makes of each model
          None

Provider == {"ollama", "lmstudio", "openai", "gemini", "anthropic"}
Local == {"ollama", "lmstudio"}
Model == DOMAIN Slug
\* The directory of --out, or one that is named for the second and the material.
Dir == {<<o.out>> : o \in Options} \cup Second \X {"pr", "milestone", "session", "files"}

\* An option record has the directory of --out; the flags pr, milestone and session and
\* the number of material files; the models asked of each provider; the key of the
\* remote providers in the --secrets file, in the configuration and in the environment
\* (None: not there; "": there and empty); and --allow-zero-reviews.
ReviewAssumption ==
  /\ \A o \in Options :
       /\ o.pr \in BOOLEAN /\ o.milestone \in BOOLEAN /\ o.session \in BOOLEAN
       /\ o.files \in Nat /\ o.zero \in BOOLEAN
       /\ DOMAIN o.models \subseteq Provider
       /\ \A p \in DOMAIN o.models : o.models[p] \in Seq(Model) /\ IsInjective(o.models[p])
       /\ {o.file, o.config, o.env} \subseteq {None, "", "key"}
  /\ None \notin Dir

VARIABLES
  opts,      \* the options of each command
  pc,        \* where it is
  dir,       \* its output directory
  job,       \* the state of each review it asked for
  disk,      \* the files: <<directory, name, content>>
  outcome    \* what the command returned

vars == <<opts, pc, dir, job, disk, outcome>>

JobState == {"asked", "writing", "written", "failed", "unwritten", "ran", "skipped", "lost"}

TypeOK ==
  /\ opts \in [Run -> Options]
  /\ pc \in [Run -> {"options", "material", "prompt", "dispatch", "wait", "manifest", "over"}]
  /\ dir \in [Run -> Dir \cup {None}]
  /\ \A r \in Run : \A j \in DOMAIN job[r] : j \in Provider \X Model /\ job[r][j] \in JobState
  /\ \A f, g \in disk : f[1] = g[1] /\ f[2] = g[2] => f = g
  /\ outcome \in [Run -> {"none", "ok", "error", "killed"}]

-----------------------------------------------------------------------------
(* Options.                                                                 *)

Asked(o) == UNION {{p} \X ToSet(o.models[p]) : p \in DOMAIN o.models}

\* The configuration's empty values are dropped; the file's hide the configuration's.
Merged(o) == IF o.file # None THEN o.file ELSE IF o.config = "" THEN None ELSE o.config
Key(o) == IF Merged(o) \notin {None, ""} THEN Merged(o) ELSE o.env
Serves(o, p) == p \in Local \/ Key(o) \notin {None, ""}

HasMaterial(o) == o.files > 0 \/ o.pr \/ o.session \/ o.milestone
Named(o) == IF o.pr THEN "pr" ELSE IF o.milestone THEN "milestone"
            ELSE IF o.session THEN "session" ELSE "files"
\* What is reviewed: another order than the one the directory is named by.
Material(o) == IF o.milestone \/ o.session THEN "session" ELSE IF o.pr THEN "pr" ELSE "files"

\* Writes a file over whatever the directory holds under that name.
Put(r, name, content) ==
  {f \in disk : ~(f[1] = dir[r] /\ f[2] = name)} \cup {<<dir[r], name, content>>}

Content(r, name) == {f[3] : f \in {g \in disk : g[1] = dir[r] /\ g[2] = name}}

Ran(r) == {j \in DOMAIN job[r] : job[r][j] = "ran"}

Fail(r) == pc' = [pc EXCEPT ![r] = "over"] /\ outcome' = [outcome EXCEPT ![r] = "error"]
Goto(r, label) == pc' = [pc EXCEPT ![r] = label] /\ UNCHANGED outcome

-----------------------------------------------------------------------------
(* The command.                                                             *)

Init ==
  /\ opts \in [Run -> Options]
  /\ pc = [r \in Run |-> "options"] /\ dir = [r \in Run |-> None]
  /\ job = [r \in Run |-> <<>>] /\ disk = {} /\ outcome = [r \in Run |-> "none"]

\* A page, the secrets or the prompt cannot be read, or nothing is asked.
Refuse(r) ==
  /\ pc[r] = "options" /\ Fail(r) /\ UNCHANGED <<opts, dir, job, disk>>

Start(r) ==
  /\ pc[r] = "options" /\ HasMaterial(opts[r]) /\ Asked(opts[r]) # {}
  /\ \E s \in Second :
       dir' = [dir EXCEPT ![r] = IF opts[r].out # None THEN <<opts[r].out>> ELSE <<s, Named(opts[r])>>]
  /\ Goto(r, "material") /\ UNCHANGED <<opts, job, disk>>

\* Material files are read and not copied; the session and the pull request are.
Assemble(r) ==
  /\ pc[r] = "material"
  /\ disk' = IF Material(opts[r]) = "files" THEN disk ELSE Put(r, <<Material(opts[r])>>, <<r>>)
  /\ Goto(r, "prompt") /\ UNCHANGED <<opts, dir, job>>

\* What remains when a write fails or is cut short: a part of the file, or, before it
\* was opened, whatever was there.  A part of a MANIFEST names some of the models.
Unfinished(r) ==
  CASE pc[r] = "material" /\ Material(opts[r]) # "files" ->
         {disk, Put(r, <<Material(opts[r])>>, <<"partial">>)}
    [] pc[r] = "prompt" -> {disk, Put(r, <<"combined-prompt">>, <<"partial">>)}
    [] pc[r] = "manifest" ->
         {Put(r, <<"MANIFEST">>, [models |-> S, whole |-> FALSE]) : S \in SUBSET Ran(r)}
    [] OTHER -> {disk}

\* The extraction, the forge, a file or the disk fails.
AssembleFails(r) ==
  /\ pc[r] \in {"material", "prompt"}
  /\ disk' \in Unfinished(r)
  /\ Fail(r) /\ UNCHANGED <<opts, dir, job>>

WritePrompt(r) ==
  /\ pc[r] = "prompt" /\ disk' = Put(r, <<"combined-prompt">>, <<r>>)
  /\ Goto(r, "dispatch") /\ UNCHANGED <<opts, dir, job>>

\* Providers without a key are skipped.
Dispatch(r) ==
  /\ pc[r] = "dispatch"
  /\ job' = [job EXCEPT ![r] = [j \in Asked(opts[r]) |->
               IF Serves(opts[r], j[1]) THEN "asked" ELSE "skipped"]]
  /\ Goto(r, "wait") /\ UNCHANGED <<opts, dir, disk>>

Settled == {"failed", "unwritten", "ran", "skipped"}
\* The models of a local provider are asked one after the other.
MayAnswer(r, j) ==
  /\ pc[r] = "wait" /\ job[r][j] = "asked"
  /\ j[1] \in Local => LET order == opts[r].models[j[1]] IN
       \A i, k \in DOMAIN order :
         order[k] = j[2] /\ i < k => job[r][<<j[1], order[i]>>] \in Settled

FileOf(j) == <<"review", j[1], Slug[j[2]]>>

\* The model answers and the goroutine opens the file, if it can.
Answered(r, j) ==
  /\ MayAnswer(r, j)
  /\ \/ disk' = Put(r, FileOf(j), <<"empty">>) /\ job' = [job EXCEPT ![r][j] = "writing"]
     \/ UNCHANGED disk /\ job' = [job EXCEPT ![r][j] = "lost"]
  /\ UNCHANGED <<opts, pc, dir, outcome>>

\* It fills the file from the start, over what another goroutine with the same file has
\* put there since: all of that, or as much as the answer is long.
WriteReview(r, j) ==
  /\ pc[r] = "wait" /\ job[r][j] = "writing"
  /\ \/ /\ \/ disk' = Put(r, FileOf(j), <<r, j[2]>>)
           \/ Content(r, FileOf(j)) # {<<"empty">>} /\ disk' = Put(r, FileOf(j), <<"mixed">>)
        /\ job' = [job EXCEPT ![r][j] = "written"]
     \/ /\ disk' \in {disk, Put(r, FileOf(j), <<"partial">>)}
        /\ job' = [job EXCEPT ![r][j] = "lost"]
  /\ UNCHANGED <<opts, pc, dir, outcome>>

\* The call fails, times out after five minutes, or gives no choice.
AnswerFails(r, j) ==
  /\ MayAnswer(r, j) /\ job' = [job EXCEPT ![r][j] = "failed"]
  /\ UNCHANGED <<opts, pc, dir, disk, outcome>>

\* The goroutine appends its result under the mutex and is done.
Record(r, j) ==
  /\ pc[r] = "wait" /\ job[r][j] \in {"written", "lost"}
  /\ job' = [job EXCEPT ![r][j] = IF @ = "written" THEN "ran" ELSE "unwritten"]
  /\ UNCHANGED <<opts, pc, dir, disk, outcome>>

MayReport_Bug(r) == \E j \in DOMAIN job[r] : job[r][j] \in Settled

\* wg.Wait.
MayReport(r) == \A j \in DOMAIN job[r] : job[r][j] \in Settled

\* One review file that could not be written fails the command before the MANIFEST.
Report(r) ==
  /\ pc[r] = "wait" /\ MayReport(r)
  /\ \E j \in DOMAIN job[r] : job[r][j] = "unwritten"
  /\ Fail(r) /\ UNCHANGED <<opts, dir, job, disk>>

\* The MANIFEST is opened and truncated.
BeginManifest(r) ==
  /\ pc[r] = "wait" /\ MayReport(r)
  /\ \A j \in DOMAIN job[r] : job[r][j] # "unwritten"
  /\ disk' = Put(r, <<"MANIFEST">>, [models |-> {}, whole |-> FALSE])
  /\ Goto(r, "manifest") /\ UNCHANGED <<opts, dir, job>>

EndManifest(r) ==
  /\ pc[r] = "manifest"
  /\ disk' = Put(r, <<"MANIFEST">>, [models |-> Ran(r), whole |-> TRUE])
  /\ pc' = [pc EXCEPT ![r] = "over"]
  /\ outcome' = [outcome EXCEPT ![r] =
       IF Ran(r) = {} /\ ~opts[r].zero THEN "error" ELSE "ok"]
  /\ UNCHANGED <<opts, dir, job>>

\* It cannot be opened, or not be written to the end.
ManifestFails(r) ==
  /\ pc[r] \in {"wait", "manifest"} /\ MayReport(r)
  /\ \A j \in DOMAIN job[r] : job[r][j] # "unwritten"
  /\ disk' \in Unfinished(r)
  /\ Fail(r) /\ UNCHANGED <<opts, dir, job>>

\* Interrupted at any point.  A review cut short is one whose write fails (WriteReview)
\* before that.
Kill(r) ==
  /\ pc[r] # "over" /\ pc' = [pc EXCEPT ![r] = "over"]
  /\ disk' \in Unfinished(r)
  /\ outcome' = [outcome EXCEPT ![r] = "killed"] /\ UNCHANGED <<opts, dir, job>>

Next ==
  \E r \in Run :
    \/ Refuse(r) \/ Start(r) \/ Assemble(r) \/ AssembleFails(r) \/ WritePrompt(r)
    \/ Dispatch(r) \/ Report(r) \/ BeginManifest(r) \/ EndManifest(r) \/ ManifestFails(r)
    \/ Kill(r)
    \/ \E j \in DOMAIN job[r] :
         Answered(r, j) \/ WriteReview(r, j) \/ AnswerFails(r, j) \/ Record(r, j)

Spec == Init /\ [][Next]_vars

-----------------------------------------------------------------------------
(* Properties.                                                              *)

Alone(r) == \A q \in Run \ {r} : dir[q] # dir[r]
SameFile(r, j) == {k \in DOMAIN job[r] : FileOf(k) = FileOf(j)}
\* Models of a remote provider whose names make one slug write one file side by side.
Shared(r, j) == j[1] \notin Local /\ SameFile(r, j) # {j}

\* The consolidator may go by the MANIFEST, in a directory no other command was given.  A
\* success leaves it whole.  Whenever one is there, also one cut short, each review it
\* names is there, and each that is there is the whole answer of a model that ran and has
\* that file, but for files that remote models share, which may hold a mixture; and a
\* whole MANIFEST names them all.  The prompt beside it is the one they answered.
ManifestTrue ==
  \A r \in Run : dir[r] # None /\ Alone(r) =>
    /\ outcome[r] = "ok" => \E m \in Content(r, <<"MANIFEST">>) : m.whole
    /\ \A m \in Content(r, <<"MANIFEST">>) :
         /\ \A j \in m.models : Content(r, FileOf(j)) # {}
         /\ \A j \in DOMAIN job[r] : \A c \in Content(r, FileOf(j)) :
              /\ \/ \E k \in SameFile(r, j) : job[r][k] = "ran" /\ c = <<r, k[2]>>
                 \/ Shared(r, j) /\ c = <<"mixed">>
              /\ m.whole => \E k \in SameFile(r, j) : k \in m.models
         /\ Content(r, <<"combined-prompt">>) = {<<r>>}
=============================================================================
