------------------------------ MODULE MCFleet ------------------------------
(* Provision and Worktree for TLC, one or the other: a setup, a clone and a *)
(* newfam, or two worktrees that are synced side by side.                   *)
EXTENDS Provision, TLC, Naturals

\* The worktrees and what is edited in them (module Worktree).
CONSTANTS Tree, Change, Nested, HomeOf, HasEmail, WikiTree, MaxCommits

VARIABLES part,
          remote, fetched, local, at, own, wbranch, dirty, made, stash, ident, wiki,
          wpc, did, mixed

wvars == <<remote, fetched, local, at, own, wbranch, dirty, made, stash, ident, wiki,
           wpc, did, mixed>>

W == INSTANCE Worktree WITH branch <- wbranch, pc <- wpc

ASSUME FleetAssumption == W!WorktreeAssumption

FleetInit ==
  /\ part \in {"sync", "provision"}
  /\ Init /\ W!Init
  /\ part = "provision" => local["main"] = 0 /\ at = "main" /\ own = {}

FleetNext ==
  \/ part = "provision" /\ Next /\ UNCHANGED <<part, wvars>>
  \/ part = "sync" /\ W!Next /\ UNCHANGED <<part, vars>>

FleetSpec == FleetInit /\ [][FleetNext]_<<part, wvars, vars>>

StaysHome == W!StaysHome

\* Values of the constants that are functions.
FleetCommand == "p1" :> "setup" @@ "p2" :> "clone" @@ "p3" :> "newfam"
FleetSlug == "p1" :> "fam" @@ "p2" :> "team" @@ "p3" :> "team"
FleetHome == "other" :> "bob" @@ "edit" :> "ada" @@ "nested" :> "ada"
=============================================================================
