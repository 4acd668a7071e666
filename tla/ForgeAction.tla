---------------------------- MODULE ForgeAction -----------------------------
(***************************************************************************)
(* What the outbox promises for each forge action, whatever the retries    *)
(* and restarts: it may be run several times while it has no recorded      *)
(* result, one result of one of those runs is recorded, and from then on   *)
(* it is never run again and the result never changes.                     *)
(***************************************************************************)
EXTENDS Naturals

CONSTANTS Action, Response,
          None   \* no response recorded; not a Response

VARIABLES runs,     \* how often each action was started
          result    \* the recorded response of each action, or None

TypeOK ==
  /\ runs \in [Action -> Nat]
  /\ result \in [Action -> Response \cup {None}]

Init ==
  /\ runs = [a \in Action |-> 0]
  /\ result = [a \in Action |-> None]

Run(a) ==
  /\ result[a] = None
  /\ runs' = [runs EXCEPT ![a] = @ + 1]
  /\ UNCHANGED result

Record(a) ==
  /\ result[a] = None
  /\ runs[a] > 0
  /\ \E r \in Response : result' = [result EXCEPT ![a] = r]
  /\ UNCHANGED runs

Next == \E a \in Action : Run(a) \/ Record(a)

Spec == Init /\ [][Next]_<<runs, result>>
=============================================================================
