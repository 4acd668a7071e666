------------------------------ MODULE MCSpool -------------------------------
(* Spool for TLC, in three parts: two hosts and nobody who reads; one host  *)
(* with two readers, for a shorter time; and one host with a thread more    *)
(* than a page has room for, and nobody who reads.                          *)
EXTENDS Spool

CONSTANTS Standby,     \* the host that only the first part has
          Surplus,     \* the thread that only the third part has
          ShortClock,  \* the second part's bound on the clock, and the others' when
                       \* there are more faults than
          LateFaults,  \* in the first part, and any in the third
          ReadFaults,  \* the second part's bound on the faults,
          CrowdFaults  \* and the third's

VARIABLE part

MCInit ==
  /\ Init
  /\ part \in {"ingest", "read", "crowd"}
  /\ part # "crowd" => updated[Surplus] = 0

MCNext ==
  /\ Next /\ UNCHANGED part
  /\ part # "crowd" => updated'[Surplus] = 0
  /\ part # "ingest" => pc'[Standby] = "dead"
  /\ part # "read" => UNCHANGED rpc
  /\ part = "ingest" => clock' <= ShortClock \/ faults' <= LateFaults
  /\ part = "read" => clock' <= ShortClock /\ faults' <= ReadFaults
  /\ part = "crowd" => faults' = 0 \/ (clock' <= ShortClock /\ faults' <= CrowdFaults)

MCSpec == MCInit /\ [][MCNext]_<<vars, part>> /\ Fairness
=============================================================================
