---------------------------- MODULE MCSupervisor ----------------------------
(* Supervisor for TLC.  No symmetry: a run checks a liveness property.      *)
EXTENDS Supervisor
=============================================================================
