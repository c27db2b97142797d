---------------------------- MODULE MCFsaMonitor ----------------------------
(* The monitor under arbitrary callers, on a short ring and a narrow clock.*)
EXTENDS FsaMonitor

(* Two turns: one below and one above the period of the safety checks.     *)
MCIterationMs == {1000, 5500}
=============================================================================
