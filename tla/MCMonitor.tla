------------------------------ MODULE MCMonitor -----------------------------
(* The monitor in both of its settings: under arbitrary callers, with the  *)
(* boot loop at rest, and driven by the boot loop.  A turn takes one       *)
(* second, or longer than the period of the safety checks.                 *)
EXTENDS BootMain

VARIABLE part

MCIterationMs == {1000, 5500}
DefaultSources == [bootcode |-> "sd", startelf |-> "sd", kernel |-> "sd"]
MCSources == {[DefaultSources EXCEPT !.bootcode = b] : b \in {"sd", "usb", "network"}}

AnyCallers ==
  /\ part = "monitor"
  /\ Init
  /\ source = DefaultSources /\ loop = "stopped" /\ loaded = FALSE

PartInit == AnyCallers \/ (part = "boot" /\ BootInit)

PartNext ==
  /\ \/ part = "monitor" /\ Next /\ UNCHANGED <<source, loop, loaded>>
     \/ part = "boot" /\ BootNext
  /\ UNCHANGED part

(* The fairness of FairSpec and of BootSpec.                               *)
PartSpec ==
  /\ PartInit /\ [][PartNext]_<<part, bootVars>>
  /\ WF_bootVars(part = "monitor" /\ RecoveryStep /\ UNCHANGED <<source, loop, loaded>>)
  /\ WF_bootVars(part = "boot" /\ BootNext)
=============================================================================
