-------------------------------- MODULE MCCard ------------------------------
(* What the program keeps on the SD card and reads from it: the boot from  *)
(* its file system, or the two sectors of the configuration, with counters *)
(* up to three, where slots switch.                                        *)
EXTENDS MCSdBoot, ConfigPersist

VARIABLE part

PartInit ==
  \/ part = "boot" /\ BootInit /\ ConfigInit /\ primary = Bad
  \/ part = "config" /\ BootInit /\ phase = "loader" /\ ConfigInit

PartNext ==
  /\ \/ part = "boot" /\ BootNext /\ UNCHANGED configVars
     \/ part = "config" /\ ConfigNext /\ UNCHANGED allVars
  /\ UNCHANGED part

PartSpec ==
  PartInit /\ [][PartNext]_<<part, allVars, configVars>> /\ WF_allVars(part = "boot" /\ MainStep)

(* Both parts keep their types.                                            *)
CardTypeOK == TypeOK /\ ConfigTypeOK
=============================================================================
