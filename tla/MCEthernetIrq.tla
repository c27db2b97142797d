---------------------------- MODULE MCEthernetIrq ---------------------------
(* Reception of two frames, neither too long, through a ring of two        *)
(* descriptors and a queue of two.                                         *)
EXTENDS EthernetIrq
=============================================================================
