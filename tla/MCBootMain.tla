----------------------------- MODULE MCBootMain -----------------------------
(* The composed boot loop with the sources that config.c starts with and   *)
(* turns that no state times out on.                                       *)
EXTENDS BootMain

MCDefaultOnly == {[bootcode |-> "sd", startelf |-> "sd", kernel |-> "sd"]}
MCQuickMs == {500}
=============================================================================
