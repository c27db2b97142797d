------------------------------ MODULE MCSdBoot ------------------------------
(* SdBoot with a root directory of two sectors, in which an old entry      *)
(* stands before the kernel, and a kernel of two clusters whose last       *)
(* sector is not full.  The driver's loops are short.                      *)
EXTENDS SdBoot

Directory == << <<"other", "deleted">>, <<"kernel", "end">> >>
Entries == Directory[1] \o Directory[2]

InARow == <<5, 6>>

(* A card that the loader is right about.                                  *)
ASSUME CardAssumption == RunOfClusters /\ RootInSight
=============================================================================
