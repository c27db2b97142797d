------------------------------ MODULE MCSdCard ------------------------------
(* SdCard with short loops; the counters wrap at 8.                        *)
EXTENDS SdCard
=============================================================================
