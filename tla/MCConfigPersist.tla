--------------------------- MODULE MCConfigPersist --------------------------
(* The configuration store on a card that reads and writes without errors. *)
EXTENDS ConfigPersist
=============================================================================
