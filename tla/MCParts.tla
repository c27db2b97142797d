------------------------------- MODULE MCParts ------------------------------
(* The layers of the network and the parts that share nothing, in one run: *)
(* side says which of the two a behaviour is about.                        *)
EXTENDS MCNetwork, MCStandalone

VARIABLE side

SideInit ==
  /\ side \in {"network", "standalone"}
  /\ NetInit /\ (side # "network" => layer = "reception")
  /\ PartInit /\ (side # "standalone" => part = "heap")

SideNext ==
  /\ UNCHANGED side
  /\ IF side = "network" THEN NetNext ELSE UNCHANGED netVars
  /\ IF side = "standalone" THEN PartNext ELSE UNCHANGED partVars

SideSpec ==
  /\ SideInit /\ [][SideNext]_<<side, netVars, partVars>>
  /\ NetFairness /\ PartFairness
=============================================================================
