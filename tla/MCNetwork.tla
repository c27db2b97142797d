------------------------------- MODULE MCNetwork ----------------------------
(* The network code, a layer at a time: layer says which one a behaviour   *)
(* is about.  Reception has a few frames, one of which may be too long, in *)
(* a ring of two descriptors and a queue of three.                         *)
EXTENDS EthernetIrq, AddressConfig, Tftp

VARIABLE layer

NetInit ==
  /\ layer \in {"reception", "neighbours", "address", "download"}
  /\ Init /\ AddressInit /\ TftpInit
  /\ CacheInit /\ (layer # "neighbours" => protocol = "arp")

NetNext ==
  /\ UNCHANGED layer
  /\ IF layer = "reception" THEN Next ELSE UNCHANGED vars
  /\ IF layer = "neighbours" THEN CacheNext ELSE UNCHANGED cacheVars
  /\ IF layer = "address" THEN AddressNext ELSE UNCHANGED addressVars
  /\ IF layer = "download" THEN TftpNext ELSE UNCHANGED tftpVars

netVars == <<layer, vars, cacheVars, addressVars, tftpVars>>

(* Of the address configuration only safety is asked.                      *)
NetFairness == WF_vars(IrqReceive \/ IrqClear) /\ WF_vars(Section) /\ TftpFairness

NetSpec == NetInit /\ [][NetNext]_netVars /\ NetFairness

NetTypeOK == TypeOK /\ CacheTypeOK /\ AddressTypeOK /\ TftpTypeOK
=============================================================================
