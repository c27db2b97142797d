---------------------------- MODULE AddressConfig ---------------------------
(***************************************************************************)
(* How this machine gets an address and a boot file in src/src/network.c:  *)
(* DHCP, BOOTP, PXE and PXE over IPv6, on the UDP of that file.            *)
(*                                                                         *)
(* IPv4 discovery goes to 255.255.255.255.  network_send_udp asks for the  *)
(* link address of every destination, and network_arp_request refuses that *)
(* one (NeighbourCache, Usable); so each try fails before anything is sent *)
(* and the code behind a successful send has no state to start from.       *)
(***************************************************************************)
EXTENDS NeighbourCache

CONSTANTS
  MaxRetries,   \* NETWORK_MAX_RETRIES
  XidModulus    \* 2^32: dhcp_xid is a uint32_t

ASSUME RetryAssumption == MaxRetries \in Nat \ {0} /\ XidModulus \in Nat \ {0}

VARIABLES
  discovery,  \* the running call: "none", "dhcp", "bootp" or "pxe"
  tries,      \* its retries
  dhcp_xid,
  config,     \* what the caller's network_config_t was filled in by
  result,     \* what the last call returned: "none", "ok" or "failed"
  sent        \* ghost: the requests that have left the machine

addressVars == <<discovery, tries, dhcp_xid, config, result, sent>>

AddressInit ==
  /\ discovery = "none" /\ tries = 0
  /\ dhcp_xid = 0
  /\ config = "blank"
  /\ result = "none"
  /\ sent = {}

NextXid == (dhcp_xid + 1) % XidModulus

(* A call with a MAC that validate_mac_address takes, or refuses.  DHCP    *)
(* draws one transaction id for its tries, the others one for each.        *)
Discover(protocolName) ==
  /\ discovery = "none"
  /\ \/ /\ discovery' = protocolName
        /\ tries' = 0
        /\ dhcp_xid' = IF protocolName = "dhcp" THEN NextXid ELSE dhcp_xid
        /\ result' = "none"
     \/ /\ result' = "failed"
        /\ UNCHANGED <<discovery, tries, dhcp_xid>>
  /\ UNCHANGED <<config, sent>>

(* network_send_udp, as far as the link address: the datagram goes out if  *)
(* the destination may be asked for.                                       *)
SendUdp(destination) ==
  sent' = IF Usable(destination) THEN sent \cup {destination} ELSE sent

(* One try.  The wait of 100 ms changes nothing.                           *)
TryDiscover ==
  /\ discovery # "none" /\ tries < MaxRetries
  /\ SendUdp(Broadcast)
  /\ dhcp_xid' = IF discovery = "dhcp" THEN dhcp_xid ELSE NextXid
  /\ tries' = tries + 1
  /\ UNCHANGED <<discovery, config, result>>

GiveUp ==
  /\ discovery # "none" /\ tries = MaxRetries
  /\ discovery' = "none" /\ tries' = 0
  /\ result' = "failed"
  /\ UNCHANGED <<dhcp_xid, config, sent>>

(* network_ipv6_pxe_discover builds its frame itself, and fills in the     *)
(* configuration without waiting for an answer: an address and a file, no  *)
(* server.  The transmit ring may be full, the MAC may be refused.         *)
Discover6 ==
  /\ discovery = "none"
  /\ \/ config' = "ipv6" /\ result' = "ok" /\ sent' = sent \cup {"solicit"}
     \/ result' = "failed" /\ UNCHANGED <<config, sent>>
  /\ UNCHANGED <<discovery, tries, dhcp_xid>>

(* network_pxe_boot: with a file to ask for, the server is boot_server or  *)
(* the gateway, both 0.0.0.0 still, which TFTP refuses.  The -1 it returns *)
(* passes nbp_size <= 0 as an unsigned number, and is returned as it came. *)
PxeBoot ==
  /\ discovery = "none"
  /\ result' = "failed"
  /\ UNCHANGED <<discovery, tries, dhcp_xid, config, sent>>

(* network_ipv6_pxe_boot loads nothing and reports 1024 bytes.             *)
Pxe6Boot ==
  /\ discovery = "none"
  /\ result' = IF config = "blank" THEN "failed" ELSE "ok"
  /\ UNCHANGED <<discovery, tries, dhcp_xid, config, sent>>

(* network_dns_resolve has no server to ask, and network_http_get ends in  *)
(* -1 on every path.                                                       *)
AskByName ==
  /\ discovery = "none"
  /\ result' = "failed"
  /\ UNCHANGED <<discovery, tries, dhcp_xid, config, sent>>

AddressNext ==
  \/ \E p \in {"dhcp", "bootp", "pxe"} : Discover(p)
  \/ TryDiscover \/ GiveUp
  \/ Discover6 \/ PxeBoot \/ Pxe6Boot \/ AskByName

(* A call runs on by itself: each of its tries ends.                       *)
AddressFairness == WF_addressVars(TryDiscover \/ GiveUp)

AddressSpec == AddressInit /\ [][AddressNext]_addressVars /\ AddressFairness

-----------------------------------------------------------------------------
AddressTypeOK ==
  /\ discovery \in {"none", "dhcp", "bootp", "pxe"}
  /\ tries \in 0 .. MaxRetries
  /\ dhcp_xid \in 0 .. (XidModulus - 1)
  /\ config \in {"blank", "ipv6"}
  /\ result \in {"none", "ok", "failed"}
  /\ sent \subseteq {"solicit", Broadcast}

(* docs/ENHANCEMENTS.md: "Real DHCP address acquisition from network".  A  *)
(* discovery that has used up its tries has asked somebody.                *)
DiscoveryAsks == tries = MaxRetries => Broadcast \in sent
=============================================================================
