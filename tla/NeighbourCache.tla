--------------------------- MODULE NeighbourCache ---------------------------
(***************************************************************************)
(* The two caches of link addresses in src/src/network.c: ARP for IPv4 and *)
(* neighbour discovery for IPv6.  Each is an array with a count; answers   *)
(* are appended without looking for an older one, the first match is used, *)
(* and an entry that is found to be stale is replaced by the last one.     *)
(*                                                                         *)
(* Nothing is received while a lookup waits, so a call is one step.  The   *)
(* program hands the packets it receives to the two process functions.     *)
(***************************************************************************)
EXTENDS Naturals, FiniteSetsExt

CONSTANTS
  Hosts,        \* the addresses of other hosts
  Zero,         \* 0.0.0.0, which the address and the gateway of this one stay
  Broadcast,    \* 255.255.255.255
  Macs,         \* link addresses
  NoMac,        \* what an unused slot or a failed lookup has
  CacheSize,    \* ARP_CACHE_SIZE and ND_CACHE_SIZE
  UsPerSecond,  \* 1000000
  ArpLimit,     \* 600000, the limit of the ARP cache
  ArpValidity,  \* ten minutes, in seconds: the limit its comment states
  NdLimit,      \* 600 seconds
  MaxClock      \* bound on the time the model runs

ASSUME HostAssumption == Zero \notin Hosts /\ Broadcast \notin Hosts /\ NoMac \notin Macs
ASSUME CacheAssumption ==
  /\ CacheSize \in Nat \ {0} /\ UsPerSecond \in Nat \ {0}
  /\ {ArpLimit, ArpValidity} \subseteq Nat /\ NdLimit \in Nat /\ MaxClock \in Nat

VARIABLES
  protocol,    \* "arp" or "nd": the two caches share nothing, so one at a time
  now,         \* timer_get_counter, in microseconds
  cache,       \* arp_cache or nd_cache, with its count
  answer,      \* what the last lookup found
  announced    \* ghost: the pairs that hosts have announced

cacheVars == <<protocol, now, cache, answer, announced>>

Slot == [ip: Hosts \cup {Zero}, mac: Macs \cup {NoMac}, timestamp: Nat]
UnusedSlot == [ip |-> Zero, mac |-> NoMac, timestamp |-> 0]
EmptyCache == [entries |-> [i \in 1 .. CacheSize |-> UnusedSlot], count |-> 0]
NoAnswer == [ip |-> Zero, mac |-> NoMac]

CacheInit ==
  /\ protocol \in {"arp", "nd"}
  /\ now = 0
  /\ cache = EmptyCache
  /\ answer = NoAnswer
  /\ announced = {}

-----------------------------------------------------------------------------
(* The slots in use that hold ip, and the one the loops stop at.           *)
Matches(c, ip) == {i \in 1 .. c.count : c.entries[i].ip = ip}
FirstMatch(c, ip) == Min(Matches(c, ip))
MacOf(c, ip) == IF Matches(c, ip) = {} THEN NoMac ELSE c.entries[FirstMatch(c, ip)].mac

(* Replies are stamped in seconds.                                         *)
Stamp == now \div UsPerSecond
Appended(ip, mac) ==
  [entries |-> [cache.entries EXCEPT ![cache.count + 1] =
                  [ip |-> ip, mac |-> mac, timestamp |-> Stamp]],
   count |-> cache.count + 1]

(* cache[i] = cache[--count]: the slot behind the end keeps its contents.  *)
WithoutMatch(ip) ==
  IF Matches(cache, ip) = {} THEN cache
  ELSE [entries |-> [cache.entries EXCEPT ![FirstMatch(cache, ip)] = cache.entries[cache.count]],
        count |-> cache.count - 1]

(* validate_ip_address, for the addresses that matter here.                *)
Usable(ip) == ip \notin {Zero, Broadcast}

Hear(ip, mac) == announced' = announced \cup {<<ip, mac>>}

-----------------------------------------------------------------------------
(* network_process_arp_packet, a reply: kept if there is room.  (A request *)
(* for this host is answered, and nothing is kept of it.)                  *)
network_process_arp_packet(ip, mac) ==
  /\ protocol = "arp"
  /\ Hear(ip, mac)
  /\ cache' = IF cache.count < CacheSize THEN Appended(ip, mac) ELSE cache
  /\ UNCHANGED <<protocol, now, answer>>

(* network_arp_request: the cache, or a request and a second of waiting in *)
(* which no reply is looked at.  The lookup takes the seconds of the stamp *)
(* from its own microseconds: what it compares with the limit is the time  *)
(* since power-on, less next to nothing.  The gateway, whose answer would  *)
(* be made up, is 0.0.0.0 and was refused before.                          *)
ArpFresh(ip) ==
  (now - cache.entries[FirstMatch(cache, ip)].timestamp) \div UsPerSecond < ArpLimit

network_arp_request(ip) ==
  /\ protocol = "arp"
  /\ IF ~Usable(ip)
     THEN answer' = [ip |-> ip, mac |-> NoMac] /\ UNCHANGED <<now, cache>>
     ELSE IF Matches(cache, ip) # {} /\ ArpFresh(ip)
     THEN answer' = [ip |-> ip, mac |-> MacOf(cache, ip)] /\ UNCHANGED <<now, cache>>
     ELSE /\ answer' = [ip |-> ip, mac |-> NoMac]
          /\ cache' = WithoutMatch(ip)
          /\ now' \in {now, now + UsPerSecond}    \* the ring is full, or the wait
  /\ UNCHANGED <<protocol, announced>>

(* Mutant: an advertisement is counted in either case.                     *)
MutCountAll(ip, mac) ==
  /\ protocol = "nd"
  /\ IF mac = NoMac THEN UNCHANGED announced ELSE Hear(ip, mac)
  /\ cache' = IF cache.count = CacheSize THEN cache
              ELSE [cache EXCEPT !.entries[cache.count + 1].ip = ip,
                                 !.entries[cache.count + 1].mac = IF mac = NoMac THEN @ ELSE mac,
                                 !.count = @ + 1]
  /\ UNCHANGED <<protocol, now, answer>>

(* network_ipv6_process_nd, an advertisement with or without the option    *)
(* that holds the link address.  The address is written to the free slot   *)
(* in either case; the slot is counted only if the option is there.        *)
network_ipv6_process_nd(ip, mac) ==
  /\ protocol = "nd"
  /\ IF mac = NoMac THEN UNCHANGED announced ELSE Hear(ip, mac)
  /\ cache' = IF cache.count = CacheSize THEN cache
              ELSE IF mac # NoMac THEN Appended(ip, mac)
              ELSE [cache EXCEPT !.entries[cache.count + 1].ip = ip]
  /\ UNCHANGED <<protocol, now, answer>>

(* network_ipv6_resolve_mac: after the solicitation the cache is looked at *)
(* again, and now the age does not matter.                                 *)
NdFresh(ip) ==
  (now - cache.entries[FirstMatch(cache, ip)].timestamp * UsPerSecond) \div UsPerSecond < NdLimit

network_ipv6_resolve_mac(ip) ==
  /\ protocol = "nd"
  /\ IF Matches(cache, ip) # {} /\ NdFresh(ip)
     THEN answer' = [ip |-> ip, mac |-> MacOf(cache, ip)] /\ UNCHANGED cache
     ELSE /\ cache' = WithoutMatch(ip)
          /\ \/ answer' = [ip |-> ip, mac |-> MacOf(cache', ip)]
             \/ answer' = [ip |-> ip, mac |-> NoMac]         \* the ring is full
  /\ UNCHANGED <<protocol, now, announced>>

TimePasses ==
  /\ now < MaxClock
  /\ now' = now + 1
  /\ UNCHANGED <<protocol, cache, answer, announced>>

ArpReply == \E ip \in Hosts, mac \in Macs : network_process_arp_packet(ip, mac)
ArpLookup == \E ip \in Hosts \cup {Broadcast} : now < MaxClock /\ network_arp_request(ip)
NdAdvert == \E ip \in Hosts, mac \in Macs \cup {NoMac} : network_ipv6_process_nd(ip, mac)
NdLookup == \E ip \in Hosts : network_ipv6_resolve_mac(ip)

CacheNext == ArpReply \/ ArpLookup \/ NdAdvert \/ NdLookup \/ TimePasses
CacheSpec == CacheInit /\ [][CacheNext]_cacheVars

-----------------------------------------------------------------------------
CacheTypeOK ==
  /\ protocol \in {"arp", "nd"} /\ now \in Nat
  /\ cache \in [entries: [1 .. CacheSize -> Slot], count: 0 .. CacheSize]
  /\ answer \in [ip: Hosts \cup {Zero, Broadcast}, mac: Macs \cup {NoMac}]
  /\ announced \subseteq Hosts \X Macs

(* A lookup that succeeds returns a link address that a host announced for *)
(* that very address: through any order of answers, stale entries that are *)
(* replaced by the last one, and half-written slots behind the end.        *)
AnswerAnnounced == answer.mac # NoMac => <<answer.ip, answer.mac>> \in announced

(* network.c:183, "Check if entry is still valid (10 minutes)": an entry   *)
(* that the lookup takes for valid is less than ten minutes old.           *)
ArpEntriesExpire ==
  \A ip \in Hosts :
    protocol = "arp" /\ Matches(cache, ip) # {} /\ ArpFresh(ip) =>
      Stamp - cache.entries[FirstMatch(cache, ip)].timestamp < ArpValidity
=============================================================================
