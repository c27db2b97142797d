SPECIFICATION CacheSpec
CONSTANTS
  Hosts = {h1, h2}
  Zero = Zero
  Broadcast = Broadcast
  Macs = {m1, m2}
  NoMac = NoMac
  CacheSize = 2
  UsPerSecond = 2
  ArpLimit = 2
  ArpValidity = 1
  NdLimit = 1
  MaxClock = 5
INVARIANTS ArpEntriesExpire
