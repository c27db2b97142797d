SPECIFICATION NetSpec
CONSTANTS
  Frames = {f1, f2, f3}
  TooLong = {f3}
  NoFrame = NoFrame
  RingSize = 2
  QueueSize = 3
  CounterModulus = 2
  Hosts = {h1, h2}
  Zero = Zero
  Broadcast = Broadcast
  Macs = {m1, m2}
  NoMac = NoMac
  CacheSize = 2
  UsPerSecond = 2
  ArpLimit = 2
  ArpValidity = 1
  NdLimit = 1
  MaxClock = 5
  MaxRetries = 3
  XidModulus = 4
  BlockModulus = 3
  BlockSize = 2
  FileSizes = {1, 4, 9}
  BufferSizes = {4, 7, 10}
  MaxTries = 2
  Capacity = 3
  Repeats = 2
  Strays = 2
INVARIANTS DiscoveryAsks
