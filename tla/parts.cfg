SPECIFICATION SideSpec
CONSTANTS
  Frames = {f1, f2, f3}
  TooLong = {f3}
  NoFrame = NoFrame
  RingSize = 2
  QueueSize = 3
  CounterModulus = 2
  Hosts = {h1, h2}
  Zero = Zero
  Broadcast = Broadcast
  Macs = {m1, m2}
  NoMac = NoMac
  CacheSize = 2
  UsPerSecond = 2
  ArpLimit = 2
  ArpValidity = 1
  NdLimit = 1
  MaxClock = 5
  MaxRetries = 3
  XidModulus = 4
  BlockModulus = 3
  BlockSize = 2
  FileSizes = {1, 4, 9}
  BufferSizes = {4, 7, 10}
  MaxTries = 2
  Capacity = 3
  Repeats = 2
  Strays = 2
  HeapSize = 168
  SizeModulus = 256
  Requests <- MCRequests
  WordModulus = 3
  PowerOnHigh = 2
  Delays = {1, 2}
  Millis = {2}
  UsPerMs = 2
  Tags = {revision, model, odd}
  Refused = {odd}
  MailDepth = 2
  NoTag = NoTag
  TicksPerMs = 3
  TickModulus = 8
  MaxTimeout = 5
  Messages = {m1, m2}
  Greeting = g
  LogLevels = 4
  LogSize = 3
  PerfMax = 3
  PerfClock = 3
  AddressBits = 2
  DataBits = 4
  Iterations = 3
  Faults <- MemoryFaults
  Blobs <- MCBlobs
  Paths <- MCPaths
  PropNames = {"model", "reg", "status"}
  MaxDepth = 2
  Menus <- MCMenus
  DefaultItems = {0, 1, 9}
  CheckedKeys = {kernel}
  AddressKeys = {kernel_address, pi4_kernel_address}
  NumberKeys = {timeout_kernel_loading, enable_usb}
  TimeoutKeys = {timeout_kernel_loading}
  OtherKeys = {network_server}
  Texts <- MCTexts
  RefusedTexts <- MCRefused
  Builtin <- MCBuiltin
  LoadKey = kernel_address
  OverrideKey = pi4_kernel_address
  HighAddress = 64
  LongModulus = 128
  IntModulus = 16
  TableSize = 2
  MaxLines = 3
  TableSlots = 4
  MaxAddress = 6
  Lengths = {0, 1, 5}
  FifoSize = 2
INVARIANTS
  NetTypeOK
  RingConsistent LineServed
  AnswerAnnounced
  PartTypeOK
  Tiling EnoughRoom
  TicksInWindow MailSound
  ResetOnTime ReadsNewest FiguresAddUp
  TestsExact FoundInTree
   DevicesInTable
PROPERTIES
  LineReenabled ImplementsFifo
  ImplementsTransfer DownloadEnds
  HeldBlocksUntouched
  DelayNotEarly DueDelayReturns
  MoveEnds
  TransferEnds
