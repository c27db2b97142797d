------------------------------- MODULE SdBoot -------------------------------
(***************************************************************************)
(* The bootloader that the Makefile builds: main of src/src/main.c with    *)
(* the FAT half of src/src/sd.c on top of SdCard.  main calls sd_init,     *)
(* fat_init and fat_read_file once each, tries the heap and idles.         *)
(*                                                                         *)
(* A sector of a directory is a sequence of entries, each "other",         *)
(* "deleted", "kernel" (kernel8.img) or "end"; a sector of a file is       *)
(* named by its cluster and its place in the cluster.                      *)
(*                                                                         *)
(* fat_init reads 512 bytes into a heap block of the 52 bytes of           *)
(* fat_boot_sector_t, and bytes 56 to 79 of the boot sector replace the    *)
(* header of the block that follows, size, free and next.  On a FAT32      *)
(* volume these are reserved bytes, the drive number and eight bytes of    *)
(* the label.                                                              *)
(***************************************************************************)
EXTENDS SdCard, Sequences

CONSTANTS
  Scanned,         \* the entries of the sectors that follow the start of the
                   \* root directory on the disk, as many as fat_read_file
                   \* looks at: 16
  RootDirectory,   \* the entries of the root directory along its chain
  Chain,           \* the clusters of kernel8.img in the order of the FAT
  FileBytes,       \* its size
  SectorBytes,     \* 512
  ClusterSectors,  \* sectors_per_cluster of the disk
  EndOfChain,      \* 0x0FFFFFF8: cluster numbers from here on name no cluster
  FirstPhases,     \* "sd" for main, "loader" for the loop of the full
                   \* bootloader, which only calls sd_init, until it succeeds
  Headers          \* what those bytes of the boot sector may be as a header:
                   \* a free block with "room", one without and the "end" of
                   \* the chain, or one without and a "wild" pointer

ASSUME DiskAssumption ==
  /\ Scanned \in Seq(Seq({"other", "deleted", "kernel", "end"}))
  /\ EndOfChain \in Nat /\ Chain \in Seq(2..(EndOfChain - 1)) /\ Chain # <<>>
  /\ {FileBytes, SectorBytes, ClusterSectors} \subseteq Nat \ {0}
  /\ FileBytes <= Len(Chain) * ClusterSectors * SectorBytes
  /\ Headers \subseteq {"room", "end", "wild"} /\ Headers # {}
  /\ FirstPhases \subseteq {"sd", "loader"}

VARIABLES
  phase,      \* where the program is: "loader", or main in "sd", "mount", "open", "dir", "data", "test",
              \* "idle", or "crashed" in an exception nobody handles
  volume,     \* boot_sector and what fat_init took from it: "none" (NULL),
              \* the geometry of the "disk", or "junk"
  held,       \* the heap blocks that the FAT code holds
  header,     \* of the free block behind them: the heap's "own", or overwritten
  looked,     \* i of fat_read_file: root sectors looked at
  place,      \* current_cluster and s of fat_read_file
  left,       \* bytes_remaining
  memory,     \* what stands at load_addr: the pieces copied so far
  status,     \* how the boot went: "none", "no_card", "no_fat", "not_found",
              \* "read_failed" or "loaded"
  muddled     \* ghost: has a read returned 0 without the sector's data?

bootVars == <<phase, volume, held, header, looked, place, left, memory, status, muddled>>
allVars == <<sdVars, bootVars>>

-----------------------------------------------------------------------------
BootInit ==
  /\ SdInit
  /\ phase \in FirstPhases /\ volume = "none" /\ held = 0 /\ header = "own" /\ looked = 0
  /\ place = [cluster |-> 0, sector |-> 0] /\ left = 0 /\ memory = <<>>
  /\ status = "none" /\ muddled = FALSE

(* main calls sd_init once; the handler of BOOTCODE_LOADING calls it again *)
(* after a failure.                                                        *)
CallSdInit ==
  /\ \/ phase = "sd" /\ result = "none"
     \/ phase = "loader" /\ result \in {"none", "failed"}
  /\ Begin
  /\ UNCHANGED bootVars

SdInitRuns == SdStep /\ UNCHANGED bootVars

(* Mutant: main calls sd_init until it succeeds.                           *)
MutInitRepeated ==
  /\ phase = "sd" /\ step = "idle" /\ result # "none"
  /\ IF result = "ok" THEN phase' = "mount" /\ UNCHANGED result
                      ELSE result' = "none" /\ UNCHANGED phase
  /\ UNCHANGED <<initialized, rca, resp0, step, tries, card, trouble, volume, held, header,
                 looked, place, left, memory, status, muddled>>

(* main goes on to mount a volume, or without a card.                      *)
CardInitialized ==
  /\ phase = "sd" /\ step = "idle" /\ result # "none"
  /\ IF result = "ok" THEN phase' = "mount" /\ UNCHANGED status
                      ELSE phase' = "test" /\ status' = "no_card"
  /\ UNCHANGED <<sdVars, volume, held, header, looked, place, left, memory, muddled>>

ReadOutcomes == {ReadOutcome(x, d) : x \in Exchanges, d \in Transfers}

Leave(why) == phase' = "test" /\ status' = why

(* The heap of main holds next to nothing, so malloc finds room if it gets *)
(* to the free block; else it returns NULL or follows a wild pointer.      *)
MallocWorks == header \in {"own", "room"}

(* fat_init: the boot sector, read past the end of its block.              *)
Mount(outcome, bytes) ==
  /\ phase = "mount"
  /\ IF MallocWorks /\ outcome # "failed"
     THEN /\ held' = held + 1
          /\ volume' = IF outcome = "data" THEN "disk" ELSE "junk"
          /\ outcome = "data" => bytes \in Headers
          /\ header' = bytes
          /\ phase' = "open" /\ UNCHANGED status
          /\ muddled' = (muddled \/ outcome = "junk")
     ELSE Leave("no_fat") /\ UNCHANGED <<volume, held, header, muddled>>
  /\ UNCHANGED <<sdVars, looked, place, left, memory>>

(* fat_read_file up to the loop: the directory buffer.                     *)
Open ==
  /\ phase = "open"
  /\ CASE header = "wild" -> phase' = "crashed" /\ UNCHANGED <<held, looked, status>>
       [] ~(initialized /\ volume # "none" /\ MallocWorks) /\ header # "wild" ->
            Leave("read_failed") /\ UNCHANGED <<held, looked>>
       [] OTHER -> phase' = "dir" /\ held' = held + 1 /\ looked' = 0 /\ UNCHANGED status
  /\ UNCHANGED <<sdVars, volume, header, place, left, memory, muddled>>

(* The first entry that ends the search in a sector, else "next".          *)
FirstHit(entries) ==
  LET hits == {n \in DOMAIN entries : entries[n] \in {"kernel", "end"}}
  IN IF hits = {} THEN "next" ELSE entries[CHOOSE n \in hits : \A m \in hits : n <= m]

(* What the search may see: of a sector of the disk, or of anything.       *)
Hits(outcome) ==
  IF outcome = "data" /\ volume = "disk" THEN {FirstHit(Scanned[looked + 1])}
  ELSE {"next", "kernel", "end"}

(* Mutant of ReleaseBuffer: the buffer is not freed.                       *)
MutBufferLeaks == UNCHANGED held

ReleaseBuffer == held' = held - 1

(* One sector of the search.  An entry found in a sector that was not read *)
(* sends the copying anywhere.                                             *)
Search(outcome, hit, cluster, bytes) ==
  /\ phase = "dir" /\ looked < Len(Scanned)
  /\ outcome # "failed" => hit \in Hits(outcome)
  /\ outcome = "data" /\ volume = "disk" => cluster = Chain[1] /\ bytes = FileBytes
  /\ muddled' = (muddled \/ outcome = "junk")
  /\ CASE outcome = "failed" -> /\ Leave("read_failed") /\ ReleaseBuffer
                                /\ UNCHANGED <<looked, place, left>>
       [] outcome # "failed" /\ hit = "end" -> /\ Leave("not_found") /\ ReleaseBuffer
                                               /\ UNCHANGED <<looked, place, left>>
       [] outcome # "failed" /\ hit = "next" -> /\ looked' = looked + 1
                                                /\ UNCHANGED <<phase, status, held, place, left>>
       [] OTHER -> /\ phase' = "data" /\ left' = bytes
                   /\ place' = [cluster |-> cluster, sector |-> 0]
                   /\ UNCHANGED <<looked, status, held>>
  /\ UNCHANGED <<sdVars, volume, header, memory>>

(* All the sectors were looked at.                                         *)
SearchEnds ==
  /\ phase = "dir" /\ looked = Len(Scanned)
  /\ Leave("not_found") /\ ReleaseBuffer
  /\ UNCHANGED <<sdVars, volume, header, looked, place, left, memory, muddled>>

(* Mutant of NextPlace: one sector too many of each cluster.               *)
MutOneSectorMore ==
  IF place.sector < ClusterSectors THEN [place EXCEPT !.sector = @ + 1]
  ELSE [cluster |-> place.cluster + 1, sector |-> 0]

(* The next sector of the cluster, and then the next cluster number: the   *)
(* FAT is not consulted.                                                   *)
NextPlace ==
  IF place.sector + 1 < ClusterSectors THEN [place EXCEPT !.sector = @ + 1]
  ELSE [cluster |-> place.cluster + 1, sector |-> 0]

Piece(remaining) == IF remaining > SectorBytes THEN SectorBytes ELSE remaining

(* One sector of the file.                                                 *)
CopySector(outcome) ==
  /\ phase = "data" /\ left > 0 /\ place.cluster < EndOfChain
  /\ IF outcome = "failed"
     THEN /\ Leave("read_failed") /\ ReleaseBuffer
          /\ UNCHANGED <<place, left, memory, muddled>>
     ELSE LET n == Piece(left)
          IN /\ memory' = Append(memory, [at |-> place, bytes |-> n])
             /\ left' = left - n /\ place' = NextPlace
             /\ muddled' = (muddled \/ outcome = "junk")
             /\ UNCHANGED <<phase, status, held>>
  /\ UNCHANGED <<sdVars, volume, header, looked>>

(* The file is in memory, or the cluster numbers have run out.             *)
CopyEnds ==
  /\ phase = "data" /\ (left = 0 \/ place.cluster >= EndOfChain)
  /\ Leave("loaded") /\ ReleaseBuffer
  /\ UNCHANGED <<sdVars, volume, header, looked, place, left, memory, muddled>>

(* The rest of main: malloc and free of 1 KB, the LED, the banner.         *)
TryHeap ==
  /\ phase = "test"
  /\ phase' = IF header = "wild" THEN "crashed" ELSE "idle"
  /\ UNCHANGED <<sdVars, volume, held, header, looked, place, left, memory, status, muddled>>

(* while (1) wfi, a processor lost in an exception, and the rest of the    *)
(* full bootloader.                                                        *)
Idle ==
  /\ \/ phase \in {"idle", "crashed"}
     \/ phase = "loader" /\ result = "ok"
  /\ UNCHANGED allVars

MainStep ==
  \/ CallSdInit \/ SdInitRuns \/ CardInitialized
  \/ \E outcome \in ReadOutcomes, bytes \in {"room", "end", "wild"} : Mount(outcome, bytes)
  \/ Open
  \/ \E outcome \in ReadOutcomes, hit \in {"next", "kernel", "end"},
        cluster \in {Chain[1], EndOfChain}, bytes \in {0, FileBytes} :
       Search(outcome, hit, cluster, bytes)
  \/ SearchEnds
  \/ \E outcome \in ReadOutcomes : CopySector(outcome)
  \/ CopyEnds \/ TryHeap

BootNext == MainStep \/ Idle

(* One processor, no interrupts: main goes on as long as it can.           *)
BootSpec == BootInit /\ [][BootNext]_allVars /\ WF_allVars(MainStep)

-----------------------------------------------------------------------------
(* What kernel8.img holds, sector by sector along its chain.               *)
FileContent ==
  [k \in 1..((FileBytes + SectorBytes - 1) \div SectorBytes) |->
     [at |-> [cluster |-> Chain[((k - 1) \div ClusterSectors) + 1],
              sector |-> (k - 1) % ClusterSectors],
      bytes |-> IF k * SectorBytes <= FileBytes THEN SectorBytes
                ELSE FileBytes % SectorBytes]]

(* What a card must be like for the loader to be right about it: the file  *)
(* lies in one run of clusters, for the FAT is not consulted, and if the   *)
(* root directory has the file, then so has one of the sectors that are    *)
(* looked at, with no end of the directory before it.                      *)
RunOfClusters == \A k \in DOMAIN Chain : Chain[k] = Chain[1] + k - 1

RootInSight ==
  \A n \in DOMAIN RootDirectory : RootDirectory[n] = "kernel" =>
    \E s \in DOMAIN Scanned : \E e \in DOMAIN Scanned[s] :
      /\ Scanned[s][e] = "kernel"
      /\ \A d \in DOMAIN Scanned[s] : d < e => Scanned[s][d] # "end"
      /\ \A t \in 1..(s - 1) : \A d \in DOMAIN Scanned[t] : Scanned[t][d] # "end"

(* Outside the calls of the FAT code the heap has one block of it for a    *)
(* mounted volume and none otherwise, whichever read or malloc failed on   *)
(* the way.                                                                *)
HeapBalanced ==
  /\ phase \in {"mount", "open", "test", "idle"} => held = IF volume = "none" THEN 0 ELSE 1
  /\ held \in 0..2

(* A load that reports success has put kernel8.img at load_addr, every     *)
(* sector once, in order, and no byte more, unless a silent card passed    *)
(* for a read.                                                             *)
LoadedIsKernel == status = "loaded" /\ ~muddled => memory = FileContent

(* "not found" is said of a volume without the file only.                  *)
NotFoundIsAbsent ==
  status = "not_found" /\ ~muddled =>
    \A n \in DOMAIN RootDirectory : RootDirectory[n] # "kernel"

(* What main says of the load is so: the kernel is there, or is not.       *)
LoadSound == LoadedIsKernel /\ NotFoundIsAbsent

(* Whatever the card does, main comes to its end: its idle loop, or the    *)
(* exception that a wild pointer in the heap raises.                       *)
MainSettles == phase = "sd" ~> phase \in {"idle", "crashed"}

(* Neither sd_init nor main keeps running, whatever the card does.         *)
CallsReturn == InitReturns /\ MainSettles

(* All subsystems initialize and main gets to its idle loop, unless a      *)
(* silent card passed for a read.                                          *)
ReachesIdle == [](~muddled) => <>(phase = "idle")
=============================================================================
