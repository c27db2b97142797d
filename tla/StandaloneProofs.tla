--------------------------- MODULE StandaloneProofs -------------------------
(***************************************************************************)
(* The parts that share nothing, together: each keeps the invariant that   *)
(* its own proof found, and so its types, whichever of them runs.  The     *)
(* boot menu and the buses have no other invariant than their types.       *)
(***************************************************************************)
EXTENDS MCStandalone, ServiceProofs, FdtProofs, MemTestProofs

(* The boot menu: the selection is an item, whatever key is pressed.       *)
LEMMA MenuStarts == MenuInit => MenuTypeOK
<1> SUFFICES ASSUME MenuInit PROVE MenuTypeOK
  OBVIOUS
<1>1. ItemCount \in Nat /\ ItemCount > 0
  BY MenuAssumption DEF MenuInit, ItemCount
<1>2. 0 \in 0 .. (ItemCount - 1) /\ -1 \in -1 .. (ItemCount - 1)
  BY <1>1
<1> QED
  BY <1>2, Zenon DEF MenuInit, MenuTypeOK

(* A neighbour of an item is one, around the ends of the list.             *)
LEMMA NeighbourIsItem ==
  ASSUME MenuTypeOK
  PROVE  Neighbour(selected) \in 0 .. (ItemCount - 1)
<1>1. ItemCount \in Nat /\ ItemCount > 0 /\ selected \in 0 .. (ItemCount - 1)
  BY MenuAssumption DEF MenuTypeOK, ItemCount
<1> QED
  BY <1>1 DEF Neighbour

(* Every action of an item leads to a place of the menu or of its action.  *)
LEMMA EntryKnown ==
  ASSUME MenuTypeOK, NEW i \in 0 .. (ItemCount - 1)
  PROVE  Entry(Item(i).action) \in {"boot", "menu", "info", "config", "shell"}
<1> DEFINE MenuItem == [action: Actions, enabled: BOOLEAN]
<1>1. items \in Seq(MenuItem)
  BY MenuAssumption, Zenon DEF MenuTypeOK
<1>2. Item(i) \in MenuItem
  <2> HIDE DEF MenuItem
  <2>1. Len(items) \in Nat
    BY <1>1
  <2>2. i + 1 \in 1 .. Len(items)
    BY <2>1 DEF ItemCount
  <2> QED
    BY <1>1, <2>2 DEF Item
<1>3. Item(i).action \in Actions
  BY <1>2
<1> QED
  BY <1>3 DEF Entry, Actions

(* No key takes the selection out of the list.                             *)
LEMMA MenuSteps == MenuTypeOK /\ [MenuNext]_menuVars => MenuTypeOK'
<1> SUFFICES ASSUME MenuTypeOK, [MenuNext]_menuVars PROVE MenuTypeOK'
  OBVIOUS
<1> USE DEF MenuTypeOK
<1>0. ItemCount \in Nat /\ ItemCount > 0
  BY MenuAssumption DEF ItemCount
<1>1. CASE boot_menu_run
  <2>1. selected' \in 0 .. (ItemCount - 1) /\ -1 \in -1 .. (ItemCount - 1)
    BY <1>0, <1>1, MenuAssumption DEF boot_menu_run
  <2>2. ItemCount' = ItemCount
    BY <1>1 DEF boot_menu_run, ItemCount
  <2> QED
    BY <1>1, <2>1, <2>2, Zenon DEF boot_menu_run
<1>2. CASE PressMove \/ EndEscape \/ Redisplay
  BY <1>2 DEF PressMove, EndEscape, Redisplay, ItemCount
<1>3. CASE Move
  BY <1>3, NeighbourIsItem DEF Move, ItemCount
<1>4. CASE PressEnter
  BY <1>4, EntryKnown DEF PressEnter, ItemCount
<1>5. CASE PressDigit
  BY <1>5, EntryKnown DEF PressDigit, ItemCount
<1>6. ASSUME NEW result \in {0, -1}, Finish(result), UNCHANGED <<items, selected, direct>>
      PROVE  MenuTypeOK'
  <2>1. ItemCount' = ItemCount /\ items' = items /\ selected' = selected /\ direct' = direct
    BY <1>6 DEF ItemCount
  <2>2. booted' \in BOOLEAN /\ inShell' \in BOOLEAN
    BY <1>6, Zenon DEF Finish
  <2>3. at' \in {"off", "failed"}
    BY <1>6, Zenon DEF Finish
  <2>4. menu_result' \in {menu_result, result, selected}
    BY <1>6, Zenon DEF Finish
  <2>5. menu_result' \in -1 .. (ItemCount - 1)
    BY <1>0, <2>4
  <2> QED
    BY <2>1, <2>2, <2>3, <2>5
<1>7. CASE BootAction
  BY <1>6, <1>7 DEF BootAction
<1>8. CASE AnyKey
  BY <1>6, <1>8 DEF AnyKey, ItemCount
<1>9. CASE ConfigOption
  BY <1>6, <1>9 DEF ConfigOption, ItemCount
<1>10. CASE ShellCommand
  BY <1>6, <1>10 DEF ShellCommand, ItemCount
<1>11. CASE UNCHANGED menuVars
  BY <1>11 DEF menuVars, ItemCount
<1> QED
  BY <1>1, <1>2, <1>3, <1>4, <1>5, <1>7, <1>8, <1>9, <1>10, <1>11 DEF MenuNext

(* How many turns of the loop it takes to reach item i.                    *)
Ahead(i) == IF at = "up" THEN selected - i ELSE i - selected
TurnsTo(i) == IF Ahead(i) > 0 THEN Ahead(i) ELSE Ahead(i) + ItemCount

(* The neighbour, without the remainder.                                   *)
LEMMA NeighbourIs ==
  ASSUME MenuTypeOK
  PROVE  Neighbour(selected) =
           IF at = "up" THEN (IF selected = 0 THEN ItemCount - 1 ELSE selected - 1)
                        ELSE (IF selected = ItemCount - 1 THEN 0 ELSE selected + 1)
<1>1. ItemCount \in Nat /\ ItemCount > 0 /\ selected \in 0 .. (ItemCount - 1)
  BY MenuAssumption DEF MenuTypeOK, ItemCount
<1>2. ASSUME NEW n \in Nat, n > 0, NEW i \in 0 .. (n - 1)
      PROVE  /\ (i - 1 + n) % n = IF i = 0 THEN n - 1 ELSE i - 1
             /\ (i + 1) % n = IF i = n - 1 THEN 0 ELSE i + 1
  OBVIOUS
<1> QED
  BY <1>1, <1>2 DEF Neighbour

(* Every enabled item that has not been reached is nearer after a turn.    *)
AllNearer ==
  \A i \in 0 .. (ItemCount - 1) :
    Item(i).enabled => TurnsTo(i)' \in Nat /\ TurnsTo(i)' < TurnsTo(i)

(* Why MoveEnds holds, but for the fairness: a turn of the loop that does  *)
(* not end it takes the selection nearer to every enabled item, so none is *)
(* passed over and the loop ends with the first.                           *)
THEOREM SelectionAdvances ==
  MenuSpec => [][(at \in {"up", "down"} /\ at' = at) => AllNearer]_menuVars
<1>1. ASSUME MenuTypeOK, MenuNext, at \in {"up", "down"}, at' = at,
             NEW i \in 0 .. (ItemCount - 1), Item(i).enabled
      PROVE  TurnsTo(i)' \in Nat /\ TurnsTo(i)' < TurnsTo(i)
  <2>1. Move
    BY <1>1 DEF MenuNext, boot_menu_run, PressMove, EndEscape, PressEnter, PressDigit, BootAction,
                AnyKey, ConfigOption, ShellCommand, Redisplay
  <2>2. selected' = Neighbour(selected) /\ items' = items /\ ItemCount' = ItemCount
    BY <2>1 DEF Move, ItemCount
  <2>3. selected' # i
    BY <1>1, <2>1, <2>2 DEF Move, Item
  <2>4. ItemCount \in Nat /\ ItemCount > 0 /\ selected \in 0 .. (ItemCount - 1)
    BY <1>1, MenuAssumption DEF MenuTypeOK, ItemCount
  <2>5. Neighbour(selected) =
          IF at = "up" THEN (IF selected = 0 THEN ItemCount - 1 ELSE selected - 1)
                       ELSE (IF selected = ItemCount - 1 THEN 0 ELSE selected + 1)
    BY <1>1, NeighbourIs
  <2> QED
    BY <1>1, <2>2, <2>3, <2>4, <2>5 DEF TurnsTo, Ahead
<1>2. MenuTypeOK /\ [MenuNext]_menuVars =>
        [(at \in {"up", "down"} /\ at' = at) => AllNearer]_menuVars
  BY <1>1 DEF AllNearer
<1> QED
  BY <1>2, MenuStarts, MenuSteps, PTL DEF MenuSpec

-----------------------------------------------------------------------------
(* The buses.  Every byte is in one place: what the driver has sent is in  *)
(* the FIFO or moved, what has moved is in the FIFO or received; with I2C, *)
(* the bytes that the call before left in the FIFO come on top.  The       *)
(* controller is done when all has moved, or when nobody answers.          *)
BytesKept ==
  /\ bus = "write" => left + count_tx = moved + fifo
  /\ bus = "read" => left + moved = count_rx + fifo
  /\ bus = "spi" => count_tx = moved + fifo_tx /\ moved = count_rx + fifo_rx

DoneMeans ==
  DONE /\ bus \in {"write", "read", "spi"} => moved = length \/ (bus # "spi" /\ ~present)

(* With BytesKept the types say that no FIFO runs over or under.           *)
BusInv == length \in Nat /\ BusTypeOK /\ BytesKept /\ DoneMeans

(* Before the first call the FIFOs are empty.                              *)
LEMMA BusStarts == BusInit => BusInv
<1> SUFFICES ASSUME BusInit PROVE BusInv
  OBVIOUS
<1>1. /\ length \in Nat /\ {count_tx, count_rx, moved} \subseteq 0 .. length
      /\ {fifo, left, fifo_tx, fifo_rx} \subseteq 0 .. FifoSize
  BY BusAssumption DEF BusInit
<1>2. {present, DONE, ERR, RESET} \subseteq BOOLEAN
  BY Zenon DEF BusInit
<1>3. BytesKept /\ DoneMeans
  BY DEF BusInit, BytesKept, DoneMeans
<1> QED
  BY <1>1, <1>2, <1>3, Zenon DEF BusInit, BusInv, BusTypeOK

(* No step loses a byte or makes one.                                      *)
LEMMA BusSteps == BusInv /\ [BusNext]_busVars => BusInv'
<1> SUFFICES ASSUME BusInv, [BusNext]_busVars PROVE BusInv'
  OBVIOUS
<1> USE BusAssumption DEF BusInv, BusTypeOK, BytesKept, DoneMeans
<1>1. ASSUME NEW transfer \in {"write", "read", "spi", "dma"}, Begin(transfer)
      PROVE  BusInv'
  <2>1. /\ length' \in Nat /\ {count_tx', count_rx', moved'} \subseteq 0 .. length'
        /\ {fifo', left', fifo_tx', fifo_rx'} \subseteq 0 .. FifoSize
    BY <1>1 DEF Begin
  <2>2. {present', DONE', ERR', RESET'} \subseteq BOOLEAN
    BY <1>1, Zenon DEF Begin
  <2>3. BytesKept' /\ DoneMeans'
    BY <1>1 DEF Begin
  <2> QED
    BY <1>1, <2>1, <2>2, <2>3, Zenon DEF Begin
<1>2. CASE SendByte
  BY <1>2 DEF SendByte
<1>3. CASE ReceiveByte
  BY <1>3 DEF ReceiveByte
<1>4. CASE Complete \/ dma_abort_transfer
  BY <1>4 DEF Complete, dma_abort_transfer, hardware, fifos
<1>5. CASE Shift
  BY <1>5 DEF Shift
<1>6. CASE EndTransfer
  BY <1>6 DEF EndTransfer, fifos
<1>7. CASE ChannelReset
  BY <1>7 DEF ChannelReset, fifos
<1>8. CASE i2c_init
  BY <1>8 DEF i2c_init
<1>9. CASE UNCHANGED busVars
  BY <1>9 DEF busVars, hardware, fifos
<1> QED
  BY <1>1, <1>2, <1>3, <1>4, <1>5, <1>6, <1>7, <1>8, <1>9 DEF BusNext, Driver, BusController, Hung

(* The conditions of the driver's and the controllers' steps: one of them  *)
(* can be taken.                                                           *)
DriverCanStep ==
  \/ bus = "write" /\ count_tx < length /\ fifo < FifoSize
  \/ bus = "read" /\ count_rx < length /\ fifo > 0
  \/ bus = "spi" /\ count_tx < length /\ fifo_tx < FifoSize
  \/ bus = "spi" /\ count_rx < length /\ fifo_rx > 0
  \/ bus # "none" /\ AllMoved /\ DONE
ControllerCanStep ==
  \/ /\ ~DONE /\ moved < length
     /\ \/ bus = "write" /\ present /\ fifo > 0
        \/ bus = "read" /\ present /\ fifo < FifoSize
        \/ bus = "spi" /\ fifo_tx > 0 /\ fifo_rx < FifoSize
  \/ /\ ~DONE
     /\ \/ bus \in {"write", "read", "spi"} /\ moved = length
        \/ bus \in {"write", "read"} /\ ~present
        \/ bus = "dma" /\ ~RESET
  \/ RESET

(* A transfer with a device that is there waits for nothing: the polling   *)
(* loops of i2c.c, spi.c and dma.c and the controllers are never each      *)
(* waiting for the other, whatever the lengths and the size of the FIFOs   *)
(* and however many bytes a call before has left in that of I2C.           *)
NotStuck ==
  bus # "none" /\ (present \/ bus \in {"spi", "dma"}) => DriverCanStep \/ ControllerCanStep

(* What is left of a transfer.                                             *)
StepsLeft ==
  (length - count_tx) + (length - count_rx) + (length - moved)
    + (IF DONE THEN 0 ELSE 1) + (IF RESET THEN 1 ELSE 0)

(* So the driver or the controller can always go on.                       *)
LEMMA BusNotStuck == BusInv => NotStuck
<1> SUFFICES ASSUME BusInv, bus # "none", present \/ bus \in {"spi", "dma"},
                    ~DriverCanStep, ~ControllerCanStep
             PROVE  FALSE
  BY DEF NotStuck
<1> USE BusAssumption DEF BusInv, BusTypeOK, BytesKept, DoneMeans, DriverCanStep, ControllerCanStep,
                          AllMoved
<1>1. CASE bus = "dma"
  BY <1>1
<1>2. CASE bus = "write"
  BY <1>2
<1>3. CASE bus = "read"
  BY <1>3
<1>4. CASE bus = "spi"
  BY <1>4
<1> QED
  BY <1>1, <1>2, <1>3, <1>4

(* Each step of a running transfer uses up what is left of it.             *)
LEMMA BusNearer ==
  ASSUME BusInv, [BusNext]_busVars, bus # "none", bus' = bus, busVars' # busVars
  PROVE  StepsLeft \in Nat /\ StepsLeft' \in Nat /\ StepsLeft' < StepsLeft
<1> USE DEF BusInv, BusTypeOK, StepsLeft
<1>1. StepsLeft \in Nat
  OBVIOUS
<1>2. CASE SendByte
  BY <1>2 DEF SendByte
<1>3. CASE ReceiveByte
  BY <1>3 DEF ReceiveByte
<1>4. CASE Shift
  BY <1>4 DEF Shift
<1>5. CASE EndTransfer
  BY <1>5 DEF EndTransfer
<1>6. CASE ChannelReset
  BY <1>6 DEF ChannelReset
<1>7. SendByte \/ ReceiveByte \/ Shift \/ EndTransfer \/ ChannelReset
  BY DEF BusNext, Driver, BusController, Begin, Complete, i2c_init, dma_abort_transfer, Hung
<1> QED
  BY <1>1, <1>2, <1>3, <1>4, <1>5, <1>6, <1>7

(* Why TransferEnds holds, but for the fairness: in no reachable state is  *)
(* a transfer stuck, and every step of one that goes on takes it nearer to *)
(* its end.                                                                *)
THEOREM TransfersAdvance ==
  BusSpec =>
    /\ []NotStuck
    /\ [][bus # "none" /\ bus' = bus => StepsLeft' \in Nat /\ StepsLeft' < StepsLeft]_busVars
<1>1. BusInv /\ [BusNext]_busVars =>
        [bus # "none" /\ bus' = bus => StepsLeft' \in Nat /\ StepsLeft' < StepsLeft]_busVars
  BY BusNearer
<1> QED
  BY <1>1, BusStarts, BusSteps, BusNotStuck, PTL DEF BusSpec

-----------------------------------------------------------------------------
(* What every part keeps, whichever of them runs.                          *)
PartsInv ==
  /\ HeapInv /\ DelayInv /\ MailInv /\ WatchdogInv /\ LogInv /\ PerfInv
  /\ MemInv /\ FdtInv /\ MenuTypeOK /\ FileInv /\ UsbInv /\ BusInv

(* A step is one of the part that runs, and the others stutter.            *)
Stepping ==
  /\ [HeapNext]_heapVars /\ [TimerNext]_timerVars /\ [MailNext]_mailVars
  /\ [WatchdogNext]_watchdogVars /\ [LogNext]_logVars /\ [PerfNext]_perfVars
  /\ [MemNext]_memVars /\ [FdtNext]_fdtVars /\ [MenuNext]_menuVars
  /\ [FileNext]_fileVars /\ [UsbNext]_usbVars /\ [BusNext]_busVars

(* In each step one part takes a step of its own.                          *)
LEMMA PartsStep == [PartNext]_partVars => Stepping
<1>1. PartNext => Stepping
  BY Zenon DEF PartNext, Stepping
<1>2. UNCHANGED partVars => Stepping
  BY DEF partVars, Stepping
<1> QED
  BY <1>1, <1>2

(* Each part starts in its own initial states.                             *)
LEMMA PartsStart == PartInit => PartsInv
BY HeapStarts, DelayInvInit, MailInvInit, WatchdogInvInit, LogInvInit, PerfInvInit, MemStarts,
   FdtStarts, MenuStarts, FileInvInit, UsbInvInit, BusStarts, Zenon
DEF PartInit, PartsInv

(* Each part keeps its own invariant.                                      *)
LEMMA PartsGoOn == PartsInv /\ [PartNext]_partVars => PartsInv'
BY PartsStep, HeapSteps, DelayInvNext, MailInvNext, WatchdogInvNext, LogInvNext, PerfInvNext,
   MemSteps, FdtSteps, MenuSteps, FileInvNext, UsbInvNext, BusSteps, Zenon
DEF Stepping, PartsInv

(* So the invariants hold side by side.                                    *)
LEMMA PartsInvariant == PartSpec => []PartsInv
BY PartsStart, PartsGoOn, PTL DEF PartSpec

(* Every part keeps its types, for every value of every part's constants:  *)
(* among them that the menu's selection is an item of the list and that no *)
(* FIFO of a bus runs over or under.                                       *)
THEOREM PartsTyped == PartSpec => []PartTypeOK
<1>1. HeapInv => HeapTypeOK
  BY DEF HeapInv
<1>2. DelayInv => TimerTypeOK
  BY DEF DelayInv, ReadInv
<1>3. WatchdogInv => WatchdogTypeOK
  BY DEF WatchdogInv
<1>4. LogInv => LogTypeOK
  BY DEF LogInv
<1>5. PerfInv => PerfTypeOK
  BY DEF PerfInv
<1>6. MemInv => MemTypeOK
  BY DEF MemInv, MemTyped
<1>7. FdtInv => FdtTypeOK
  BY DEF FdtInv
<1>8. FileInv => FileTypeOK
  BY DEF FileInv
<1>9. UsbInv => UsbTypeOK
  BY DEF UsbInv
<1>10. BusInv => BusTypeOK
  BY DEF BusInv
<1>11. PartsInv => PartTypeOK
  BY <1>1, <1>2, <1>3, <1>4, <1>5, <1>6, <1>7, <1>8, <1>9, <1>10, Zenon DEF PartsInv, PartTypeOK
<1> QED
  BY <1>11, PartsInvariant, PTL

(* Side by side the parts are the parts: the composition implements the    *)
(* specification of each, that of the device tree without its fairness,    *)
(* which no run of the composition needs.                                  *)
THEOREM PartsImplement ==
  PartSpec => /\ HeapSpec /\ TimerSpec /\ MailSpec /\ WatchdogSpec /\ LogSpec /\ PerfSpec /\ MemSpec
              /\ FdtInit /\ [][FdtNext]_fdtVars
              /\ MenuSpec /\ FileSpec /\ UsbSpec /\ BusSpec
<1>1. PartInit => /\ HeapInit /\ TimerInit /\ MailInit /\ WatchdogInit /\ LogInit /\ PerfInit
                  /\ MemInit /\ FdtInit /\ MenuInit /\ FileInit /\ UsbInit /\ BusInit
  BY Zenon DEF PartInit
<1>2. [PartNext]_partVars =>
        /\ [HeapNext]_heapVars /\ [TimerNext]_timerVars /\ [MailNext]_mailVars
        /\ [WatchdogNext]_watchdogVars /\ [LogNext]_logVars /\ [PerfNext]_perfVars
        /\ [MemNext]_memVars /\ [FdtNext]_fdtVars /\ [MenuNext]_menuVars
        /\ [FileNext]_fileVars /\ [UsbNext]_usbVars /\ [BusNext]_busVars
  BY PartsStep DEF Stepping
<1> QED
  BY <1>1, <1>2, PTL
  DEF PartSpec, PartFairness, HeapSpec, TimerSpec, MailSpec, WatchdogSpec, LogSpec, PerfSpec, MemSpec, MenuSpec,
      FileSpec, UsbSpec, BusSpec

(* So every safety property that was proved of a part alone holds of the   *)
(* composition that is model-checked.                                      *)
THEOREM PartsSafe ==
  PartSpec => /\ [](Tiling /\ EnoughRoom) /\ HeldBlocksUntouched
              /\ []TicksInWindow /\ DelayNotEarly
              /\ []MailSound /\ []ResetOnTime /\ []ReadsNewest /\ []FiguresAddUp
              /\ []TestsExact /\ []FoundInTree /\ []FirstAndLastLine /\ []DevicesInTable
<1>1. FdtInv => FoundInTree
  BY DEF FdtInv
<1>2. PartsInv => FdtInv
  BY DEF PartsInv
<1> QED
  BY <1>1, <1>2, PartsInvariant, PartsImplement, HeapTiled, HeapRoom, HeldUntouched,
     TicksLinearizable, DelaysLastLongEnough, MailboxSound, WatchdogResetsOnTime, LogReadsNewest,
     ReportAddsUp, TestsAreExact, FileTakesEffect, UsbDevicesInTable, PTL
=============================================================================
