----------------------------- MODULE MCStandalone ---------------------------
(* The parts that share nothing with each other, one at a time: part says  *)
(* which one a behaviour is about, and the others stay as they start.      *)
EXTENDS HeapAllocator, SystemTimer, Mailbox, Watchdog, LogBuffer, PerfMonitor,
        MemTest, MCFdt, BootMenu, ConfigFile, UsbHost, BusTransfers

VARIABLE part

(* A few blocks in a heap with the header size and the alignment of the    *)
(* code.  The largest request rounds up past the width of size_t, the one  *)
(* before asks for the whole heap.                                         *)
MCRequests == {1, 17, 33, HeapSize - HeaderSize, SizeModulus - 3}

(* A menu of more than nine items with every action and disabled ones at   *)
(* both ends, and one without any that is enabled.                         *)
On(action) == [action |-> action, enabled |-> TRUE]
Off(action) == [action |-> action, enabled |-> FALSE]
LongMenu == <<Off("usb"), On("sd"), Off("network"), On("network"), On("info"), On("config"),
              On("shell"), On("none"), Off("none"), On("usb"), Off("sd")>>
DeadMenu == <<Off("usb"), Off("sd")>>
MCMenus == {LongMenu, DeadMenu}

(* Addresses and numbers that config.txt may give: "20", "0x2" and "-3",   *)
(* the first being the built-in address.                                   *)
MCTexts == {<<2, 0>>, <<0, OtherCharacter, 2>>, <<Minus, 3>>}
MCRefused == {<<0, OtherCharacter, 2>>}
MCBuiltin ==
  [key \in VariableKeys |->
     IF key \in AddressKeys THEN 32 ELSE IF key \in NumberKeys THEN 5 ELSE <<1>>]

Parts == {"heap", "timer", "mailbox", "watchdog", "log", "perf", "memory", "tree",
          "menu", "file", "usb", "bus"}

PartInit ==
  /\ part \in Parts
  /\ HeapInit /\ MailInit /\ WatchdogInit /\ LogInit /\ PerfInit /\ FileInit /\ UsbInit /\ BusInit
  /\ TimerInit /\ (part # "timer" => clock.lo = 0)
  /\ MemInit /\ (part # "memory" => fault = NoFault)
  /\ FdtInit /\ (part # "tree" => blob = Childless)
  /\ MenuInit /\ (part # "menu" => items = DeadMenu)

PartNext ==
  /\ UNCHANGED part
  /\ IF part = "heap" THEN HeapNext ELSE UNCHANGED heapVars
  /\ IF part = "timer" THEN TimerNext ELSE UNCHANGED timerVars
  /\ IF part = "mailbox" THEN MailNext ELSE UNCHANGED mailVars
  /\ IF part = "watchdog" THEN WatchdogNext ELSE UNCHANGED watchdogVars
  /\ IF part = "log" THEN LogNext ELSE UNCHANGED logVars
  /\ IF part = "perf" THEN PerfNext ELSE UNCHANGED perfVars
  /\ IF part = "memory" THEN MemNext ELSE UNCHANGED memVars
  /\ IF part = "tree" THEN FdtNext ELSE UNCHANGED fdtVars
  /\ IF part = "menu" THEN MenuNext ELSE UNCHANGED menuVars
  /\ IF part = "file" THEN FileNext ELSE UNCHANGED fileVars
  /\ IF part = "usb" THEN UsbNext ELSE UNCHANGED usbVars
  /\ IF part = "bus" THEN BusNext ELSE UNCHANGED busVars

partVars == <<part, heapVars, timerVars, mailVars, watchdogVars, logVars, perfVars,
              memVars, fdtVars, menuVars, fileVars, usbVars, busVars>>

PartFairness == TimerFairness /\ MenuFairness /\ BusFairness

PartSpec == PartInit /\ [][PartNext]_partVars /\ PartFairness

(* Every part keeps its types; the others stay as they started.            *)
PartTypeOK ==
  /\ part = "heap" => HeapTypeOK
  /\ part = "timer" => TimerTypeOK
  /\ part = "watchdog" => WatchdogTypeOK
  /\ part = "log" => LogTypeOK
  /\ part = "perf" => PerfTypeOK
  /\ part = "memory" => MemTypeOK
  /\ part = "tree" => FdtTypeOK
  /\ part = "menu" => MenuTypeOK
  /\ part = "file" => FileTypeOK
  /\ part = "usb" => UsbTypeOK
  /\ part = "bus" => BusTypeOK
=============================================================================
