------------------------------- MODULE UsbHost ------------------------------
(***************************************************************************)
(* The USB host driver src/src/usb.c: the controller is reset and started, *)
(* the two ports are powered, and what is connected to them is enumerated. *)
(* Transfers are simulated by the code and succeed; what they leave in the *)
(* caller's buffer is what the stack held, but for the device descriptor.  *)
(*                                                                         *)
(* Waits for the controller have no limit, so a step of the driver waits   *)
(* for the status it needs.                                                *)
(***************************************************************************)
EXTENDS Integers, FiniteSets

CONSTANTS
  TableSlots,   \* usb_devices has slots 0 .. TableSlots - 1: 4
  MaxAddress    \* bound on next_address, a uint8_t

(* Addresses start at 1: slot 0 stays free, and each port needs another.   *)
ASSUME UsbAssumption == TableSlots \in Nat /\ TableSlots > 2 /\ MaxAddress \in Nat \ {0}

Ports == {1, 2}

VARIABLES
  not_ready,     \* USB_STS_CNR
  halted,        \* USB_STS_HCH
  running,       \* USB_CMD_RS
  powered,       \* PORT_PP of the ports
  connected,     \* PORT_CCS of the ports
  resetting,     \* PORT_RESET of the ports
  usb_devices,   \* the state of each slot
  next_address,
  usb,           \* the driver's next step
  port,          \* the port that is enumerated
  address,       \* the address it got
  beyond         \* ghost: slots outside the table that were written

controller == <<not_ready, halted, running, powered, connected, resetting>>
tableOf == <<usb_devices, next_address, beyond>>
place == <<usb, port, address>>
usbVars == <<controller, tableOf, place>>

TableIndex == 0 .. (TableSlots - 1)
Empty == [i \in TableIndex |-> "free"]

UsbInit ==
  /\ not_ready = FALSE /\ halted = TRUE /\ running = FALSE
  /\ powered = {} /\ connected = {} /\ resetting = {}
  /\ usb_devices = Empty /\ next_address = 1 /\ beyond = {}
  /\ usb = "idle" /\ port = 1 /\ address = 0

-----------------------------------------------------------------------------
(* The controller: a reset ends, and it starts or halts as commanded.      *)
Settle ==
  \/ not_ready /\ not_ready' = FALSE /\ UNCHANGED <<halted, resetting>>
  \/ halted = running /\ halted' = ~running /\ UNCHANGED <<not_ready, resetting>>
  \/ resetting # {} /\ resetting' = {} /\ UNCHANGED <<not_ready, halted>>

UsbController == Settle /\ UNCHANGED <<running, powered, connected, tableOf, place>>

Plug ==
  /\ \E p \in powered : connected' = (connected \ {p}) \cup ({p} \ connected)
  /\ UNCHANGED <<not_ready, halted, running, powered, resetting, tableOf, place>>

-----------------------------------------------------------------------------
(* usb_boot_init calls usb_init: the table is cleared, the addresses start *)
(* over, and the controller is reset.  Mutant: the addresses go on.        *)
MutBegin ==
  /\ usb = "idle"
  /\ usb_devices' = Empty
  /\ not_ready' = TRUE /\ running' = FALSE /\ halted' = TRUE
  /\ powered' = {} /\ connected' = {} /\ resetting' = {}
  /\ usb' = "ready"
  /\ UNCHANGED <<next_address, beyond, port, address>>

usb_init ==
  /\ usb = "idle"
  /\ usb_devices' = Empty /\ next_address' = 1
  /\ not_ready' = TRUE /\ running' = FALSE /\ halted' = TRUE
  /\ powered' = {} /\ connected' = {} /\ resetting' = {}
  /\ usb' = "ready"
  /\ UNCHANGED <<beyond, port, address>>

(* usb_reset_controller has seen CNR clear, so the wait of a second for it *)
(* is over at once: power the ports, run, and wait for HCH.                *)
usb_start_controller ==
  /\ usb = "ready" /\ ~not_ready
  /\ powered' = Ports
  /\ running' = TRUE
  /\ usb' = "starting"
  /\ UNCHANGED <<not_ready, halted, connected, resetting, tableOf, port, address>>

Started ==
  /\ usb = "starting" /\ ~halted
  /\ usb' = "port" /\ port' = 1
  /\ UNCHANGED <<controller, tableOf, address>>

(* The other exported call of the driver.                                  *)
usb_stop_controller ==
  /\ usb = "idle" /\ running
  /\ running' = FALSE
  /\ usb' = "stopping"
  /\ UNCHANGED <<not_ready, halted, powered, connected, resetting, tableOf, port, address>>

Stopped ==
  /\ usb = "stopping" /\ halted
  /\ usb' = "idle"
  /\ UNCHANGED <<controller, tableOf, port, address>>

(* usb_enumerate_device: nothing there, or a reset of the port.            *)
NextPort == IF port = 2 THEN usb' = "idle" /\ UNCHANGED port ELSE usb' = "port" /\ port' = 2

PortEmpty ==
  /\ usb = "port" /\ port \notin connected
  /\ NextPort
  /\ UNCHANGED <<controller, tableOf, address>>

usb_reset_port ==
  /\ usb = "port" /\ port \in connected
  /\ resetting' = resetting \cup {port}
  /\ usb' = "address"
  /\ UNCHANGED <<not_ready, halted, running, powered, connected, tableOf, port, address>>

(* The rest of the enumeration, whose transfers all succeed.               *)
usb_enumerate_device ==
  /\ usb = "address" /\ port \notin resetting
  /\ next_address < MaxAddress
  /\ address' = next_address
  /\ next_address' = next_address + 1
  /\ IF next_address \in TableIndex
     THEN usb_devices' = [usb_devices EXCEPT ![next_address] = "configured"] /\ UNCHANGED beyond
     ELSE beyond' = beyond \cup {next_address} /\ UNCHANGED usb_devices
  /\ usb' = "class"
  /\ UNCHANGED <<controller, port>>

(* usb_msc_init reads the descriptors from a buffer nobody has filled: it  *)
(* finds the two endpoints, or not, or does not come back.                 *)
usb_msc_init ==
  /\ usb = "class"
  /\ \/ usb' = "idle" /\ UNCHANGED port
     \/ NextPort
     \/ usb' = "lost" /\ UNCHANGED port
  /\ UNCHANGED <<controller, tableOf, address>>

UsbLost == usb = "lost" /\ UNCHANGED usbVars

UsbNext ==
  \/ UsbController \/ Plug
  \/ usb_init \/ usb_start_controller \/ Started \/ usb_stop_controller \/ Stopped
  \/ PortEmpty \/ usb_reset_port \/ usb_enumerate_device \/ usb_msc_init \/ UsbLost

UsbSpec == UsbInit /\ [][UsbNext]_usbVars

-----------------------------------------------------------------------------
UsbTypeOK ==
  /\ not_ready \in BOOLEAN /\ halted \in BOOLEAN /\ running \in BOOLEAN
  /\ powered \subseteq Ports /\ connected \subseteq powered /\ resetting \subseteq powered
  /\ usb_devices \in [TableIndex -> {"free", "configured"}]
  /\ next_address \in 1 .. MaxAddress /\ address \in 0 .. MaxAddress
  /\ usb \in {"idle", "ready", "starting", "stopping", "port", "address", "class", "lost"}
  /\ port \in Ports /\ beyond \subseteq 0 .. MaxAddress

(* However often USB boot is tried, and whatever is plugged in and out on  *)
(* the way, the devices stay in the table, one slot for each address that  *)
(* was given out since the last start.                                     *)
DevicesInTable ==
  /\ beyond = {}
  /\ {i \in TableIndex : usb_devices[i] # "free"} = 1 .. (next_address - 1)
=============================================================================
