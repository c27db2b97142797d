----------------------------- MODULE EthernetIrq ----------------------------
(***************************************************************************)
(* Interrupt-driven reception, src/src/ethernet_irq.c, on one CPU: the     *)
(* main program calls init, receive, flush and shutdown; the handler runs  *)
(* between any two of its steps while the GIC line is enabled; the network *)
(* controller delivers frames at any moment, also inside the handler.      *)
(*                                                                         *)
(* The controller's descriptor ring is a sequence.  The transmit, error    *)
(* and link events only count and clear their bit, and are left out but    *)
(* for RX_OVERFLOW.                                                        *)
(***************************************************************************)
EXTENDS Naturals, Sequences

CONSTANTS
  Frames,         \* the frames that may arrive
  TooLong,        \* those longer than an ethernet_frame_t: 1515 to 1518 bytes
  NoFrame,        \* the contents of a zeroed slot
  RingSize,       \* RX_RING_SIZE, descriptors of the controller
  QueueSize,      \* RX_QUEUE_SIZE
  CounterModulus  \* 2^32: packets_dropped is a uint32_t

ASSUME FrameAssumption == TooLong \subseteq Frames /\ NoFrame \notin Frames
ASSUME SizeAssumption ==
  RingSize \in Nat \ {0} /\ QueueSize \in Nat \ {0} /\ CounterModulus \in Nat \ {0}

VARIABLES
  ring,        \* frames in the controller, oldest first
  status,      \* ETH_IRQ_STATUS
  mask,        \* ETH_IRQ_ENABLE
  gic,         \* is line ETH_GIC_IRQ enabled in the GIC?
  registered,  \* interrupt_handlers[ETH_GIC_IRQ] is the handler
  slots, head, tail, count,   \* rx_queue
  dropped,     \* eth_stats.packets_dropped
  isr,         \* the handler: "none", "rx" or "clear"
  snapshot,    \* irq_status of the running handler
  main,        \* the main program's next step, "off" or "idle" between calls
  stopping,    \* the running flush was called by ethernet_irq_shutdown
  taken,       \* registers of the running receive: count read, frame copied
  out          \* the frame the last receive returned

device == <<ring, status>>
control == <<mask, gic, registered>>
rx_queue == <<slots, head, tail, count>>
handler == <<isr, snapshot>>
caller == <<main, stopping, taken, out>>
vars == <<device, control, rx_queue, dropped, handler, caller>>

Indices == 0 .. (QueueSize - 1)
Events == {"RX_DONE", "RX_OVERFLOW"}
EmptySlot == [frame |-> NoFrame, valid |-> FALSE]
NothingTaken == [count |-> 0, frame |-> NoFrame]

-----------------------------------------------------------------------------
Init ==
  /\ ring = <<>> /\ status = {}
  /\ mask = {} /\ gic = FALSE /\ registered = FALSE
  /\ slots = [i \in Indices |-> EmptySlot] /\ head = 0 /\ tail = 0 /\ count = 0
  /\ dropped = 0
  /\ isr = "none" /\ snapshot = {}
  /\ main = "off" /\ stopping = FALSE /\ taken = NothingTaken /\ out = NoFrame

-----------------------------------------------------------------------------
(* The controller stores a frame, or overflows.                            *)
FrameArrives ==
  /\ Len(ring) < RingSize
  /\ \E f \in Frames : ring' = Append(ring, f)
  /\ status' = status \cup {"RX_DONE"}
  /\ UNCHANGED <<control, rx_queue, dropped, handler, caller>>

FrameOverflows ==
  /\ Len(ring) = RingSize
  /\ status' = status \cup {"RX_OVERFLOW"}
  /\ UNCHANGED <<ring, control, rx_queue, dropped, handler, caller>>

-----------------------------------------------------------------------------
(* interrupt_handler takes the line and ethernet_irq_handler reads the     *)
(* status once.  A line without a handler is acknowledged and not served.  *)
LineRaised == gic /\ status \cap mask # {}

IrqEnter ==
  /\ isr = "none" /\ LineRaised /\ registered
  /\ snapshot' = status
  /\ isr' = IF "RX_DONE" \in status THEN "rx" ELSE "clear"
  /\ UNCHANGED <<device, control, rx_queue, dropped, caller>>

(* ethernet_receive_frame takes one frame; one that is too long stays at   *)
(* the head of the ring.  The handler queues it, or drops it.              *)
Receivable == ring # <<>> /\ Head(ring) \notin TooLong

(* Mutants: the queue is not checked for room; a dropped frame is not      *)
(* counted.                                                                *)
MutReceiveUnchecked ==
  /\ isr = "rx"
  /\ isr' = "clear"
  /\ ring' = IF Receivable THEN Tail(ring) ELSE ring
  /\ IF Receivable
     THEN /\ slots' = [slots EXCEPT ![tail] = [frame |-> Head(ring), valid |-> TRUE]]
          /\ tail' = (tail + 1) % QueueSize
          /\ count' = count + 1
     ELSE UNCHANGED <<slots, tail, count>>
  /\ UNCHANGED <<status, control, head, dropped, snapshot, caller>>

MutReceiveUncounted ==
  /\ isr = "rx"
  /\ isr' = "clear"
  /\ ring' = IF Receivable THEN Tail(ring) ELSE ring
  /\ IF Receivable /\ count < QueueSize
     THEN /\ slots' = [slots EXCEPT ![tail] = [frame |-> Head(ring), valid |-> TRUE]]
          /\ tail' = (tail + 1) % QueueSize
          /\ count' = count + 1
     ELSE UNCHANGED <<slots, tail, count>>
  /\ UNCHANGED <<status, control, head, dropped, snapshot, caller>>

IrqReceive ==
  /\ isr = "rx"
  /\ isr' = "clear"
  /\ ring' = IF Receivable THEN Tail(ring) ELSE ring
  /\ IF Receivable /\ count < QueueSize
     THEN /\ slots' = [slots EXCEPT ![tail] = [frame |-> Head(ring), valid |-> TRUE]]
          /\ tail' = (tail + 1) % QueueSize
          /\ count' = count + 1
     ELSE UNCHANGED <<slots, tail, count>>
  /\ dropped' = IF Receivable /\ count >= QueueSize
                THEN (dropped + 1) % CounterModulus ELSE dropped
  /\ UNCHANGED <<status, control, head, snapshot, caller>>

(* The bit of each event is cleared, and then once more the whole          *)
(* snapshot: only the last write counts.                                   *)
IrqClear ==
  /\ isr = "clear"
  /\ status' = status \ snapshot
  /\ isr' = "none" /\ snapshot' = {}
  /\ UNCHANGED <<ring, control, rx_queue, dropped, caller>>

-----------------------------------------------------------------------------
(* The main program runs while no handler does.                            *)
MainAt(step) == main = step /\ isr = "none"

ZeroQueue ==
  /\ slots' = [i \in Indices |-> EmptySlot]
  /\ head' = 0 /\ tail' = 0 /\ count' = 0

(* ethernet_irq_init, one register write after the other.                  *)
InitQueue ==
  /\ MainAt("off")
  /\ ZeroQueue
  /\ dropped' = 0
  /\ registered' = TRUE
  /\ main' = "init_gic"
  /\ UNCHANGED <<device, mask, gic, handler, stopping, taken, out>>

InitGic ==
  /\ MainAt("init_gic")
  /\ gic' = TRUE
  /\ main' = "init_mask"
  /\ UNCHANGED <<device, mask, registered, rx_queue, dropped, handler, stopping, taken, out>>

InitMask ==
  /\ MainAt("init_mask")
  /\ mask' = Events
  /\ main' = "idle"
  /\ UNCHANGED <<device, gic, registered, rx_queue, dropped, handler, stopping, taken, out>>

(* Mutant: the queue is read with the line enabled.                        *)
MutReceiveUnprotected ==
  /\ MainAt("idle")
  /\ main' = "receive"
  /\ UNCHANGED <<device, control, rx_queue, dropped, handler, stopping, taken, out>>

(* ethernet_irq_receive: disable, look, take, enable.                      *)
ReceiveDisable ==
  /\ MainAt("idle")
  /\ gic' = FALSE
  /\ main' = "receive"
  /\ UNCHANGED <<device, mask, registered, rx_queue, dropped, handler, stopping, taken, out>>

HeadReady == count # 0 /\ slots[head].valid

(* Mutant: the return that finds no frame leaves the line disabled.        *)
MutReturnDisabled ==
  /\ MainAt("receive") /\ ~HeadReady
  /\ main' = "idle"
  /\ UNCHANGED <<device, control, rx_queue, dropped, handler, stopping, taken, out>>

ReceiveNothing ==
  /\ MainAt("receive") /\ ~HeadReady
  /\ main' = "enable"
  /\ UNCHANGED <<device, control, rx_queue, dropped, handler, stopping, taken, out>>

ReceiveCopy ==
  /\ MainAt("receive") /\ HeadReady
  /\ taken' = [count |-> count, frame |-> slots[head].frame]
  /\ main' = "store"
  /\ UNCHANGED <<device, control, rx_queue, dropped, handler, stopping, out>>

(* count-- is a load, done above, and a store.                             *)
ReceiveStore ==
  /\ MainAt("store")
  /\ slots' = [slots EXCEPT ![head].valid = FALSE]
  /\ head' = (head + 1) % QueueSize
  /\ count' = taken.count - 1
  /\ out' = taken.frame
  /\ taken' = NothingTaken
  /\ main' = "enable"
  /\ UNCHANGED <<device, control, tail, dropped, handler, stopping>>

(* The interrupt_enable that ends a receive and a flush.                   *)
Enable ==
  /\ MainAt("enable")
  /\ gic' = TRUE
  /\ main' = IF stopping THEN "off" ELSE "idle"
  /\ stopping' = FALSE
  /\ UNCHANGED <<device, mask, registered, rx_queue, dropped, handler, taken, out>>

(* ethernet_irq_flush.                                                     *)
FlushDisable ==
  /\ MainAt("idle")
  /\ gic' = FALSE
  /\ main' = "flush"
  /\ UNCHANGED <<device, mask, registered, rx_queue, dropped, handler, stopping, taken, out>>

FlushClear ==
  /\ MainAt("flush")
  /\ ZeroQueue
  /\ main' = "enable"
  /\ UNCHANGED <<device, control, dropped, handler, stopping, taken, out>>

(* Mutant: the controller is not masked before the handler goes away.      *)
MutShutdownUnmasked ==
  /\ MainAt("idle")
  /\ stopping' = TRUE
  /\ main' = "shutdown_gic"
  /\ UNCHANGED <<device, control, rx_queue, dropped, handler, taken, out>>

(* ethernet_irq_shutdown: mask the controller, disable the line,           *)
(* unregister and flush.                                                   *)
ShutdownMask ==
  /\ MainAt("idle")
  /\ mask' = {}
  /\ stopping' = TRUE
  /\ main' = "shutdown_gic"
  /\ UNCHANGED <<device, gic, registered, rx_queue, dropped, handler, taken, out>>

ShutdownGic ==
  /\ MainAt("shutdown_gic")
  /\ gic' = FALSE
  /\ main' = "unregister"
  /\ UNCHANGED <<device, mask, registered, rx_queue, dropped, handler, stopping, taken, out>>

(* interrupt_unregister_handler, and the flush's interrupt_disable, which  *)
(* finds the line disabled.                                                *)
ShutdownUnregister ==
  /\ MainAt("unregister")
  /\ registered' = FALSE
  /\ main' = "flush"
  /\ UNCHANGED <<device, mask, gic, rx_queue, dropped, handler, stopping, taken, out>>

Device == FrameArrives \/ FrameOverflows
Handler == IrqEnter \/ IrqReceive \/ IrqClear
Section == ReceiveNothing \/ ReceiveCopy \/ ReceiveStore \/ FlushClear \/ Enable
Main ==
  \/ InitQueue \/ InitGic \/ InitMask
  \/ ReceiveDisable \/ FlushDisable
  \/ Section
  \/ ShutdownMask \/ ShutdownGic \/ ShutdownUnregister

Next == Device \/ Handler \/ Main

Spec == Init /\ [][Next]_vars

(* A handler that runs goes on, and so does the main program while no      *)
(* handler runs: it never waits inside a call.                             *)
FairSpec == Spec /\ WF_vars(IrqReceive \/ IrqClear) /\ WF_vars(Section)

-----------------------------------------------------------------------------
TypeOK ==
  /\ ring \in Seq(Frames) /\ Len(ring) <= RingSize
  /\ status \subseteq Events /\ mask \subseteq Events
  /\ gic \in BOOLEAN /\ registered \in BOOLEAN
  /\ slots \in [Indices -> [frame: Frames \cup {NoFrame}, valid: BOOLEAN]]
  /\ head \in Indices /\ tail \in Indices /\ count \in 0 .. QueueSize
  /\ dropped \in 0 .. (CounterModulus - 1)
  /\ isr \in {"none", "rx", "clear"} /\ snapshot \subseteq Events
  /\ main \in {"off", "init_gic", "init_mask", "idle", "receive", "store", "enable", "flush",
               "shutdown_gic", "unregister"}
  /\ stopping \in BOOLEAN
  /\ taken \in [count: 0 .. QueueSize, frame: Frames \cup {NoFrame}]
  /\ out \in Frames \cup {NoFrame}

(* The handler and the caller agree on the ring: the valid slots are the   *)
(* count slots from head to tail, whatever the handler interrupts.         *)
RingConsistent ==
  /\ tail = (head + count) % QueueSize
  /\ \A i \in Indices :
       slots[i].valid <=> \E k \in 0 .. (count - 1) : i = (head + k) % QueueSize

(* An interrupt the controller raises on an enabled line has a handler:    *)
(* without one interrupt_handler would return to a line still raised, and  *)
(* be entered again at once, for ever.                                     *)
LineServed == LineRaised => registered

(* A receive or flush that disabled the line enables it again, on every    *)
(* path through it and however fast frames arrive.                         *)
LineReenabled == (~gic /\ main \in {"receive", "flush"}) ~> gic

(* The queue the caller sees: the slots from head on.                      *)
Queued == [k \in 1 .. count |-> slots[(head + k - 1) % QueueSize].frame]

Fifo == INSTANCE PacketFifo WITH input <- ring, queue <- Queued, Capacity <- QueueSize

(* Reception implements the abstract queue.                                *)
ImplementsFifo == Fifo!FifoSpec

(* docs/ENHANCEMENTS_PHASE2.md: frames are received automatically in the   *)
(* background.  So while reception runs, a frame in the controller has an  *)
(* interrupt raised for it, once the handler has returned.                 *)
NoStrandedFrame == (main = "idle" /\ isr = "none" /\ ring # <<>>) => "RX_DONE" \in status
=============================================================================
