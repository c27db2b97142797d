-------------------------- MODULE EthernetIrqProofs -------------------------
(***************************************************************************)
(* Interrupt-driven reception keeps the receive queue consistent, never    *)
(* leaves a raised line without a handler, and implements the abstract     *)
(* queue of PacketFifo, for every set of frames and every size of the      *)
(* descriptor ring and of the queue.                                       *)
(***************************************************************************)
EXTENDS EthernetIrq, SequenceTheorems, TLAPS

(* The steps between a receive's, flush's or shutdown's disabling of the   *)
(* line and its enabling: no handler runs in them.                         *)
LineOff == {"receive", "store", "enable", "flush", "unregister"}

(* What the handler needs of the main program: it runs between two calls   *)
(* only, and the controller is unmasked only while there is a handler.     *)
ControlOK ==
  /\ isr # "none" => main = "idle" /\ gic /\ registered
  /\ main \in LineOff => ~gic
  /\ mask # {} => registered /\ ~stopping /\ main \in {"idle", "receive", "store", "enable", "flush"}
  /\ main \in {"off", "init_gic", "init_mask", "idle", "receive", "store"} => ~stopping
  /\ main \in {"init_gic", "init_mask"} => registered

(* The registers of a receive are still true when it stores them back.     *)
TakenCurrent ==
  main = "store" => HeadReady /\ taken.count = count /\ taken.frame = slots[head].frame

IInv == TypeOK /\ ControlOK /\ TakenCurrent /\ RingConsistent

-----------------------------------------------------------------------------
(* Index arithmetic modulo the size of the queue, without the modulus.     *)
LEMMA Wrap ==
  ASSUME NEW n \in 0 .. (2 * QueueSize - 1)
  PROVE  n % QueueSize = IF n < QueueSize THEN n ELSE n - QueueSize
<1>1. QueueSize \in Nat /\ QueueSize > 0
  BY SizeAssumption
<1>2. CASE n < QueueSize
  BY <1>1, <1>2
<1>3. CASE n >= QueueSize
  <2>1. n - QueueSize \in 0 .. (QueueSize - 1)
    BY <1>1, <1>3
  <2>2. (n - QueueSize) % QueueSize = n - QueueSize
    BY <1>1, <2>1
  <2>3. n % QueueSize = (n - QueueSize) % QueueSize
    BY <1>1, <1>3
  <2> QED
    BY <1>1, <1>3, <2>2, <2>3
<1> QED
  BY <1>1, <1>2, <1>3

(* The slots from head on that hold a frame, going round the end.          *)
InQueue(i, h, n) == IF h + n <= QueueSize THEN i >= h /\ i < h + n
                                          ELSE i >= h \/ i < h + n - QueueSize

LEMMA Occupied ==
  ASSUME NEW h \in Indices, NEW n \in 0 .. QueueSize, NEW i \in Indices
  PROVE  (\E k \in 0 .. (n - 1) : i = (h + k) % QueueSize) <=> InQueue(i, h, n)
<1>1. QueueSize \in Nat /\ h \in 0 .. (QueueSize - 1) /\ i \in 0 .. (QueueSize - 1)
  BY SizeAssumption DEF Indices
<1>2. ASSUME NEW k \in 0 .. (n - 1), i = (h + k) % QueueSize
      PROVE  InQueue(i, h, n)
  <2>1. (h + k) % QueueSize = IF h + k < QueueSize THEN h + k ELSE h + k - QueueSize
    BY <1>1, Wrap
  <2> QED
    BY <1>1, <1>2, <2>1 DEF InQueue
<1>3. ASSUME InQueue(i, h, n)
      PROVE  \E k \in 0 .. (n - 1) : i = (h + k) % QueueSize
  <2> DEFINE k == IF i >= h THEN i - h ELSE i + QueueSize - h
  <2>1. k \in 0 .. (n - 1) /\ h + k \in 0 .. (2 * QueueSize - 1)
    BY <1>1, <1>3 DEF InQueue
  <2>2. i = (h + k) % QueueSize
    BY <1>1, <2>1, Wrap
  <2> QED
    BY <2>1, <2>2
<1> QED
  BY <1>2, <1>3

(* RingConsistent in terms of InQueue.                                     *)
LEMMA RingForm ==
  ASSUME head \in Indices, count \in 0 .. QueueSize
  PROVE  RingConsistent <=> /\ tail = (head + count) % QueueSize
                            /\ \A i \in Indices : slots[i].valid <=> InQueue(i, head, count)
BY Occupied DEF RingConsistent

LEMMA RingFormPrime ==
  ASSUME head' \in Indices, count' \in 0 .. QueueSize
  PROVE  RingConsistent' <=> /\ tail' = (head' + count') % QueueSize
                             /\ \A i \in Indices : slots'[i].valid <=> InQueue(i, head', count')
BY Occupied DEF RingConsistent

(* Clearing the queue leaves it consistent.                                *)
LEMMA ZeroQueueConsistent == ZeroQueue => RingConsistent'
<1> SUFFICES ASSUME ZeroQueue PROVE RingConsistent'
  OBVIOUS
<1>1. QueueSize \in Nat /\ QueueSize > 0 /\ 0 \in Indices
  BY SizeAssumption DEF Indices
<1>2. 0 % QueueSize = 0
  BY <1>1
<1> QED
  BY <1>1, <1>2 DEF ZeroQueue, RingConsistent, EmptySlot

(* The handler queues a frame at tail.                                     *)
LEMMA PutConsistent ==
  ASSUME TypeOK, RingConsistent, IrqReceive
  PROVE  RingConsistent' /\ head' \in Indices /\ tail' \in Indices /\ count' \in 0 .. QueueSize
<1>1. QueueSize \in Nat /\ QueueSize > 0 /\ head \in 0 .. (QueueSize - 1)
      /\ tail \in 0 .. (QueueSize - 1) /\ count \in 0 .. QueueSize
  BY SizeAssumption DEF TypeOK, Indices
<1>2. CASE ~(Receivable /\ count < QueueSize)
  BY <1>2 DEF TypeOK, RingConsistent, IrqReceive
<1>3. CASE Receivable /\ count < QueueSize
  <2>1. /\ slots' = [slots EXCEPT ![tail] = [frame |-> Head(ring), valid |-> TRUE]]
        /\ tail' = (tail + 1) % QueueSize /\ count' = count + 1 /\ head' = head
    BY <1>3 DEF IrqReceive
  <2>2. tail = IF head + count < QueueSize THEN head + count ELSE head + count - QueueSize
    BY <1>1, <1>3, Wrap DEF RingConsistent
  <2>3. tail' = IF tail + 1 < QueueSize THEN tail + 1 ELSE tail + 1 - QueueSize
    BY <1>1, <2>1, Wrap
  <2>4. tail' \in 0 .. (QueueSize - 1) /\ count' \in 0 .. QueueSize
    BY <1>1, <1>3, <2>1, <2>3
  <2>5. tail' = (head' + count') % QueueSize
    <3>1. PICK n \in 0 .. (2 * QueueSize - 1) : n = head' + count'
      BY <1>1, <1>3, <2>1
    <3>2. n % QueueSize = IF n < QueueSize THEN n ELSE n - QueueSize
      BY Wrap
    <3> QED
      BY <1>1, <1>3, <2>1, <2>2, <2>3, <3>1, <3>2
  <2>6. ASSUME NEW i \in Indices
        PROVE  slots'[i].valid <=> InQueue(i, head', count')
    <3>1. slots[i].valid <=> InQueue(i, head, count)
      BY RingForm DEF TypeOK
    <3>2. i \in 0 .. (QueueSize - 1)
      BY DEF Indices
    <3>3. CASE i = tail
      <4>1. slots'[i].valid = TRUE
        BY <2>1, <3>3 DEF TypeOK
      <4>2. InQueue(i, head', count')
        BY <1>1, <1>3, <2>1, <2>2, <3>3 DEF InQueue
      <4> QED
        BY <4>1, <4>2
    <3>4. CASE i # tail
      <4>1. slots'[i] = slots[i]
        BY <2>1, <3>4 DEF TypeOK
      <4>2. InQueue(i, head', count') <=> InQueue(i, head, count)
        BY <1>1, <1>3, <2>1, <2>2, <3>2, <3>4 DEF InQueue
      <4> QED
        BY <3>1, <4>1, <4>2
    <3> QED
      BY <3>3, <3>4
  <2>7. head' \in Indices /\ count' \in 0 .. QueueSize /\ tail' \in Indices
    BY <1>1, <2>1, <2>4 DEF Indices
  <2> QED
    BY <2>5, <2>6, <2>7, RingFormPrime
<1> QED
  BY <1>2, <1>3

(* A receive gives back the slot at head.                                  *)
LEMMA StoreConsistent ==
  ASSUME TypeOK, RingConsistent, TakenCurrent, ReceiveStore
  PROVE  RingConsistent' /\ head' \in Indices /\ count' \in 0 .. QueueSize
<1>1. QueueSize \in Nat /\ QueueSize > 0 /\ head \in 0 .. (QueueSize - 1)
      /\ count \in 1 .. QueueSize
  BY SizeAssumption DEF TypeOK, Indices, TakenCurrent, ReceiveStore, MainAt, HeadReady
<1>2. /\ slots' = [slots EXCEPT ![head].valid = FALSE]
      /\ head' = (head + 1) % QueueSize /\ count' = count - 1 /\ tail' = tail
  BY DEF ReceiveStore, TakenCurrent, MainAt
<1>3. head' = IF head + 1 < QueueSize THEN head + 1 ELSE head + 1 - QueueSize
  BY <1>1, <1>2, Wrap
<1>4. head' \in 0 .. (QueueSize - 1) /\ count' \in 0 .. QueueSize
  BY <1>1, <1>2, <1>3
<1>5. tail' = (head' + count') % QueueSize
  <2>1. tail = IF head + count < QueueSize THEN head + count ELSE head + count - QueueSize
    BY <1>1, Wrap DEF RingConsistent
  <2>2. PICK n \in 0 .. (2 * QueueSize - 1) : n = head' + count'
    BY <1>1, <1>2, <1>4
  <2>3. n % QueueSize = IF n < QueueSize THEN n ELSE n - QueueSize
    BY Wrap
  <2> QED
    BY <1>1, <1>2, <1>3, <2>1, <2>2, <2>3
<1>6. ASSUME NEW i \in Indices
      PROVE  slots'[i].valid <=> InQueue(i, head', count')
  <2>1. slots[i].valid <=> InQueue(i, head, count)
    BY RingForm DEF TypeOK
  <2>2. i \in 0 .. (QueueSize - 1)
    BY DEF Indices
  <2>3. CASE i = head
    <3>1. slots'[i].valid = FALSE
      BY <1>2, <2>3 DEF TypeOK
    <3>2. ~InQueue(i, head', count')
      BY <1>1, <1>2, <1>3, <2>3 DEF InQueue
    <3> QED
      BY <3>1, <3>2
  <2>4. CASE i # head
    <3>1. slots'[i] = slots[i]
      BY <1>2, <2>4 DEF TypeOK
    <3>2. InQueue(i, head', count') <=> InQueue(i, head, count)
      BY <1>1, <1>2, <1>3, <2>2, <2>4 DEF InQueue
    <3> QED
      BY <2>1, <3>1, <3>2
  <2> QED
    BY <2>3, <2>4
<1>7. head' \in Indices /\ count' \in 0 .. QueueSize
  BY <1>4 DEF Indices
<1> QED
  BY <1>5, <1>6, <1>7, RingFormPrime

-----------------------------------------------------------------------------
LEMMA InvariantInit == Init => IInv
<1> SUFFICES ASSUME Init PROVE IInv
  OBVIOUS
<1>1. QueueSize \in Nat /\ QueueSize > 0 /\ RingSize \in Nat /\ CounterModulus \in Nat
      /\ CounterModulus > 0 /\ 0 \in Indices
  BY SizeAssumption DEF Indices
<1>2. TypeOK
  <2>1. ring \in Seq(Frames) /\ Len(ring) <= RingSize
    BY <1>1 DEF Init
  <2>2. slots \in [Indices -> [frame: Frames \cup {NoFrame}, valid: BOOLEAN]]
    BY DEF Init, EmptySlot
  <2>3. taken \in [count: 0 .. QueueSize, frame: Frames \cup {NoFrame}]
    BY <1>1 DEF Init, NothingTaken
  <2>4. /\ status \subseteq Events /\ mask \subseteq Events /\ snapshot \subseteq Events
        /\ gic \in BOOLEAN /\ registered \in BOOLEAN /\ stopping \in BOOLEAN
        /\ out \in Frames \cup {NoFrame}
    BY DEF Init
  <2>5. /\ head \in Indices /\ tail \in Indices /\ count \in 0 .. QueueSize
        /\ dropped \in 0 .. (CounterModulus - 1)
    BY <1>1 DEF Init
  <2>6. isr = "none" /\ main = "off"
    BY DEF Init
  <2> QED
    BY <2>1, <2>2, <2>3, <2>4, <2>5, <2>6 DEF TypeOK
<1>3. ControlOK /\ TakenCurrent
  BY DEF Init, ControlOK, TakenCurrent, LineOff
<1>4. 0 % QueueSize = 0
  BY <1>1
<1>5. RingConsistent
  BY <1>1, <1>4 DEF Init, RingConsistent, EmptySlot
<1> QED
  BY <1>2, <1>3, <1>5 DEF IInv

(* A step that leaves the queue and the registers of a receive alone.      *)
LEMMA QueueUntouched ==
  ASSUME RingConsistent, TakenCurrent, UNCHANGED <<rx_queue, taken>>,
         main' = "store" => main = "store"
  PROVE  RingConsistent' /\ TakenCurrent'
<1>1. UNCHANGED <<slots, head, tail, count, taken>>
  BY DEF rx_queue
<1> QED
  BY <1>1 DEF RingConsistent, TakenCurrent, HeadReady

(* Steps of the controller.                                                *)
LEMMA DeviceInvariant ==
  ASSUME IInv, Device
  PROVE  IInv'
<1> USE DEF IInv, TypeOK, device, control, handler, caller
<1>1. CASE FrameArrives
  <2>1. PICK f \in Frames : ring' = Append(ring, f)
    BY <1>1 DEF FrameArrives
  <2>2. ring' \in Seq(Frames) /\ Len(ring') <= RingSize
    BY <1>1, <2>1, SizeAssumption DEF FrameArrives
  <2>3. TypeOK'
    BY <1>1, <2>2 DEF FrameArrives, rx_queue, Events
  <2>4. ControlOK'
    BY <1>1 DEF FrameArrives, ControlOK
  <2>5. RingConsistent' /\ TakenCurrent'
    BY <1>1, QueueUntouched DEF FrameArrives
  <2> QED
    BY <2>3, <2>4, <2>5
<1>2. CASE FrameOverflows
  <2>1. TypeOK'
    BY <1>2 DEF FrameOverflows, rx_queue, Events
  <2>2. ControlOK'
    BY <1>2 DEF FrameOverflows, ControlOK
  <2>3. RingConsistent' /\ TakenCurrent'
    BY <1>2, QueueUntouched DEF FrameOverflows
  <2> QED
    BY <2>1, <2>2, <2>3
<1> QED
  BY <1>1, <1>2 DEF Device

(* Steps of the handler.                                                   *)
LEMMA HandlerInvariant ==
  ASSUME IInv, Handler
  PROVE  IInv'
<1> USE DEF IInv, TypeOK, device, control, handler, caller
<1>1. CASE IrqEnter
  <2>1. TypeOK'
    BY <1>1 DEF IrqEnter, rx_queue
  <2>2. mask # {} /\ gic /\ registered
    BY <1>1 DEF IrqEnter, LineRaised
  <2>3. main = "idle"
    BY <2>2 DEF ControlOK, LineOff
  <2>4. ControlOK'
    BY <1>1, <2>2, <2>3 DEF IrqEnter, ControlOK
  <2>5. RingConsistent' /\ TakenCurrent'
    BY <1>1, QueueUntouched DEF IrqEnter
  <2> QED
    BY <2>1, <2>4, <2>5
<1>2. CASE IrqReceive
  <2>1. main = "idle"
    BY <1>2 DEF IrqReceive, ControlOK
  <2>2. RingConsistent' /\ head' \in Indices /\ tail' \in Indices /\ count' \in 0 .. QueueSize
    BY <1>2, PutConsistent
  <2>3. Receivable => Head(ring) \in Frames /\ Tail(ring) \in Seq(Frames)
                      /\ Len(Tail(ring)) <= RingSize
    BY SizeAssumption DEF Receivable
  <2>4. ring' \in Seq(Frames) /\ Len(ring') <= RingSize
    BY <1>2, <2>3 DEF IrqReceive
  <2>5. slots' \in [Indices -> [frame: Frames \cup {NoFrame}, valid: BOOLEAN]]
    <3> DEFINE full == [frame |-> Head(ring), valid |-> TRUE]
    <3>1. Receivable => full \in [frame: Frames \cup {NoFrame}, valid: BOOLEAN]
      BY <2>3
    <3>2. slots' = slots \/ (Receivable /\ slots' = [slots EXCEPT ![tail] = full])
      BY <1>2 DEF IrqReceive
    <3> HIDE DEF full
    <3> QED
      BY <3>1, <3>2
  <2>6. dropped' \in 0 .. (CounterModulus - 1)
    BY <1>2, SizeAssumption DEF IrqReceive
  <2>7. TypeOK'
    BY <1>2, <2>2, <2>4, <2>5, <2>6 DEF IrqReceive
  <2>8. ControlOK'
    BY <1>2 DEF IrqReceive, ControlOK
  <2>9. TakenCurrent'
    BY <1>2, <2>1 DEF IrqReceive, TakenCurrent
  <2> QED
    BY <2>2, <2>7, <2>8, <2>9
<1>3. CASE IrqClear
  <2>1. TypeOK'
    BY <1>3 DEF IrqClear, rx_queue
  <2>2. ControlOK'
    BY <1>3 DEF IrqClear, ControlOK
  <2>3. RingConsistent' /\ TakenCurrent'
    BY <1>3, QueueUntouched DEF IrqClear
  <2> QED
    BY <2>1, <2>2, <2>3
<1> QED
  BY <1>1, <1>2, <1>3 DEF Handler

(* Steps of the main program that leave the queue alone.                   *)
LEMMA ControlStepInvariant ==
  ASSUME IInv,
         InitGic \/ InitMask \/ ReceiveDisable \/ FlushDisable \/ ReceiveNothing
           \/ Enable \/ ShutdownMask \/ ShutdownGic \/ ShutdownUnregister
  PROVE  IInv'
<1> USE DEF IInv, InitGic, InitMask, ReceiveDisable, FlushDisable, ReceiveNothing, Enable,
            ShutdownMask, ShutdownGic, ShutdownUnregister, MainAt,
            device, control, handler
<1>1. TypeOK'
  BY DEF TypeOK, rx_queue
<1>2. ControlOK'
  <2>1. isr' = "none" /\ isr = "none"
    OBVIOUS
  <2> QED
    BY <2>1 DEF TypeOK, ControlOK, LineOff
<1>3. UNCHANGED <<rx_queue, taken>> /\ main' # "store"
  OBVIOUS
<1>4. RingConsistent' /\ TakenCurrent'
  BY <1>3, QueueUntouched
<1> QED
  BY <1>1, <1>2, <1>4

(* Steps of the main program that work on the queue.                       *)
LEMMA QueueStepInvariant ==
  ASSUME IInv, InitQueue \/ ReceiveCopy \/ ReceiveStore \/ FlushClear
  PROVE  IInv'
<1> USE DEF IInv, device, control, handler, MainAt
<1>1. QueueSize \in Nat /\ QueueSize > 0 /\ CounterModulus \in Nat /\ CounterModulus > 0
      /\ 0 \in Indices
  BY SizeAssumption DEF Indices
<1>2. CASE InitQueue
  <2>1. TypeOK'
    BY <1>1, <1>2 DEF InitQueue, ZeroQueue, EmptySlot, TypeOK
  <2>2. ControlOK' /\ TakenCurrent'
    BY <1>2 DEF InitQueue, ControlOK, TakenCurrent, LineOff
  <2>3. RingConsistent'
    BY <1>2, ZeroQueueConsistent DEF InitQueue
  <2> QED
    BY <2>1, <2>2, <2>3
<1>3. CASE ReceiveCopy
  <2>1. slots[head].frame \in Frames \cup {NoFrame}
    BY DEF TypeOK
  <2>2. taken' \in [count: 0 .. QueueSize, frame: Frames \cup {NoFrame}]
    BY <1>3, <2>1 DEF ReceiveCopy, TypeOK
  <2>3. TypeOK'
    BY <1>3, <2>2 DEF ReceiveCopy, TypeOK, rx_queue
  <2>4. ControlOK'
    BY <1>3 DEF ReceiveCopy, ControlOK, LineOff
  <2>5. UNCHANGED <<slots, head, tail, count>>
    BY <1>3 DEF ReceiveCopy, rx_queue
  <2>6. TakenCurrent'
    BY <1>3, <2>5 DEF ReceiveCopy, TakenCurrent, HeadReady
  <2>7. RingConsistent'
    BY <2>5 DEF RingConsistent
  <2> QED
    BY <2>3, <2>4, <2>6, <2>7
<1>4. CASE ReceiveStore
  <2>1. RingConsistent' /\ head' \in Indices /\ count' \in 0 .. QueueSize
    BY <1>4, StoreConsistent
  <2>2. slots' \in [Indices -> [frame: Frames \cup {NoFrame}, valid: BOOLEAN]]
    BY <1>4 DEF ReceiveStore, TypeOK
  <2>3. taken' \in [count: 0 .. QueueSize, frame: Frames \cup {NoFrame}]
    BY <1>1, <1>4 DEF ReceiveStore, NothingTaken
  <2>4. out' \in Frames \cup {NoFrame}
    BY <1>4 DEF ReceiveStore, TypeOK
  <2>5. TypeOK'
    BY <1>4, <2>1, <2>2, <2>3, <2>4 DEF ReceiveStore, TypeOK
  <2>6. ControlOK' /\ TakenCurrent'
    BY <1>4 DEF ReceiveStore, ControlOK, TakenCurrent, LineOff
  <2> QED
    BY <2>1, <2>5, <2>6
<1>5. CASE FlushClear
  <2>1. TypeOK'
    BY <1>1, <1>5 DEF FlushClear, ZeroQueue, EmptySlot, TypeOK
  <2>2. ControlOK' /\ TakenCurrent'
    BY <1>5 DEF FlushClear, ControlOK, TakenCurrent, LineOff
  <2>3. RingConsistent'
    BY <1>5, ZeroQueueConsistent DEF FlushClear
  <2> QED
    BY <2>1, <2>2, <2>3
<1> QED
  BY <1>2, <1>3, <1>4, <1>5

LEMMA InvariantNext == IInv /\ [Next]_vars => IInv'
<1> SUFFICES ASSUME IInv, [Next]_vars PROVE IInv'
  OBVIOUS
<1>1. CASE Device
  BY <1>1, DeviceInvariant
<1>2. CASE Handler
  BY <1>2, HandlerInvariant
<1>3. CASE Main
  BY <1>3, ControlStepInvariant, QueueStepInvariant DEF Main, Section
<1>4. CASE UNCHANGED vars
  <2>1. UNCHANGED <<ring, status, mask, gic, registered, slots, head, tail, count, dropped,
                    isr, snapshot, main, stopping, taken, out>>
    BY <1>4 DEF vars, device, control, rx_queue, handler, caller
  <2> QED
    BY <2>1 DEF IInv, TypeOK, ControlOK, TakenCurrent, RingConsistent, HeadReady
<1> QED
  BY <1>1, <1>2, <1>3, <1>4 DEF Next

(* The driver's variables keep their types.                                *)
THEOREM EthernetTypeCorrect == Spec => []TypeOK
<1>1. IInv => TypeOK
  BY DEF IInv
<1> QED
  BY InvariantInit, InvariantNext, <1>1, PTL DEF Spec

(* Whatever point of a call the handler interrupts, the valid slots of the *)
(* receive queue are the count slots from head to tail.                    *)
THEOREM QueueConsistent == Spec => []RingConsistent
<1>1. IInv => RingConsistent
  BY DEF IInv
<1> QED
  BY InvariantInit, InvariantNext, <1>1, PTL DEF Spec

(* The controller never raises an enabled line that has no handler.        *)
THEOREM NoUnservedLine == Spec => []LineServed
<1>1. IInv => LineServed
  BY DEF IInv, ControlOK, LineServed, LineRaised
<1> QED
  BY InvariantInit, InvariantNext, <1>1, PTL DEF Spec

-----------------------------------------------------------------------------
LEMMA SlotIndex ==
  ASSUME NEW h \in Indices, NEW k \in Nat \ {0}
  PROVE  (h + k - 1) % QueueSize \in Indices
BY SizeAssumption DEF Indices

(* The queue that the caller sees, slot by slot.                           *)
LEMMA QueuedSlots ==
  ASSUME TypeOK
  PROVE  /\ Queued \in Seq(Frames \cup {NoFrame})
         /\ Len(Queued) = count
         /\ \A k \in 1 .. count : /\ (head + k - 1) % QueueSize \in Indices
                                  /\ Queued[k] = slots[(head + k - 1) % QueueSize].frame
<1>1. QueueSize \in Nat /\ QueueSize > 0 /\ head \in 0 .. (QueueSize - 1)
      /\ count \in 0 .. QueueSize
  BY SizeAssumption DEF TypeOK, Indices
<1>2. ASSUME NEW k \in 1 .. count
      PROVE  (head + k - 1) % QueueSize \in Indices
  BY <1>1 DEF Indices
<1>3. \A k \in 1 .. count : Queued[k] = slots[(head + k - 1) % QueueSize].frame
  BY DEF Queued
<1>4. \A k \in 1 .. count : Queued[k] \in Frames \cup {NoFrame}
  BY <1>2, <1>3 DEF TypeOK
<1>5. Queued \in [1 .. count -> Frames \cup {NoFrame}]
  BY <1>4 DEF Queued
<1>6. Queued \in Seq(Frames \cup {NoFrame}) /\ Len(Queued) = count
  BY <1>1, <1>5
<1> QED
  BY <1>2, <1>3, <1>6

LEMMA QueuedSlotsPrime ==
  ASSUME TypeOK'
  PROVE  /\ Queued' \in Seq(Frames \cup {NoFrame})
         /\ Len(Queued') = count'
         /\ \A k \in 1 .. count' : Queued'[k] = slots'[(head' + k - 1) % QueueSize].frame
<1>1. QueueSize \in Nat /\ QueueSize > 0 /\ head' \in 0 .. (QueueSize - 1)
      /\ count' \in 0 .. QueueSize
  BY SizeAssumption DEF TypeOK, Indices
<1>2. ASSUME NEW k \in 1 .. count'
      PROVE  (head' + k - 1) % QueueSize \in Indices
  <2>1. k \in Nat \ {0} /\ head' \in Indices
    BY <1>1 DEF Indices
  <2> QED
    BY <2>1, SlotIndex
<1>3. \A k \in 1 .. count' : Queued'[k] = slots'[(head' + k - 1) % QueueSize].frame
  BY DEF Queued
<1>4. \A k \in 1 .. count' : Queued'[k] \in Frames \cup {NoFrame}
  BY <1>2, <1>3 DEF TypeOK
<1>5. Queued' \in [1 .. count' -> Frames \cup {NoFrame}]
  BY <1>4 DEF Queued
<1> QED
  BY <1>1, <1>3, <1>5

(* A frame the handler queues becomes the last one the caller sees.        *)
LEMMA PutAppends ==
  ASSUME IInv, IInv', IrqReceive, Receivable, count < QueueSize
  PROVE  Queued' = Append(Queued, Head(ring))
<1> DEFINE S == Frames \cup {NoFrame}
           f == Head(ring)
<1>1. TypeOK /\ TypeOK' /\ RingConsistent
  BY DEF IInv
<1>2. QueueSize \in Nat /\ QueueSize > 0 /\ head \in 0 .. (QueueSize - 1)
      /\ count \in 0 .. QueueSize /\ tail \in Indices
  BY <1>1, SizeAssumption DEF TypeOK, Indices
<1>3. /\ slots' = [slots EXCEPT ![tail] = [frame |-> f, valid |-> TRUE]]
      /\ head' = head /\ count' = count + 1
  BY DEF IrqReceive
<1>4. f \in S /\ Queued \in Seq(S) /\ Len(Queued) = count
  <2>1. ring \in Seq(Frames) /\ ring # <<>>
    BY <1>1 DEF TypeOK, Receivable
  <2> QED
    BY <1>1, <2>1, QueuedSlots
<1> HIDE DEF f, S
<1>5. /\ Append(Queued, f) \in Seq(S) /\ Len(Append(Queued, f)) = count + 1
      /\ \A k \in 1 .. count : Append(Queued, f)[k] = Queued[k]
      /\ Append(Queued, f)[count + 1] = f
  BY <1>2, <1>4
<1>6. /\ Queued' \in Seq(S) /\ Len(Queued') = count + 1
      /\ \A k \in 1 .. (count + 1) : Queued'[k] = slots'[(head + k - 1) % QueueSize].frame
  BY <1>1, <1>3, QueuedSlotsPrime DEF S
<1>7. Queued'[count + 1] = f
  <2>1. tail = (head + count) % QueueSize
    BY <1>1 DEF RingConsistent
  <2>2. head + (count + 1) - 1 = head + count /\ count + 1 \in 1 .. (count + 1)
    BY <1>2
  <2>3. Queued'[count + 1] = slots'[tail].frame
    BY <1>6, <2>1, <2>2
  <2> QED
    BY <1>1, <1>2, <1>3, <2>3 DEF TypeOK
<1>8. ASSUME NEW k \in 1 .. count
      PROVE  Queued'[k] = Queued[k]
  <2> DEFINE i == (head + k - 1) % QueueSize
  <2>1. i \in Indices /\ Queued[k] = slots[i].frame
    BY <1>1, QueuedSlots
  <2>2. slots[i].valid
    <3>1. k - 1 \in 0 .. (count - 1) /\ head + (k - 1) = head + k - 1
      BY <1>2
    <3>2. i = (head + (k - 1)) % QueueSize
      BY <3>1
    <3> QED
      BY <1>1, <2>1, <3>1, <3>2 DEF RingConsistent
  <2>3. ~slots[tail].valid
    <3>1. tail = IF head + count < QueueSize THEN head + count ELSE head + count - QueueSize
      BY <1>1, <1>2, Wrap DEF RingConsistent
    <3>2. ~InQueue(tail, head, count)
      BY <1>2, <3>1 DEF InQueue
    <3> QED
      BY <1>1, <1>2, <3>2, RingForm DEF TypeOK
  <2>4. slots'[i] = slots[i]
    BY <1>1, <1>2, <1>3, <2>1, <2>2, <2>3 DEF TypeOK
  <2>5. k \in 1 .. (count + 1)
    BY <1>2
  <2> QED
    BY <1>6, <2>1, <2>4, <2>5
<1>9. \A k \in 1 .. (count + 1) : Queued'[k] = Append(Queued, f)[k]
  BY <1>2, <1>5, <1>7, <1>8
<1>10. Queued' = Append(Queued, f)
  BY <1>5, <1>6, <1>9, SeqEqual
<1> QED
  BY <1>10 DEF f

(* The frame that a receive returns is the first one the caller saw.       *)
LEMMA StoreTakes ==
  ASSUME IInv, IInv', ReceiveStore
  PROVE  /\ Queued # <<>>
         /\ out' = Head(Queued)
         /\ Queued' = Tail(Queued)
<1> DEFINE S == Frames \cup {NoFrame}
<1>1. TypeOK /\ TypeOK' /\ TakenCurrent
  BY DEF IInv
<1>2. QueueSize \in Nat /\ QueueSize > 0 /\ head \in 0 .. (QueueSize - 1)
      /\ count \in 1 .. QueueSize
  <2>1. head \in Indices /\ count \in 0 .. QueueSize
    BY <1>1 DEF TypeOK
  <2>2. count # 0
    BY <1>1 DEF TakenCurrent, ReceiveStore, MainAt, HeadReady
  <2> QED
    BY <2>1, <2>2, SizeAssumption DEF Indices
<1>3. /\ slots' = [slots EXCEPT ![head].valid = FALSE]
      /\ head' = (head + 1) % QueueSize /\ count' = count - 1
      /\ out' = slots[head].frame
  BY <1>1 DEF ReceiveStore, TakenCurrent, MainAt
<1>4. /\ Queued \in Seq(S) /\ Len(Queued) = count
      /\ \A k \in 1 .. count : /\ (head + k - 1) % QueueSize \in Indices
                               /\ Queued[k] = slots[(head + k - 1) % QueueSize].frame
  BY <1>1, QueuedSlots
<1>5. Queued # <<>>
  BY <1>2, <1>4
<1>6. out' = Head(Queued)
  <2>1. (head + 1 - 1) % QueueSize = head
    BY <1>2
  <2>2. Queued[1] = slots[head].frame
    BY <1>2, <1>4, <2>1
  <2>3. Head(Queued) = Queued[1]
    BY <1>4, <1>5
  <2> QED
    BY <1>3, <2>2, <2>3
<1>7. /\ Queued' \in Seq(S) /\ Len(Queued') = count - 1
      /\ \A k \in 1 .. (count - 1) : Queued'[k] = slots'[(head' + k - 1) % QueueSize].frame
  BY <1>1, <1>3, QueuedSlotsPrime
<1> HIDE DEF S
<1>8. /\ Tail(Queued) \in Seq(S) /\ Len(Tail(Queued)) = count - 1
      /\ \A k \in 1 .. (count - 1) : Tail(Queued)[k] = Queued[k + 1]
  BY <1>4, <1>5, HeadTailProperties
<1>9. ASSUME NEW k \in 1 .. (count - 1)
      PROVE  Queued'[k] = Tail(Queued)[k]
  <2> DEFINE i == (head + k) % QueueSize
  <2>1. k + 1 \in 1 .. count /\ head + (k + 1) - 1 = head + k
    BY <1>2
  <2>2. i \in Indices /\ Queued[k + 1] = slots[i].frame
    BY <1>4, <2>1
  <2>3. (head' + k - 1) % QueueSize = i
    <3>1. head' = IF head + 1 < QueueSize THEN head + 1 ELSE head + 1 - QueueSize
      BY <1>2, <1>3, Wrap
    <3>2. i = IF head + k < QueueSize THEN head + k ELSE head + k - QueueSize
      BY <1>2, Wrap
    <3>3. PICK n \in 0 .. (2 * QueueSize - 1) : n = head' + k - 1
      BY <1>2, <3>1
    <3>4. n % QueueSize = IF n < QueueSize THEN n ELSE n - QueueSize
      BY Wrap
    <3> QED
      BY <1>2, <3>1, <3>2, <3>3, <3>4
  <2>4. slots'[i].frame = slots[i].frame
    BY <1>1, <1>3, <2>2 DEF TypeOK
  <2> QED
    BY <1>7, <1>8, <2>2, <2>3, <2>4
<1>10. Queued' = Tail(Queued)
  BY <1>7, <1>8, <1>9, SeqEqual
<1> QED
  BY <1>5, <1>6, <1>10

(* Fifo's definitions, with the mapping applied.                           *)
LEMMA FifoStep ==
  ASSUME IInv, IInv', [Next]_vars
  PROVE  [Fifo!FifoNext]_(Fifo!fifoVars)
<1> USE DEF device, control, rx_queue, handler, caller, MainAt
<1>1. TypeOK /\ TypeOK' /\ Len(Queued) = count /\ Len(Queued') = count'
  BY QueuedSlots, QueuedSlotsPrime DEF IInv
<1>2. ASSUME UNCHANGED <<slots, head, count>>
      PROVE  Queued' = Queued
  BY <1>2 DEF Queued
<1>3. CASE FrameArrives
  <2>1. Queued' = Queued
    BY <1>2, <1>3 DEF FrameArrives
  <2>2. Fifo!Arrive
    BY <1>3, <2>1 DEF FrameArrives, Fifo!Arrive
  <2> QED
    BY <2>2 DEF Fifo!FifoNext
<1>4. CASE IrqReceive
  <2>1. UNCHANGED out
    BY <1>4 DEF IrqReceive
  <2>2. CASE ~Receivable
    <3>1. UNCHANGED <<ring, slots, head, count, dropped>>
      BY <1>4, <2>2 DEF IrqReceive
    <3> QED
      BY <1>2, <2>1, <3>1 DEF Fifo!fifoVars
  <2>3. CASE Receivable /\ count < QueueSize
    <3>1. Queued' = Append(Queued, Head(ring))
      BY <1>4, <2>3, PutAppends
    <3>2. ring # <<>> /\ ring' = Tail(ring) /\ UNCHANGED dropped
      BY <1>1, <1>4, <2>3, SizeAssumption DEF IrqReceive, Receivable, TypeOK
    <3>3. Fifo!Put
      BY <1>1, <2>1, <2>3, <3>1, <3>2 DEF Fifo!Put
    <3> QED
      BY <3>3 DEF Fifo!FifoNext
  <2>4. CASE Receivable /\ count >= QueueSize
    <3>1. count = QueueSize /\ UNCHANGED <<slots, head, count>>
      BY <1>1, <1>4, <2>4, SizeAssumption DEF IrqReceive, TypeOK
    <3>2. ring # <<>> /\ ring' = Tail(ring) /\ dropped' = (dropped + 1) % CounterModulus
      BY <1>4, <2>4 DEF IrqReceive, Receivable
    <3>3. Fifo!Drop
      BY <1>1, <1>2, <2>1, <3>1, <3>2 DEF Fifo!Drop
    <3> QED
      BY <3>3 DEF Fifo!FifoNext
  <2> QED
    BY <1>1, <2>2, <2>3, <2>4, SizeAssumption DEF TypeOK
<1>5. CASE ReceiveStore
  <2>1. Queued # <<>> /\ out' = Head(Queued) /\ Queued' = Tail(Queued)
    BY <1>5, StoreTakes
  <2>2. Fifo!Take
    BY <1>5, <2>1 DEF ReceiveStore, Fifo!Take
  <2> QED
    BY <2>2 DEF Fifo!FifoNext
<1>6. CASE InitQueue \/ FlushClear
  <2>1. count' = 0 /\ UNCHANGED <<ring, out>> /\ (dropped' = dropped \/ dropped' = 0)
    BY <1>6 DEF InitQueue, FlushClear, ZeroQueue
  <2>2. Queued' = <<>>
    <3>1. Queued' \in Seq(Frames \cup {NoFrame}) /\ Len(Queued') = 0
      BY <1>1, <2>1, QueuedSlotsPrime
    <3> QED
      BY <3>1, EmptySeq
  <2>3. Fifo!Clear
    BY <2>1, <2>2 DEF Fifo!Clear
  <2> QED
    BY <2>3 DEF Fifo!FifoNext
<1>7. CASE FrameOverflows \/ IrqEnter \/ IrqClear
  <2>1. UNCHANGED <<ring, slots, head, count, dropped, out>>
    BY <1>7 DEF FrameOverflows, IrqEnter, IrqClear
  <2> QED
    BY <1>2, <2>1 DEF Fifo!fifoVars
<1>8. CASE InitGic \/ InitMask \/ ReceiveDisable \/ FlushDisable \/ ReceiveNothing
             \/ ReceiveCopy \/ Enable \/ ShutdownMask \/ ShutdownGic \/ ShutdownUnregister
  <2>1. UNCHANGED <<ring, slots, head, count, dropped, out>>
    BY <1>8 DEF InitGic, InitMask, ReceiveDisable, FlushDisable, ReceiveNothing, ReceiveCopy,
                Enable, ShutdownMask, ShutdownGic, ShutdownUnregister
  <2> QED
    BY <1>2, <2>1 DEF Fifo!fifoVars
<1>9. CASE UNCHANGED vars
  <2>1. UNCHANGED <<ring, slots, head, count, dropped, out>>
    BY <1>9 DEF vars
  <2> QED
    BY <1>2, <2>1 DEF Fifo!fifoVars
<1> QED
  BY <1>3, <1>4, <1>5, <1>6, <1>7, <1>8, <1>9 DEF Next, Device, Handler, Main, Section

LEMMA FifoStart == Init => Fifo!FifoInit
<1> SUFFICES ASSUME Init PROVE Fifo!FifoInit
  OBVIOUS
<1>1. Queued \in Seq(Frames \cup {NoFrame}) /\ Len(Queued) = 0
  BY InvariantInit, QueuedSlots DEF IInv, Init
<1>2. Queued = <<>>
  BY <1>1, EmptySeq
<1> QED
  BY <1>2 DEF Init, Fifo!FifoInit

(* Reception as its caller sees it is a bounded queue: frames come out in  *)
(* the order they came in, each once, one is lost only when the queue is   *)
(* full, and every loss is counted.                                        *)
THEOREM ReceptionIsFifo == Spec => ImplementsFifo
<1>1. IInv /\ IInv' /\ [Next]_vars => [Fifo!FifoNext]_(Fifo!fifoVars)
  BY FifoStep
<1> QED
  BY InvariantInit, InvariantNext, FifoStart, <1>1, PTL DEF Spec, ImplementsFifo, Fifo!FifoSpec
=============================================================================
