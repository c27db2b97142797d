----------------------------- MODULE BusTransfers ---------------------------
(***************************************************************************)
(* The polled transfers of src/src/i2c.c, src/src/spi.c and src/src/dma.c. *)
(* Each driver waits for a status bit of its controller without a limit:   *)
(* a step of the driver needs the bit, and a controller that does not set  *)
(* it keeps the caller.  Bytes are counted; an I2C device may be absent,   *)
(* which the controller reports with ERR and DONE.                         *)
(*                                                                         *)
(* I2C has one FIFO for both directions, and only i2c_init empties it: the *)
(* bytes of a write that failed are still there when the next call starts, *)
(* which sends them first or reads them as if they came from the device.   *)
(***************************************************************************)
EXTENDS Naturals

CONSTANTS
  Lengths,    \* bytes of a transfer
  FifoSize    \* bytes of a FIFO: 16

ASSUME BusAssumption == Lengths \subseteq Nat /\ FifoSize \in Nat \ {0}

VARIABLES
  bus,        \* the running call: "none", "write", "read", "spi" or "dma"
  length,     \* its len
  count_tx,   \* bytes the driver has put into the FIFO
  count_rx,   \* and taken out
  fifo,       \* bytes in I2C_FIFO
  left,       \* ghost: those that were there when the call started
  fifo_tx, fifo_rx,   \* bytes in the two FIFOs of SPI
  moved,      \* bytes the controller has moved over the wires
  present,    \* the I2C device answers to its address
  DONE, ERR,  \* of I2C_S; DMA_CS_END and DMA_CS_ERROR; SPI_CS_DONE
  RESET,      \* DMA_CS_RESET, then DMA_CS_ACTIVE
  outcome     \* of the last call

fifos == <<fifo, fifo_tx, fifo_rx>>
hardware == <<fifos, left, moved, present, DONE, ERR, RESET>>
busVars == <<bus, length, count_tx, count_rx, hardware, outcome>>

BusInit ==
  /\ bus = "none" /\ length = 0
  /\ count_tx = 0 /\ count_rx = 0
  /\ fifo = 0 /\ left = 0 /\ fifo_tx = 0 /\ fifo_rx = 0 /\ moved = 0
  /\ present = TRUE /\ DONE = FALSE /\ ERR = FALSE /\ RESET = FALSE
  /\ outcome = "ok"

-----------------------------------------------------------------------------
(* Disables the controller and clears its FIFO (I2C_C_CLEAR).              *)
i2c_init ==
  /\ bus = "none"
  /\ fifo' = 0 /\ left' = 0
  /\ UNCHANGED <<bus, length, count_tx, count_rx, fifo_tx, fifo_rx, moved, present,
                 DONE, ERR, RESET, outcome>>

(* A call clears the status and starts the controller; for DMA it resets   *)
(* the channel first.  spi_transfer clears its FIFOs, i2c_write and        *)
(* i2c_read leave theirs as it is.                                         *)
Begin(transfer) ==
  /\ bus = "none"
  /\ bus' = transfer
  /\ length' \in Lengths
  /\ present' \in BOOLEAN
  /\ count_tx' = 0 /\ count_rx' = 0 /\ moved' = 0
  /\ IF transfer = "spi" THEN fifo_tx' = 0 /\ fifo_rx' = 0 ELSE UNCHANGED <<fifo_tx, fifo_rx>>
  /\ left' = fifo
  /\ DONE' = FALSE /\ ERR' = FALSE
  /\ RESET' = (transfer = "dma")
  /\ UNCHANGED <<fifo, outcome>>

(* TXD: there is room in the FIFO.                                         *)
SendByte ==
  /\ count_tx < length
  /\ \/ /\ bus = "write" /\ fifo < FifoSize
        /\ fifo' = fifo + 1 /\ UNCHANGED <<fifo_tx, fifo_rx>>
     \/ /\ bus = "spi" /\ fifo_tx < FifoSize
        /\ fifo_tx' = fifo_tx + 1 /\ UNCHANGED <<fifo, fifo_rx>>
  /\ count_tx' = count_tx + 1
  /\ UNCHANGED <<bus, length, count_rx, left, moved, present, DONE, ERR, RESET, outcome>>

(* Mutant: SPI reads when everything has been sent.                        *)
MutReceiveLater ==
  /\ count_rx < length
  /\ \/ /\ bus = "read" /\ fifo > 0
        /\ fifo' = fifo - 1 /\ UNCHANGED <<fifo_tx, fifo_rx>>
     \/ /\ bus = "spi" /\ fifo_rx > 0 /\ count_tx = length
        /\ fifo_rx' = fifo_rx - 1 /\ UNCHANGED <<fifo, fifo_tx>>
  /\ count_rx' = count_rx + 1
  /\ UNCHANGED <<bus, length, count_tx, left, moved, present, DONE, ERR, RESET, outcome>>

(* RXD: there is a byte in it.  spi_transfer sends and receives in turn.   *)
ReceiveByte ==
  /\ count_rx < length
  /\ \/ /\ bus = "read" /\ fifo > 0
        /\ fifo' = fifo - 1 /\ UNCHANGED <<fifo_tx, fifo_rx>>
     \/ /\ bus = "spi" /\ fifo_rx > 0
        /\ fifo_rx' = fifo_rx - 1 /\ UNCHANGED <<fifo, fifo_tx>>
  /\ count_rx' = count_rx + 1
  /\ UNCHANGED <<bus, length, count_tx, left, moved, present, DONE, ERR, RESET, outcome>>

(* The wait for the end, and the error of I2C and DMA.                     *)
AllMoved ==
  /\ bus \in {"write", "spi"} => count_tx = length
  /\ bus \in {"read", "spi"} => count_rx = length

Complete ==
  /\ bus # "none" /\ AllMoved /\ DONE
  /\ outcome' = IF ERR /\ bus # "spi" THEN "failed" ELSE "ok"
  /\ bus' = "none"
  /\ UNCHANGED <<length, count_tx, count_rx, hardware>>

(* dma_transfer_async starts the channel and returns; dma_wait_transfer    *)
(* then waits as dma_transfer does, and dma_abort_transfer does not.       *)
dma_abort_transfer ==
  /\ bus = "dma" /\ ~RESET /\ ~DONE
  /\ bus' = "none"
  /\ UNCHANGED <<length, count_tx, count_rx, hardware, outcome>>

-----------------------------------------------------------------------------
(* The controllers.                                                        *)
Shift ==
  /\ ~DONE /\ moved < length
  /\ \/ /\ bus = "write" /\ present /\ fifo > 0
        /\ fifo' = fifo - 1 /\ UNCHANGED <<fifo_tx, fifo_rx>>
     \/ /\ bus = "read" /\ present /\ fifo < FifoSize
        /\ fifo' = fifo + 1 /\ UNCHANGED <<fifo_tx, fifo_rx>>
     \/ /\ bus = "spi" /\ fifo_tx > 0 /\ fifo_rx < FifoSize
        /\ fifo_tx' = fifo_tx - 1 /\ fifo_rx' = fifo_rx + 1 /\ UNCHANGED fifo
  /\ moved' = moved + 1
  /\ UNCHANGED <<bus, length, count_tx, count_rx, left, present, DONE, ERR, RESET, outcome>>

EndTransfer ==
  /\ ~DONE
  /\ \/ bus \in {"write", "read", "spi"} /\ moved = length /\ UNCHANGED ERR
     \/ bus \in {"write", "read"} /\ ~present /\ ERR' = TRUE
     \/ bus = "dma" /\ ~RESET /\ ERR' \in BOOLEAN
  /\ DONE' = TRUE
  /\ UNCHANGED <<bus, length, count_tx, count_rx, fifos, left, moved, present, RESET, outcome>>

ChannelReset ==
  /\ RESET
  /\ RESET' = FALSE
  /\ UNCHANGED <<bus, length, count_tx, count_rx, fifos, left, moved, present, DONE, ERR, outcome>>

(* A read from an absent device that wants more than the FIFO still holds, *)
(* and a write to one of more than it has room for, wait for ever: the     *)
(* loops look at RXD and TXD and never at ERR.                             *)
Hung ==
  /\ DONE /\ ~present
  /\ \/ bus = "read" /\ count_rx < length /\ fifo = 0
     \/ bus = "write" /\ count_tx < length /\ fifo = FifoSize
  /\ UNCHANGED busVars

Driver == SendByte \/ ReceiveByte \/ Complete
BusController == Shift \/ EndTransfer \/ ChannelReset

BusNext ==
  \/ \E transfer \in {"write", "read", "spi", "dma"} : Begin(transfer)
  \/ Driver \/ i2c_init \/ dma_abort_transfer \/ BusController \/ Hung

(* The driver polls, and the controllers do their work.                    *)
BusFairness == WF_busVars(Driver) /\ WF_busVars(BusController)
BusSpec == BusInit /\ [][BusNext]_busVars /\ BusFairness

-----------------------------------------------------------------------------
BusTypeOK ==
  /\ bus \in {"none", "write", "read", "spi", "dma"}
  /\ {count_tx, count_rx, moved} \subseteq 0 .. length
  /\ {fifo, left, fifo_tx, fifo_rx} \subseteq 0 .. FifoSize
  /\ {present, DONE, ERR, RESET} \subseteq BOOLEAN
  /\ outcome \in {"ok", "failed"}

(* A transfer with a device that is there comes to its end, also if it is  *)
(* longer than the FIFOs and if a write that failed has left bytes in the  *)
(* FIFO: no wait of the driver is for what the controller does only after  *)
(* the driver's next step.                                                 *)
TransferEnds == (bus # "none" /\ (present \/ bus \in {"spi", "dma"})) ~> (bus = "none")
=============================================================================
