----------------------------- MODULE PacketFifo -----------------------------
(***************************************************************************)
(* What interrupt-driven reception promises its caller: a bounded queue    *)
(* that hands frames out in the order they came in, each one once, that    *)
(* loses one only when it is full, and that counts what it loses.          *)
(* EthernetIrq implements it.                                              *)
(***************************************************************************)
EXTENDS Naturals, Sequences

CONSTANTS Frames, NoFrame, Capacity, CounterModulus

VARIABLES
  input,     \* frames that arrived and were not looked at yet
  queue,     \* frames waiting for the caller
  out,       \* the frame the last receive returned
  dropped    \* frames lost because the queue was full

fifoVars == <<input, queue, out, dropped>>

FifoInit == input = <<>> /\ queue = <<>> /\ out = NoFrame /\ dropped = 0

Arrive ==
  /\ \E f \in Frames : input' = Append(input, f)
  /\ UNCHANGED <<queue, out, dropped>>

Put ==
  /\ input # <<>> /\ Len(queue) < Capacity
  /\ queue' = Append(queue, Head(input))
  /\ input' = Tail(input)
  /\ UNCHANGED <<out, dropped>>

Drop ==
  /\ input # <<>> /\ Len(queue) = Capacity
  /\ input' = Tail(input)
  /\ dropped' = (dropped + 1) % CounterModulus
  /\ UNCHANGED <<queue, out>>

Take ==
  /\ queue # <<>>
  /\ out' = Head(queue)
  /\ queue' = Tail(queue)
  /\ UNCHANGED <<input, dropped>>

(* A flush forgets the frames; starting reception also clears the counter. *)
Clear ==
  /\ queue' = <<>>
  /\ dropped' \in {dropped, 0}
  /\ UNCHANGED <<input, out>>

FifoNext == Arrive \/ Put \/ Drop \/ Take \/ Clear

FifoSpec == FifoInit /\ [][FifoNext]_fifoVars
=============================================================================
