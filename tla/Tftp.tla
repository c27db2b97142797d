-------------------------------- MODULE Tftp --------------------------------
(***************************************************************************)
(* network_tftp_download of src/src/network.c and a server of RFC 1350, on *)
(* a segment that loses packets but keeps their order.  The client sends   *)
(* its request once and an acknowledgement per DATA packet it knows; it    *)
(* never sends anything again by itself.  The server repeats a block that  *)
(* is not acknowledged, and gives up after a while.                        *)
(*                                                                         *)
(* A block is its position in the file; what the packet carries of it is   *)
(* the position modulo 2^16.  Sizes are bytes, of small blocks.            *)
(***************************************************************************)
EXTENDS Naturals, Sequences

CONSTANTS
  BlockModulus,   \* 2^16: block numbers are uint16_t
  BlockSize,      \* 512
  FileSizes,      \* sizes of the files that are asked for
  BufferSizes,    \* values of max_size
  MaxTries,       \* NETWORK_MAX_RETRIES
  Capacity,       \* packets on the way in each direction
  Repeats,        \* how often the server repeats a block
  Strays          \* UDP packets of the server that are none of this transfer

ASSUME TftpAssumption ==
  /\ BlockModulus \in Nat \ {0, 1} /\ BlockSize \in Nat \ {0}
  /\ FileSizes \subseteq Nat /\ BufferSizes \subseteq Nat \ {0}
  /\ MaxTries \in Nat \ {0} /\ Capacity \in Nat \ {0}
  /\ Repeats \in Nat /\ Strays \in Nat

VARIABLES
  phase,            \* "idle", "request", "receive", "complete" or "failed"
  attempts,         \* retries of the request
  size,             \* of the file
  max_size,         \* of the buffer
  expected_block,
  server_port,      \* the port acknowledgements go to
  buffer,           \* the blocks copied, as positions in the file
  total_received,
  toClient,         \* packets on the way to the client, oldest first
  toServer,         \* and to the server
  serving,          \* the block the server waits for; 0: no session
  repeats,          \* how often it still repeats that block
  strays

client == <<phase, attempts, size, max_size, expected_block, server_port, buffer, total_received>>
server == <<serving, repeats, strays>>
tftpVars == <<client, toClient, toServer, server>>

Session == "session"    \* the port the server answers from
WellKnown == "69"       \* UDP_PORT_TFTP
OtherPort == "other"

LastBlock(bytes) == bytes \div BlockSize + 1
SizeOf(block) == IF block < LastBlock(size) THEN BlockSize ELSE size % BlockSize
Number(block) == block % BlockModulus

Data(block) == [op |-> "DATA", port |-> Session, block |-> block]
Error == [op |-> "ERROR", port |-> Session, block |-> 0]
Stray == [op |-> "other", port |-> OtherPort, block |-> 0]
Rrq == [op |-> "RRQ", number |-> 0]
Ack(number) == [op |-> "ACK", number |-> number]

TftpInit ==
  /\ phase = "idle" /\ attempts = 0
  /\ size = 0 /\ max_size = 0
  /\ expected_block = 1 /\ server_port = WellKnown
  /\ buffer = <<>> /\ total_received = 0
  /\ toClient = <<>> /\ toServer = <<>>
  /\ serving = 0 /\ repeats = 0 /\ strays = Strays

-----------------------------------------------------------------------------
(* The call, as far as its checks of the arguments.                        *)
BeginDownload ==
  /\ phase = "idle"
  /\ size' \in FileSizes /\ max_size' \in BufferSizes
  /\ phase' \in {"request", "failed"}
  /\ UNCHANGED <<attempts, expected_block, server_port, buffer, total_received,
                 toClient, toServer, server>>

(* The RRQ: the link address may be unknown and the ring full.             *)
SendRequest ==
  /\ phase = "request"
  /\ \/ /\ toServer' = Append(toServer, Rrq)
        /\ phase' = "receive"
        /\ UNCHANGED attempts
     \/ /\ attempts' = attempts + 1
        /\ phase' = IF attempts' = MaxTries THEN "failed" ELSE "request"
        /\ UNCHANGED toServer
  /\ UNCHANGED <<size, max_size, expected_block, server_port, buffer, total_received,
                 toClient, server>>

(* Acknowledgements reach the session only at its own port; what the send  *)
(* returns is not looked at.                                               *)
Acknowledge(number, port) ==
  toServer' = IF port = Session /\ Len(toServer) < Capacity
              THEN Append(toServer, Ack(number)) ELSE toServer

(* The packet that network_receive_packet returns next.  While the first   *)
(* block is expected every packet of that server sets the port, so also    *)
(* when the number has come round to 1.                                    *)
Packet == Head(toClient)
PortAfter == IF expected_block = 1 THEN Packet.port ELSE server_port
Receiving == phase = "receive" /\ toClient # <<>>
Taken == toClient' = Tail(toClient)

Expected == Packet.op = "DATA" /\ Number(Packet.block) = expected_block
Duplicate == Packet.op = "DATA" /\ Number(Packet.block) < expected_block

(* Mutant: any DATA packet is taken for the one that is expected.          *)
MutReceiveAny ==
  LET bytes == SizeOf(Packet.block)
      full == total_received + bytes >= max_size
  IN /\ Receiving /\ Packet.port = PortAfter /\ Packet.op = "DATA"
     /\ total_received + bytes <= max_size
     /\ Taken /\ server_port' = PortAfter
     /\ buffer' = Append(buffer, Packet.block)
     /\ total_received' = total_received + bytes
     /\ Acknowledge(expected_block, PortAfter)
     /\ expected_block' = (expected_block + 1) % BlockModulus
     /\ phase' = IF bytes < BlockSize \/ full THEN "complete" ELSE "receive"
     /\ UNCHANGED <<attempts, size, max_size, server>>

ReceiveBlock ==
  LET bytes == SizeOf(Packet.block)
      full == total_received + bytes >= max_size
  IN /\ Receiving /\ Packet.port = PortAfter /\ Expected
     /\ total_received + bytes <= max_size
     /\ Taken /\ server_port' = PortAfter
     /\ buffer' = Append(buffer, Packet.block)
     /\ total_received' = total_received + bytes
     /\ Acknowledge(expected_block, PortAfter)
     /\ expected_block' = (expected_block + 1) % BlockModulus
     /\ phase' = IF bytes < BlockSize \/ full THEN "complete" ELSE "receive"
     /\ UNCHANGED <<attempts, size, max_size, server>>

(* A DATA packet known already is acknowledged again, by number: past the  *)
(* wrap of the number an old one is larger, and is passed over.            *)
ReceiveDuplicate ==
  /\ Receiving /\ Packet.port = PortAfter /\ Duplicate
  /\ Taken /\ server_port' = PortAfter
  /\ Acknowledge(Number(Packet.block), PortAfter)
  /\ UNCHANGED <<phase, attempts, size, max_size, expected_block, buffer, total_received, server>>

(* Packets of another port or of no use.                                   *)
ReceiveOther ==
  /\ Receiving
  /\ \/ Packet.port # PortAfter
     \/ Packet.op = "other"
     \/ Packet.op = "DATA" /\ ~Expected /\ ~Duplicate
  /\ Taken /\ server_port' = PortAfter
  /\ UNCHANGED <<phase, attempts, size, max_size, expected_block, buffer, total_received,
                 toServer, server>>

(* An ERROR packet, or a block that no longer fits.                        *)
ReceiveFatal ==
  /\ Receiving /\ Packet.port = PortAfter
  /\ \/ Packet.op = "ERROR"
     \/ Expected /\ total_received + SizeOf(Packet.block) > max_size
  /\ Taken /\ server_port' = PortAfter
  /\ phase' = "failed"
  /\ UNCHANGED <<attempts, size, max_size, expected_block, buffer, total_received, toServer, server>>

(* Mutant: only the wait for the first block has a limit.                  *)
MutTimeoutFirst ==
  /\ phase = "receive" /\ toClient = <<>> /\ total_received = 0
  /\ phase' = "failed"
  /\ UNCHANGED <<attempts, size, max_size, expected_block, server_port, buffer, total_received,
                 toClient, toServer, server>>

(* Ten seconds without a packet: the call gives up.                        *)
ReceiveTimeout ==
  /\ phase = "receive" /\ toClient = <<>>
  /\ phase' = "failed"
  /\ UNCHANGED <<attempts, size, max_size, expected_block, server_port, buffer, total_received,
                 toClient, toServer, server>>

Client ==
  \/ SendRequest \/ ReceiveBlock \/ ReceiveDuplicate \/ ReceiveOther
  \/ ReceiveFatal \/ ReceiveTimeout

-----------------------------------------------------------------------------
(* The server and the segment.                                             *)
Send(packet) == Len(toClient) < Capacity /\ toClient' = Append(toClient, packet)

ServeRequest ==
  /\ toServer # <<>> /\ Head(toServer) = Rrq
  /\ toServer' = Tail(toServer)
  /\ \/ Send(Data(1)) /\ serving' = 1 /\ repeats' = Repeats
     \/ Send(Error) /\ UNCHANGED <<serving, repeats>>
  /\ UNCHANGED <<client, strays>>

ServeAck ==
  /\ toServer # <<>> /\ Head(toServer).op = "ACK"
  /\ toServer' = Tail(toServer)
  /\ IF serving = 0 \/ Head(toServer).number # Number(serving)
     THEN UNCHANGED <<toClient, serving, repeats>>
     ELSE IF serving = LastBlock(size)
     THEN serving' = 0 /\ UNCHANGED <<toClient, repeats>>
     ELSE Send(Data(serving + 1)) /\ serving' = serving + 1 /\ repeats' = Repeats
  /\ UNCHANGED <<client, strays>>

ServeAgain ==
  /\ serving # 0 /\ repeats > 0
  /\ Send(Data(serving))
  /\ repeats' = repeats - 1
  /\ UNCHANGED <<client, toServer, serving, strays>>

SendStray ==
  /\ phase = "receive" /\ strays > 0
  /\ Send(Stray)
  /\ strays' = strays - 1
  /\ UNCHANGED <<client, toServer, serving, repeats>>

Lose ==
  /\ \/ toClient # <<>> /\ toClient' = Tail(toClient) /\ UNCHANGED toServer
     \/ toServer # <<>> /\ toServer' = Tail(toServer) /\ UNCHANGED toClient
  /\ UNCHANGED <<client, server>>

Network == ServeRequest \/ ServeAck \/ ServeAgain \/ SendStray \/ Lose

Over == phase \in {"complete", "failed"} /\ UNCHANGED tftpVars

TftpNext == BeginDownload \/ Client \/ Network \/ Over

(* The client polls: it takes what is there, and times out if nothing is.  *)
TftpFairness == WF_tftpVars(Client)
TftpSpec == TftpInit /\ [][TftpNext]_tftpVars /\ TftpFairness

-----------------------------------------------------------------------------
TftpTypeOK ==
  /\ phase \in {"idle", "request", "receive", "complete", "failed"}
  /\ attempts \in 0 .. MaxTries
  /\ expected_block \in 0 .. (BlockModulus - 1)
  /\ server_port \in {Session, WellKnown, OtherPort}
  /\ buffer \in Seq(Nat) /\ total_received <= max_size
  /\ Len(toClient) <= Capacity /\ Len(toServer) <= Capacity
  /\ repeats \in 0 .. Repeats /\ strays \in 0 .. Strays

(* The download implements the abstract transfer, over losses, repeated    *)
(* blocks, strays and block numbers that wrap.  A buffer whose size is a   *)
(* multiple of the block's ends a longer file early and with success.      *)
Transfer == INSTANCE FileTransfer WITH
  file <- [k \in 1 .. LastBlock(size) |-> k],
  room <- IF max_size % BlockSize = 0 THEN max_size \div BlockSize ELSE 0,
  copied <- buffer,
  outcome <- IF phase \in {"complete", "failed"} THEN phase ELSE "running"
ImplementsTransfer == Transfer!TransferSpec

(* A download ends, whatever is lost, as long as the server does not       *)
(* repeat a block, or send other packets, without end.                     *)
DownloadEnds == (phase = "request") ~> (phase \in {"complete", "failed"})
=============================================================================
