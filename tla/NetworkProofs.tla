---------------------------- MODULE NetworkProofs ---------------------------
(***************************************************************************)
(* The network stack, layer by layer, for every value of the constants:    *)
(* file and block sizes, the modulus of the block numbers, hosts, slots    *)
(* and limits.                                                             *)
(*                                                                         *)
(* A TFTP download implements the abstract transfer of FileTransfer: what  *)
(* is in the buffer is a beginning of the file, though block numbers go    *)
(* round and blocks and acknowledgements are lost or repeated.  The caches *)
(* answer with what was announced, the first announcement before a later   *)
(* one.  And no discovery over IPv4 sends anything.                        *)
(***************************************************************************)
EXTENDS MCNetwork, EthernetIrqProofs, SequenceTheorems, WellFoundedInduction, TLAPS

-----------------------------------------------------------------------------
(* TFTP.                                                                   *)
(*                                                                         *)
(* Remainders, where the divisor is a parameter.                           *)
LEMMA Remainder ==
  ASSUME NEW m \in Nat \ {0}, NEW q \in Nat, NEW r \in 0 .. (m - 1),
         NEW x, x = m * q + r
  PROVE  x % m = r
<1> DEFINE p == x \div m
           t == x % m
<1>1. x \in Nat
  OBVIOUS
<1>2. p \in Int /\ t \in 0 .. (m - 1) /\ x = m * p + t
  BY <1>1
<1>3. m * p + t = m * q + r
  BY <1>2
<1> HIDE DEF p, t
<1>4. m * (p - q) = r - t
  BY <1>2, <1>3
<1>5. ASSUME p - q >= 1 PROVE FALSE
  <2>1. m * (p - q) >= m
    BY <1>2, <1>5
  <2> QED
    BY <1>2, <1>4, <2>1
<1>6. ASSUME p - q <= -1 PROVE FALSE
  <2>1. m * (p - q) <= -m
    BY <1>2, <1>6
  <2> QED
    BY <1>2, <1>4, <2>1
<1>7. p - q = 0
  BY <1>2, <1>5, <1>6
<1>8. t = r
  BY <1>2, <1>4, <1>7
<1> QED
  BY <1>8 DEF t

LEMMA NextRemainder ==
  ASSUME NEW m \in Nat \ {0}, NEW n \in Nat
  PROVE  (n + 1) % m = IF (n % m) + 1 < m THEN (n % m) + 1 ELSE 0
<1>1. PICK q \in Nat, r \in 0 .. (m - 1) : n = m * q + r /\ r = n % m
  <2>1. n \div m \in Nat /\ n % m \in 0 .. (m - 1) /\ n = m * (n \div m) + (n % m)
    OBVIOUS
  <2> QED
    BY <2>1
<1> DEFINE x == n + 1
           s == r + 1
           p == q + 1
<1>2. CASE r + 1 < m
  <2>1. x = m * q + s /\ s \in 0 .. (m - 1)
    BY <1>1, <1>2
  <2> HIDE DEF x, s
  <2>2. x % m = s
    BY <2>1, Remainder
  <2> QED
    BY <1>1, <1>2, <2>2 DEF x, s
<1>3. CASE ~(r + 1 < m)
  <2>1. x = m * p + 0 /\ p \in Nat /\ 0 \in 0 .. (m - 1)
    <3>1. r = m - 1
      BY <1>3
    <3>2. m * (q + 1) = m * q + m /\ m * q \in Nat
      OBVIOUS
    <3> QED
      BY <1>1, <3>1, <3>2
  <2> HIDE DEF x, p
  <2>2. x % m = 0
    BY <2>1, Remainder
  <2> QED
    BY <1>1, <1>3, <2>2 DEF x
<1> QED
  BY <1>2, <1>3

(* Block numbers go round, and two neighbours never have the same one.     *)
LEMMA NumberStep ==
  ASSUME NEW n \in Nat
  PROVE  /\ Number(n) \in 0 .. (BlockModulus - 1)
         /\ Number(n + 1) = (Number(n) + 1) % BlockModulus
         /\ Number(n + 1) # Number(n)
<1>1. BlockModulus \in Nat \ {0} /\ BlockModulus > 1
  BY TftpAssumption
<1>2. PICK r \in 0 .. (BlockModulus - 1) : r = n % BlockModulus
  BY <1>1
<1>3. (n + 1) % BlockModulus
        = IF (n % BlockModulus) + 1 < BlockModulus THEN (n % BlockModulus) + 1 ELSE 0
  BY <1>1, NextRemainder, Zenon
<1>4. r \in Nat /\ r % BlockModulus = r
  BY <1>1
<1>5. (r + 1) % BlockModulus
        = IF (r % BlockModulus) + 1 < BlockModulus THEN (r % BlockModulus) + 1 ELSE 0
  BY <1>1, <1>4, NextRemainder, Zenon
<1> QED
  BY <1>1, <1>2, <1>3, <1>4, <1>5 DEF Number

(* The arithmetic of sizes in whole blocks.                                *)
LEMMA WholeBlocks ==
  ASSUME NEW k \in Nat
  PROVE  k * BlockSize \in Nat /\ (k * BlockSize) % BlockSize = 0 /\ (k * BlockSize) \div BlockSize = k
BY TftpAssumption

LEMMA LastBlockPositive ==
  ASSUME NEW bytes \in Nat
  PROVE  LastBlock(bytes) \in Nat \ {0}
BY TftpAssumption DEF LastBlock

-----------------------------------------------------------------------------
(* The types of the packets, and what TftpTypeOK leaves open.              *)
PacketsToClient == [op: {"DATA", "ERROR", "other"}, port: {Session, OtherPort}, block: Nat]
PacketsToServer == [op: {"RRQ", "ACK"}, number: Nat]

WideTypeOK ==
  /\ TftpTypeOK
  /\ size \in Nat /\ max_size \in Nat /\ total_received \in Nat /\ serving \in Nat
  /\ toClient \in Seq(PacketsToClient) /\ toServer \in Seq(PacketsToServer)

(* The DATA packets on the way to a client that has n blocks while the     *)
(* server waits for block s: the block before s, then s; once the client   *)
(* has s, it alone.                                                        *)
BlocksInOrder(c, s, n) ==
  /\ \A i \in 1 .. Len(c) :
       c[i].op = "DATA" => c[i].block \in {s - 1, s} /\ (n = s => c[i].block = s)
  /\ \A i, j \in 1 .. Len(c) :
       i < j /\ c[i].op = "DATA" /\ c[j].op = "DATA" => c[i].block <= c[j].block

(* The packets on the way to the server: acknowledgements of the block     *)
(* before s, and then, if the client has s, of s.                          *)
AcksInOrder(t, s, n) ==
  /\ \A i \in 1 .. Len(t) :
       /\ t[i].op = "ACK"
       /\ t[i].number \in {Number(s - 1), Number(s)}
       /\ n = s - 1 => t[i].number = Number(s - 1)
  /\ \A i, j \in 1 .. Len(t) : i < j /\ t[i].number = Number(s) => t[j].number = Number(s)

LEMMA AppendElements ==
  ASSUME NEW S, NEW q \in Seq(S), NEW e \in S
  PROVE  /\ Append(q, e) \in Seq(S) /\ Len(Append(q, e)) = Len(q) + 1
         /\ \A i \in 1 .. Len(q) : Append(q, e)[i] = q[i]
         /\ Append(q, e)[Len(q) + 1] = e
OBVIOUS

(* What the client takes, or the segment loses, keeps the order.           *)
LEMMA BlocksTail ==
  ASSUME NEW c \in Seq(PacketsToClient), c # <<>>, NEW s \in Nat, NEW n \in Nat,
         BlocksInOrder(c, s, n)
  PROVE  BlocksInOrder(Tail(c), s, n)
<1>1. Len(c) \in Nat /\ Len(Tail(c)) = Len(c) - 1
      /\ \A i \in 1 .. Len(Tail(c)) : Tail(c)[i] = c[i + 1]
  BY HeadTailProperties
<1>2. \A i \in 1 .. Len(Tail(c)) : i + 1 \in 1 .. Len(c)
  BY <1>1
<1>3. \A i, j \in 1 .. Len(Tail(c)) : i < j => i + 1 < j + 1
  BY <1>1
<1> QED
  BY <1>1, <1>2, <1>3 DEF BlocksInOrder

LEMMA AcksTail ==
  ASSUME NEW t \in Seq(PacketsToServer), t # <<>>, NEW s \in Nat, NEW n \in Nat,
         AcksInOrder(t, s, n)
  PROVE  AcksInOrder(Tail(t), s, n)
<1>1. Len(t) \in Nat /\ Len(Tail(t)) = Len(t) - 1
      /\ \A i \in 1 .. Len(Tail(t)) : Tail(t)[i] = t[i + 1]
  BY HeadTailProperties
<1>2. \A i \in 1 .. Len(Tail(t)) : i + 1 \in 1 .. Len(t)
  BY <1>1
<1>3. \A i, j \in 1 .. Len(Tail(t)) : i < j => i + 1 < j + 1
  BY <1>1
<1> QED
  BY <1>1, <1>2, <1>3 DEF AcksInOrder

(* The server sends the block it waits for, or something that is no block. *)
LEMMA BlocksAppend ==
  ASSUME NEW c \in Seq(PacketsToClient), NEW e \in PacketsToClient,
         NEW s \in Nat, NEW n \in Nat, BlocksInOrder(c, s, n), e.op = "DATA" => e.block = s
  PROVE  BlocksInOrder(Append(c, e), s, n)
<1> DEFINE d == Append(c, e)
<1>1. /\ Len(c) \in Nat /\ Len(d) = Len(c) + 1
      /\ \A i \in 1 .. Len(c) : d[i] = c[i]
      /\ d[Len(c) + 1] = e
  BY AppendElements
<1> HIDE DEF d
<1>2. \A i \in 1 .. Len(d) : i \in 1 .. Len(c) \/ i = Len(c) + 1
  BY <1>1
<1>3. \A i \in 1 .. Len(d) :
        d[i].op = "DATA" => d[i].block \in {s - 1, s} /\ (n = s => d[i].block = s)
  BY <1>1, <1>2 DEF BlocksInOrder
<1>4. ASSUME NEW i \in 1 .. Len(d), NEW j \in 1 .. Len(d), i < j,
             d[i].op = "DATA", d[j].op = "DATA"
      PROVE  d[i].block <= d[j].block
  <2>1. i \in 1 .. Len(c)
    BY <1>1, <1>2, <1>4
  <2>2. CASE j \in 1 .. Len(c)
    BY <1>1, <1>4, <2>1, <2>2 DEF BlocksInOrder
  <2>3. CASE j = Len(c) + 1
    BY <1>1, <1>3, <1>4, <2>3
  <2> QED
    BY <1>2, <2>2, <2>3
<1>5. BlocksInOrder(d, s, n)
  BY <1>3, <1>4 DEF BlocksInOrder
<1> QED
  BY <1>5 DEF d

(* It goes on to the next block once the client has the last one.          *)
LEMMA BlocksAdvance ==
  ASSUME NEW c \in Seq(PacketsToClient), NEW s \in Nat, BlocksInOrder(c, s, s)
  PROVE  BlocksInOrder(Append(c, Data(s + 1)), s + 1, s)
<1>1. BlocksInOrder(c, s + 1, s)
  BY DEF BlocksInOrder
<1>2. Data(s + 1) \in PacketsToClient /\ Data(s + 1).block = s + 1
  BY DEF Data, PacketsToClient
<1> QED
  BY <1>1, <1>2, BlocksAppend

(* The client takes block s: nothing older is behind it.                   *)
LEMMA BlocksCopied ==
  ASSUME NEW c \in Seq(PacketsToClient), c # <<>>, NEW s \in Nat, NEW n \in Nat,
         BlocksInOrder(c, s, n), Head(c).op = "DATA", Head(c).block = s
  PROVE  BlocksInOrder(Tail(c), s, s)
<1>1. Len(c) \in Nat /\ Len(Tail(c)) = Len(c) - 1 /\ Len(c) > 0 /\ Head(c) = c[1]
      /\ \A i \in 1 .. Len(Tail(c)) : Tail(c)[i] = c[i + 1]
  BY HeadTailProperties
<1>2. BlocksInOrder(Tail(c), s, n)
  BY BlocksTail
<1>3. ASSUME NEW i \in 1 .. Len(Tail(c)), Tail(c)[i].op = "DATA"
      PROVE  Tail(c)[i].block = s
  <2>1. i + 1 \in 1 .. Len(c) /\ 1 \in 1 .. Len(c) /\ 1 < i + 1
    BY <1>1
  <2>2. c[1].block <= c[i + 1].block
    BY <1>1, <1>3, <2>1 DEF BlocksInOrder
  <2>3. c[i + 1].block \in {s - 1, s}
    BY <1>1, <1>3, <2>1 DEF BlocksInOrder
  <2> QED
    BY <1>1, <2>2, <2>3
<1> QED
  BY <1>2, <1>3 DEF BlocksInOrder

(* The client acknowledges the last block it has.                          *)
LEMMA AcksAppend ==
  ASSUME NEW t \in Seq(PacketsToServer), NEW s \in Nat \ {0}, NEW n \in {s - 1, s},
         AcksInOrder(t, s, n)
  PROVE  AcksInOrder(Append(t, Ack(Number(n))), s, n)
<1> DEFINE e == Ack(Number(n))
           d == Append(t, e)
<1>1. Number(n) \in Nat
  <2>1. n \in Nat
    OBVIOUS
  <2> QED
    BY <2>1, NumberStep, TftpAssumption
<1>2. e \in PacketsToServer /\ e.op = "ACK" /\ e.number = Number(n)
  BY <1>1 DEF Ack, PacketsToServer
<1> HIDE DEF e
<1>3. /\ Len(t) \in Nat /\ Len(d) = Len(t) + 1
      /\ \A i \in 1 .. Len(t) : d[i] = t[i]
      /\ d[Len(t) + 1] = e
  BY <1>2, AppendElements
<1> HIDE DEF d
<1>4. \A i \in 1 .. Len(d) : i \in 1 .. Len(t) \/ i = Len(t) + 1
  BY <1>3
<1>5. \A i \in 1 .. Len(d) :
        /\ d[i].op = "ACK"
        /\ d[i].number \in {Number(s - 1), Number(s)}
        /\ n = s - 1 => d[i].number = Number(s - 1)
  BY <1>2, <1>3, <1>4 DEF AcksInOrder
<1>6. Number(s) # Number(s - 1)
  <2>1. s - 1 \in Nat /\ (s - 1) + 1 = s
    OBVIOUS
  <2> QED
    BY <2>1, NumberStep
<1>7. ASSUME NEW i \in 1 .. Len(d), NEW j \in 1 .. Len(d), i < j, d[i].number = Number(s)
      PROVE  d[j].number = Number(s)
  <2>1. i \in 1 .. Len(t)
    BY <1>3, <1>4, <1>7
  <2>2. n = s
    BY <1>3, <1>6, <1>7, <2>1 DEF AcksInOrder
  <2> QED
    BY <1>2, <1>3, <1>4, <1>7, <2>1, <2>2 DEF AcksInOrder
<1>8. AcksInOrder(d, s, n)
  BY <1>5, <1>7 DEF AcksInOrder
<1> QED
  BY <1>8 DEF d, e

(* Before the client has block s, the order does not depend on it.         *)
LEMMA AcksCopied ==
  ASSUME NEW t, NEW s \in Nat \ {0}, AcksInOrder(t, s, s - 1)
  PROVE  AcksInOrder(t, s, s)
BY DEF AcksInOrder

(* An acknowledgement of block s means that the client has it, and what is *)
(* behind is of s as well.                                                 *)
LEMMA AcksAdvance ==
  ASSUME NEW t \in Seq(PacketsToServer), t # <<>>, NEW s \in Nat \ {0}, NEW n \in {s - 1, s},
         AcksInOrder(t, s, n), Head(t).number = Number(s)
  PROVE  n = s /\ AcksInOrder(Tail(t), s + 1, s)
<1>1. Len(t) \in Nat /\ Len(Tail(t)) = Len(t) - 1 /\ Len(t) > 0 /\ Head(t) = t[1]
      /\ \A i \in 1 .. Len(Tail(t)) : Tail(t)[i] = t[i + 1]
  BY HeadTailProperties
<1>2. Number(s) # Number(s - 1) /\ Number(s + 1) # Number(s)
  <2>1. s - 1 \in Nat /\ (s - 1) + 1 = s
    OBVIOUS
  <2> QED
    BY <2>1, NumberStep
<1>3. n = s
  BY <1>1, <1>2 DEF AcksInOrder
<1>4. ASSUME NEW i \in 1 .. Len(Tail(t))
      PROVE  Tail(t)[i].number = Number(s) /\ Tail(t)[i].op = "ACK"
  <2>1. i + 1 \in 1 .. Len(t) /\ 1 \in 1 .. Len(t) /\ 1 < i + 1
    BY <1>1
  <2> QED
    BY <1>1, <2>1 DEF AcksInOrder
<1>5. (s + 1) - 1 = s
  OBVIOUS
<1> QED
  BY <1>2, <1>3, <1>4, <1>5 DEF AcksInOrder

-----------------------------------------------------------------------------
(* The number of blocks the client has, and the two situations of a client *)
(* that receives: the request is on the way or was lost or refused, or the *)
(* server is one block ahead at most.                                      *)
Copied == Len(buffer)

NotServed ==
  /\ serving = 0 /\ Copied = 0
  /\ toServer = <<>> \/ toServer = <<Rrq>>
  /\ \A i \in 1 .. Len(toClient) : toClient[i].op # "DATA"

InSession ==
  /\ serving \in 1 .. LastBlock(size)
  /\ Copied \in {serving - 1, serving}
  /\ BlocksInOrder(toClient, serving, Copied)
  /\ AcksInOrder(toServer, serving, Copied)

NothingSent ==
  /\ buffer = <<>> /\ total_received = 0 /\ attempts < MaxTries
  /\ serving = 0 /\ toClient = <<>> /\ toServer = <<>>

PrefixCopied ==
  /\ \A k \in 1 .. Copied : buffer[k] = k
  /\ expected_block = Number(Copied + 1)
  /\ phase = "receive" => Copied < LastBlock(size) /\ total_received = Copied * BlockSize

TftpInv ==
  /\ WideTypeOK
  /\ PrefixCopied
  /\ phase \in {"idle", "request"} => NothingSent
  /\ phase = "receive" => NotServed \/ InSession

LEMMA TftpInvInit == TftpInit => TftpInv
<1> SUFFICES ASSUME TftpInit PROVE TftpInv
  OBVIOUS
<1>1. Number(1) = 1 /\ 0 + 1 = 1
  BY TftpAssumption DEF Number
<1>2. WideTypeOK
  BY TftpAssumption DEF TftpInit, WideTypeOK, TftpTypeOK
<1>3. Copied = 0
  BY DEF TftpInit, Copied
<1>4. PrefixCopied
  BY <1>1, <1>3 DEF TftpInit, PrefixCopied
<1>5. NothingSent /\ phase = "idle"
  BY TftpAssumption DEF TftpInit, NothingSent
<1> QED
  BY <1>2, <1>4, <1>5 DEF TftpInv

(* The packet the client looks at.                                         *)
LEMMA PacketTaken ==
  ASSUME TftpInv, Receiving
  PROVE  /\ Packet \in PacketsToClient /\ Packet = toClient[1]
         /\ Tail(toClient) \in Seq(PacketsToClient)
         /\ Len(Tail(toClient)) <= Capacity
         /\ PortAfter \in {Session, WellKnown, OtherPort}
         /\ NotServed => /\ Packet.op # "DATA"
                         /\ \A i \in 1 .. Len(Tail(toClient)) : Tail(toClient)[i].op # "DATA"
         /\ InSession => BlocksInOrder(Tail(toClient), serving, Copied)
<1>1. toClient \in Seq(PacketsToClient) /\ toClient # <<>> /\ Len(toClient) <= Capacity
      /\ serving \in Nat /\ buffer \in Seq(Nat)
  BY DEF TftpInv, WideTypeOK, TftpTypeOK, Receiving
<1>2. /\ Packet \in PacketsToClient /\ Packet = toClient[1]
      /\ Tail(toClient) \in Seq(PacketsToClient) /\ Len(Tail(toClient)) = Len(toClient) - 1
      /\ \A i \in 1 .. Len(Tail(toClient)) : Tail(toClient)[i] = toClient[i + 1]
      /\ Len(toClient) \in Nat /\ Len(toClient) >= 1
  BY <1>1, HeadTailProperties DEF Packet
<1>3. Len(Tail(toClient)) <= Capacity
  BY <1>1, <1>2, TftpAssumption
<1>4. PortAfter \in {Session, WellKnown, OtherPort}
  BY <1>2 DEF PortAfter, PacketsToClient, TftpInv, WideTypeOK, TftpTypeOK
<1>5. ASSUME NotServed
      PROVE  /\ Packet.op # "DATA"
             /\ \A i \in 1 .. Len(Tail(toClient)) : Tail(toClient)[i].op # "DATA"
  <2>1. 1 \in 1 .. Len(toClient)
        /\ \A i \in 1 .. Len(Tail(toClient)) : i + 1 \in 1 .. Len(toClient)
    BY <1>2
  <2> QED
    BY <1>2, <1>5, <2>1 DEF NotServed
<1>6. InSession => BlocksInOrder(Tail(toClient), serving, Copied)
  <2>1. Copied \in Nat
    BY <1>1 DEF Copied
  <2> QED
    BY <1>1, <2>1, BlocksTail DEF InSession
<1> QED
  BY <1>2, <1>3, <1>4, <1>5, <1>6

(* A DATA packet means a session, and a block the client has or needs.     *)
LEMMA DataPacket ==
  ASSUME TftpInv, Receiving, Packet.op = "DATA"
  PROVE  /\ InSession
         /\ Packet.block \in {serving - 1, serving}
         /\ Copied = serving => Packet.block = serving
<1>1. InSession
  BY PacketTaken DEF TftpInv, Receiving
<1>2. Packet = toClient[1] /\ 1 \in 1 .. Len(toClient)
  BY PacketTaken DEF TftpInv, WideTypeOK, Receiving
<1> QED
  BY <1>1, <1>2 DEF InSession, BlocksInOrder

(* The number tells the block that is needed from the others.              *)
LEMMA ExpectedIsNext ==
  ASSUME TftpInv, Receiving, Expected
  PROVE  /\ InSession
         /\ Packet.block = serving /\ Copied = serving - 1
<1>1. /\ InSession /\ Packet.block \in {serving - 1, serving}
      /\ Copied = serving => Packet.block = serving
  BY DataPacket DEF Expected
<1>2. serving \in Nat \ {0} /\ Copied \in {serving - 1, serving}
  BY <1>1 DEF InSession, TftpInv, WideTypeOK
<1>3. Number(Packet.block) = Number(Copied + 1)
  BY DEF Expected, TftpInv, PrefixCopied
<1>4. Number(serving + 1) # Number(serving) /\ Number(serving) # Number(serving - 1)
  <2>1. serving - 1 \in Nat /\ (serving - 1) + 1 = serving
    BY <1>2
  <2> QED
    BY <1>2, <2>1, NumberStep
<1>5. Copied = serving - 1
  <2>1. CASE Copied = serving
    BY <1>1, <1>3, <1>4, <2>1
  <2> QED
    BY <1>2, <2>1
<1>6. Copied + 1 = serving
  BY <1>2, <1>5
<1> QED
  BY <1>1, <1>3, <1>4, <1>5, <1>6

(* A duplicate is the last block the client has.                           *)
LEMMA DuplicateIsLast ==
  ASSUME TftpInv, Receiving, Duplicate
  PROVE  InSession /\ Packet.block = Copied
<1>1. /\ InSession /\ Packet.block \in {serving - 1, serving}
      /\ Copied = serving => Packet.block = serving
  BY DataPacket DEF Duplicate
<1>2. serving \in Nat \ {0} /\ Copied \in {serving - 1, serving}
  BY <1>1 DEF InSession, TftpInv, WideTypeOK
<1>3. CASE Copied = serving - 1
  <2>1. Packet.block # Copied + 1
    <3>1. expected_block = Number(Copied + 1) /\ Number(Packet.block) < expected_block
      BY DEF Duplicate, TftpInv, PrefixCopied
    <3>2. Number(Copied + 1) \in Nat
      BY <1>2, <1>3, NumberStep, TftpAssumption
    <3> QED
      BY <3>1, <3>2
  <2> QED
    BY <1>1, <1>2, <1>3, <2>1
<1>4. CASE Copied = serving
  BY <1>1, <1>4
<1> QED
  BY <1>1, <1>2, <1>3, <1>4

LEMMA AckSent ==
  ASSUME WideTypeOK, serving # 0, NEW n \in {serving - 1, serving},
         AcksInOrder(toServer, serving, n), NEW port, Acknowledge(Number(n), port)
  PROVE  /\ toServer' \in Seq(PacketsToServer) /\ Len(toServer') <= Capacity
         /\ AcksInOrder(toServer', serving, n)
<1>1. serving \in Nat \ {0} /\ toServer \in Seq(PacketsToServer) /\ Len(toServer) <= Capacity
      /\ Capacity \in Nat /\ n \in Nat
  BY TftpAssumption DEF WideTypeOK, TftpTypeOK
<1>2. CASE toServer' = toServer
  BY <1>1, <1>2
<1>3. CASE Len(toServer) < Capacity /\ toServer' = Append(toServer, Ack(Number(n)))
  <2>1. AcksInOrder(toServer', serving, n)
    BY <1>1, <1>3, AcksAppend
  <2>2. Number(n) \in Nat
    BY <1>1, NumberStep, TftpAssumption
  <2>3. Ack(Number(n)) \in PacketsToServer
    BY <2>2 DEF Ack, PacketsToServer
  <2>4. toServer' \in Seq(PacketsToServer) /\ Len(toServer') = Len(toServer) + 1
    BY <1>1, <1>3, <2>3, AppendElements
  <2> QED
    BY <1>1, <1>3, <2>1, <2>4
<1> QED
  BY <1>2, <1>3 DEF Acknowledge

(* What the size of a block says of its place in the file.                 *)
LEMMA BlockSizes ==
  ASSUME NEW b \in Nat, size \in Nat
  PROVE  /\ SizeOf(b) \in 0 .. BlockSize
         /\ b < LastBlock(size) => SizeOf(b) = BlockSize
         /\ b = LastBlock(size) => SizeOf(b) < BlockSize
<1>1. BlockSize \in Nat /\ BlockSize > 0 /\ LastBlock(size) \in Nat
  BY TftpAssumption, LastBlockPositive
<1>2. size % BlockSize \in 0 .. (BlockSize - 1)
  BY <1>1
<1> QED
  BY <1>1, <1>2 DEF SizeOf

(* The client takes the block it needs.                                    *)
LEMMA BlockReceived ==
  ASSUME TftpInv, ReceiveBlock
  PROVE  /\ Copied' = Copied + 1 /\ Copied' = serving /\ buffer' = Append(buffer, Copied + 1)
         /\ Copied < LastBlock(size)
         /\ total_received' = total_received + SizeOf(Copied + 1)
         /\ TftpInv'
<1>1. Receiving /\ Expected /\ phase = "receive"
  BY DEF ReceiveBlock, Receiving
<1>2. InSession /\ Packet.block = serving /\ Copied = serving - 1
  BY <1>1, ExpectedIsNext
<1>3. /\ serving \in Nat \ {0} /\ serving <= LastBlock(size) /\ LastBlock(size) \in Nat
      /\ buffer \in Seq(Nat) /\ size \in Nat /\ total_received \in Nat /\ max_size \in Nat
      /\ BlockSize \in Nat /\ BlockSize > 0
  BY <1>2, LastBlockPositive, TftpAssumption DEF InSession, TftpInv, WideTypeOK, TftpTypeOK
<1> DEFINE bytes == SizeOf(serving)
<1>4. /\ buffer' = Append(buffer, serving) /\ total_received' = total_received + bytes
      /\ total_received + bytes <= max_size
      /\ toClient' = Tail(toClient) /\ server_port' = PortAfter
      /\ Acknowledge(expected_block, PortAfter)
      /\ expected_block' = (expected_block + 1) % BlockModulus
      /\ phase' \in {"receive", "complete"} /\ (bytes < BlockSize => phase' = "complete")
      /\ UNCHANGED <<attempts, size, max_size, serving, repeats, strays>>
  BY <1>2 DEF ReceiveBlock, Taken, server
<1>5. bytes \in Nat /\ (serving < LastBlock(size) => bytes = BlockSize)
      /\ (serving = LastBlock(size) => bytes < BlockSize)
  BY <1>3, BlockSizes
<1> HIDE DEF bytes
<1>6. /\ buffer' \in Seq(Nat) /\ Len(buffer') = serving /\ Len(buffer) = serving - 1
      /\ \A k \in 1 .. (serving - 1) : buffer'[k] = buffer[k]
      /\ buffer'[serving] = serving
  BY <1>2, <1>3, <1>4 DEF Copied
<1>7. Copied' = serving
  BY <1>6 DEF Copied
<1>8. PrefixCopied'
  <2>1. \A k \in 1 .. serving : buffer'[k] = k
    BY <1>2, <1>3, <1>6 DEF TftpInv, PrefixCopied
  <2>2. expected_block' = Number(serving + 1)
    <3>1. expected_block = Number(serving)
      BY <1>2, <1>3 DEF TftpInv, PrefixCopied
    <3> QED
      BY <1>3, <1>4, <3>1, NumberStep
  <2>3. ASSUME phase' = "receive"
        PROVE  serving < LastBlock(size)' /\ total_received' = serving * BlockSize
    <3>1. serving < LastBlock(size) /\ bytes = BlockSize
      BY <1>3, <1>4, <1>5, <2>3
    <3>2. total_received = (serving - 1) * BlockSize
      BY <1>1, <1>2 DEF TftpInv, PrefixCopied
    <3>3. (serving - 1) * BlockSize + BlockSize = serving * BlockSize
      BY <1>3
    <3> QED
      BY <1>4, <3>1, <3>2, <3>3 DEF LastBlock
  <2> QED
    BY <1>7, <2>1, <2>2, <2>3 DEF PrefixCopied
<1>9. /\ toServer' \in Seq(PacketsToServer) /\ Len(toServer') <= Capacity
      /\ AcksInOrder(toServer', serving, serving)
  <2>1. AcksInOrder(toServer, serving, serving)
    BY <1>2, <1>3, AcksCopied DEF InSession
  <2>2. Acknowledge(Number(serving), PortAfter)
    BY <1>1, <1>2, <1>4 DEF Expected
  <2> QED
    BY <1>3, <2>1, <2>2, AckSent DEF TftpInv
<1>10. BlocksInOrder(toClient', serving, serving)
  BY <1>1, <1>2, <1>3, <1>4, BlocksCopied
     DEF InSession, Receiving, Expected, Packet, TftpInv, WideTypeOK
<1>11. WideTypeOK'
  <2>1. /\ toClient' \in Seq(PacketsToClient) /\ Len(toClient') <= Capacity
        /\ server_port' \in {Session, WellKnown, OtherPort}
    BY <1>1, <1>4, PacketTaken
  <2>2. expected_block' \in 0 .. (BlockModulus - 1)
    BY <1>3, <1>7, <1>8, NumberStep DEF PrefixCopied
  <2> QED
    BY <1>3, <1>4, <1>5, <1>6, <1>9, <2>1, <2>2 DEF TftpInv, WideTypeOK, TftpTypeOK
<1>12. InSession'
  <2>1. serving' = serving /\ LastBlock(size)' = LastBlock(size)
    BY <1>4
  <2> QED
    BY <1>2, <1>7, <1>9, <1>10, <2>1 DEF InSession
<1>13. TftpInv'
  BY <1>4, <1>8, <1>11, <1>12 DEF TftpInv
<1>14. Copied + 1 = serving /\ Copied < LastBlock(size)
  BY <1>2, <1>3
<1> QED
  BY <1>4, <1>7, <1>13, <1>14 DEF bytes

(* A packet the client has no use for only changes what is on the way.     *)
LEMMA PacketDropped ==
  ASSUME TftpInv, ReceiveDuplicate \/ ReceiveOther
  PROVE  TftpInv' /\ UNCHANGED <<phase, size, max_size, buffer>>
<1>1. /\ Receiving /\ phase = "receive" /\ Taken /\ server_port' = PortAfter
      /\ UNCHANGED <<phase, attempts, size, max_size, expected_block, buffer, total_received,
                     serving, repeats, strays>>
  BY DEF ReceiveDuplicate, ReceiveOther, Receiving, server
<1>2. Copied' = Copied /\ LastBlock(size)' = LastBlock(size)
  BY <1>1 DEF Copied
<1>3. PrefixCopied'
  BY <1>1, <1>2 DEF TftpInv, PrefixCopied
<1>4. /\ toServer' \in Seq(PacketsToServer) /\ Len(toServer') <= Capacity
      /\ NotServed => toServer' = toServer
      /\ InSession => AcksInOrder(toServer', serving, Copied)
  <2>1. CASE ReceiveDuplicate
    <3>1. InSession /\ Acknowledge(Number(Copied), PortAfter)
      BY <1>1, <2>1, DuplicateIsLast DEF ReceiveDuplicate
    <3>2. serving # 0 /\ ~NotServed
      BY <3>1 DEF InSession, NotServed
    <3> QED
      BY <3>1, <3>2, AckSent DEF InSession, TftpInv
  <2>2. CASE ReceiveOther
    <3>1. toServer' = toServer
      BY <2>2 DEF ReceiveOther
    <3> QED
      BY <3>1 DEF InSession, TftpInv, WideTypeOK, TftpTypeOK
  <2> QED
    BY <2>1, <2>2
<1>5. WideTypeOK'
  BY <1>1, <1>4, PacketTaken DEF TftpInv, WideTypeOK, TftpTypeOK, Taken
<1>6. NotServed => NotServed'
  BY <1>1, <1>2, <1>4, PacketTaken DEF NotServed, Taken
<1>7. InSession => InSession'
  <2>1. InSession => BlocksInOrder(toClient', serving, Copied)
    BY <1>1, PacketTaken DEF Taken
  <2> QED
    BY <1>1, <1>2, <1>4, <2>1 DEF InSession
<1> QED
  BY <1>1, <1>3, <1>5, <1>6, <1>7 DEF TftpInv

(* The steps with which a download begins or fails.                        *)
LEMMA CallStep ==
  ASSUME TftpInv, BeginDownload \/ SendRequest \/ ReceiveFatal \/ ReceiveTimeout
  PROVE  TftpInv' /\ UNCHANGED buffer
<1>1. UNCHANGED <<buffer, expected_block, total_received>> /\ Copied' = Copied
  BY DEF BeginDownload, SendRequest, ReceiveFatal, ReceiveTimeout, Copied
<1>2. CASE BeginDownload
  <2>1. WideTypeOK'
    BY <1>2, TftpAssumption
       DEF BeginDownload, TftpInv, WideTypeOK, TftpTypeOK, NothingSent, server
  <2>2. PrefixCopied'
    BY <1>1, <1>2 DEF BeginDownload, TftpInv, PrefixCopied
  <2>3. NothingSent'
    BY <1>2 DEF BeginDownload, TftpInv, NothingSent, server
  <2> QED
    BY <1>1, <1>2, <2>1, <2>2, <2>3 DEF BeginDownload, TftpInv
<1>3. CASE SendRequest
  <2>1. NothingSent /\ Copied = 0
    BY <1>3 DEF SendRequest, TftpInv, NothingSent, Copied
  <2>2. CASE toServer' = Append(toServer, Rrq) /\ phase' = "receive" /\ attempts' = attempts
    <3>1. toServer' = <<Rrq>>
      BY <2>1, <2>2 DEF NothingSent
    <3>2. Rrq \in PacketsToServer
      BY DEF Rrq, PacketsToServer
    <3>3. toServer' \in Seq(PacketsToServer) /\ Len(toServer') = 1
      BY <3>1, <3>2
    <3>4. WideTypeOK'
      BY <1>3, <2>2, <3>3, TftpAssumption
         DEF SendRequest, TftpInv, WideTypeOK, TftpTypeOK, server
    <3>5. PrefixCopied'
      <4>1. LastBlock(size) \in Nat \ {0} /\ LastBlock(size)' = LastBlock(size)
        BY <1>3, LastBlockPositive DEF SendRequest, TftpInv, WideTypeOK
      <4>2. 0 * BlockSize = 0 /\ total_received = 0
        BY <2>1, TftpAssumption DEF NothingSent
      <4> QED
        BY <1>1, <2>1, <4>1, <4>2 DEF TftpInv, PrefixCopied
    <3>6. NotServed'
      BY <1>1, <1>3, <2>1, <3>1 DEF SendRequest, NothingSent, NotServed, server
    <3> QED
      BY <1>1, <2>2, <3>4, <3>5, <3>6 DEF TftpInv
  <2>3. CASE attempts' = attempts + 1 /\ toServer' = toServer
             /\ phase' = IF attempts' = MaxTries THEN "failed" ELSE "request"
    <3>1. WideTypeOK'
      BY <1>3, <2>1, <2>3, TftpAssumption
         DEF SendRequest, TftpInv, WideTypeOK, TftpTypeOK, NothingSent, server
    <3>2. PrefixCopied'
      BY <1>1, <2>3 DEF TftpInv, PrefixCopied
    <3>3. phase' = "request" => NothingSent'
      BY <1>3, <2>1, <2>3, TftpAssumption
         DEF SendRequest, NothingSent, server, TftpInv, WideTypeOK, TftpTypeOK
    <3> QED
      BY <1>1, <2>3, <3>1, <3>2, <3>3 DEF TftpInv
  <2> QED
    BY <1>3, <2>2, <2>3 DEF SendRequest
<1>4. CASE ReceiveFatal
  <2>1. Receiving /\ phase' = "failed"
    BY <1>4 DEF ReceiveFatal
  <2>2. WideTypeOK'
    BY <1>4, <2>1, PacketTaken DEF ReceiveFatal, Taken, TftpInv, WideTypeOK, TftpTypeOK, server
  <2>3. PrefixCopied'
    BY <1>1, <2>1 DEF TftpInv, PrefixCopied
  <2> QED
    BY <1>1, <2>1, <2>2, <2>3 DEF TftpInv
<1>5. CASE ReceiveTimeout
  <2>1. WideTypeOK'
    BY <1>5 DEF ReceiveTimeout, TftpInv, WideTypeOK, TftpTypeOK, server
  <2>2. PrefixCopied'
    BY <1>1, <1>5 DEF ReceiveTimeout, TftpInv, PrefixCopied
  <2> QED
    BY <1>1, <1>5, <2>1, <2>2 DEF TftpInv, ReceiveTimeout
<1> QED
  BY <1>1, <1>2, <1>3, <1>4, <1>5

(* A packet that is sent to the client.                                    *)
LEMMA PacketSent ==
  ASSUME WideTypeOK, NEW e \in PacketsToClient, Send(e)
  PROVE  toClient' \in Seq(PacketsToClient) /\ Len(toClient') <= Capacity
<1>1. toClient \in Seq(PacketsToClient) /\ toClient' = Append(toClient, e)
      /\ Len(toClient) < Capacity /\ Capacity \in Nat
  BY TftpAssumption DEF WideTypeOK, Send
<1> QED
  BY <1>1, AppendElements

LEMMA SentNoData ==
  ASSUME WideTypeOK, NotServed, NEW e \in PacketsToClient, Send(e), e.op # "DATA"
  PROVE  \A i \in 1 .. Len(toClient') : toClient'[i].op # "DATA"
<1>1. toClient \in Seq(PacketsToClient) /\ toClient' = Append(toClient, e)
  BY DEF WideTypeOK, Send
<1>2. /\ Len(toClient) \in Nat /\ Len(toClient') = Len(toClient) + 1
      /\ \A i \in 1 .. Len(toClient) : toClient'[i] = toClient[i]
      /\ toClient'[Len(toClient) + 1] = e
  BY <1>1, AppendElements
<1>3. \A i \in 1 .. Len(toClient') : i \in 1 .. Len(toClient) \/ i = Len(toClient) + 1
  BY <1>2
<1> QED
  BY <1>2, <1>3 DEF NotServed

(* The steps of the server and of the segment.                             *)
LEMMA NetworkTypes ==
  ASSUME TftpInv, Network
  PROVE  WideTypeOK' /\ UNCHANGED client
<1> USE DEF client, server
<1>1. UNCHANGED client
  BY DEF Network, ServeRequest, ServeAck, ServeAgain, SendStray, Lose
<1>2. WideTypeOK /\ size \in Nat /\ LastBlock(size) \in Nat /\ Capacity \in Nat
      /\ toClient \in Seq(PacketsToClient) /\ toServer \in Seq(PacketsToServer)
      /\ Repeats \in Nat /\ Strays \in Nat
  BY LastBlockPositive, TftpAssumption DEF TftpInv, WideTypeOK
<1>3. /\ Data(1) \in PacketsToClient /\ Data(serving) \in PacketsToClient
      /\ Data(serving + 1) \in PacketsToClient
      /\ Error \in PacketsToClient /\ Stray \in PacketsToClient
  BY DEF Data, Error, Stray, PacketsToClient, TftpInv, WideTypeOK
<1>4. toClient # <<>> => Tail(toClient) \in Seq(PacketsToClient) /\ Len(Tail(toClient)) <= Capacity
  BY <1>2, HeadTailProperties DEF TftpInv, WideTypeOK, TftpTypeOK
<1>5. toServer # <<>> => Tail(toServer) \in Seq(PacketsToServer) /\ Len(Tail(toServer)) <= Capacity
  BY <1>2, HeadTailProperties DEF TftpInv, WideTypeOK, TftpTypeOK
<1>6. toClient' \in Seq(PacketsToClient) /\ Len(toClient') <= Capacity
  <2>1. toClient' = toClient \/ (toClient # <<>> /\ toClient' = Tail(toClient))
        \/ (\E e \in PacketsToClient : Send(e))
    BY <1>3 DEF Network, ServeRequest, ServeAck, ServeAgain, SendStray, Lose
  <2> QED
    BY <1>2, <1>4, <2>1, PacketSent DEF WideTypeOK, TftpTypeOK
<1>7. toServer' \in Seq(PacketsToServer) /\ Len(toServer') <= Capacity
  <2>1. toServer' = toServer \/ (toServer # <<>> /\ toServer' = Tail(toServer))
    BY DEF Network, ServeRequest, ServeAck, ServeAgain, SendStray, Lose
  <2> QED
    BY <1>2, <1>5, <2>1 DEF WideTypeOK, TftpTypeOK
<1>8. serving' \in Nat
  BY <1>2 DEF Network, ServeRequest, ServeAck, ServeAgain, SendStray, Lose, WideTypeOK
<1>9. repeats' \in 0 .. Repeats /\ strays' \in 0 .. Strays
  <2>1. repeats \in 0 .. Repeats /\ strays \in 0 .. Strays
    BY <1>2 DEF WideTypeOK, TftpTypeOK
  <2>2. repeats' = repeats \/ repeats' = Repeats \/ (repeats > 0 /\ repeats' = repeats - 1)
    BY DEF Network, ServeRequest, ServeAck, ServeAgain, SendStray, Lose
  <2>3. strays' = strays \/ (strays > 0 /\ strays' = strays - 1)
    BY DEF Network, ServeRequest, ServeAck, ServeAgain, SendStray, Lose
  <2> QED
    BY <1>2, <2>1, <2>2, <2>3
<1> QED
  BY <1>1, <1>2, <1>6, <1>7, <1>8, <1>9 DEF WideTypeOK, TftpTypeOK

LEMMA NetworkSession ==
  ASSUME TftpInv, Network, phase = "receive"
  PROVE  (NotServed \/ InSession)'
<1> USE DEF server
<1>1. /\ WideTypeOK /\ (NotServed \/ InSession) /\ Copied < LastBlock(size)
      /\ LastBlock(size) \in Nat \ {0} /\ Copied \in Nat /\ serving \in Nat
      /\ toClient \in Seq(PacketsToClient) /\ toServer \in Seq(PacketsToServer)
  BY LastBlockPositive DEF TftpInv, PrefixCopied, WideTypeOK, TftpTypeOK, Copied
<1>2. Copied' = Copied /\ LastBlock(size)' = LastBlock(size)
  BY NetworkTypes DEF client, Copied
<1>3. toServer # <<>> => Head(toServer) = toServer[1] /\ 1 \in 1 .. Len(toServer)
  BY <1>1
<1>4. InSession => serving \in Nat \ {0}
  BY <1>1 DEF InSession
<1>5. CASE ServeRequest
  <2>1. ~InSession
    BY <1>3, <1>5 DEF ServeRequest, InSession, AcksInOrder, Rrq
  <2>2. NotServed /\ toServer' = <<>>
    BY <1>1, <1>5, <2>1 DEF ServeRequest, NotServed
  <2>3. CASE Send(Data(1)) /\ serving' = 1
    <3>1. BlocksInOrder(toClient, 1, 0)
      BY <2>2 DEF NotServed, BlocksInOrder
    <3>2. Data(1) \in PacketsToClient /\ Data(1).block = 1
      BY DEF Data, PacketsToClient
    <3>3. BlocksInOrder(toClient', 1, 0)
      BY <1>1, <2>3, <3>1, <3>2, BlocksAppend DEF Send
    <3>4. AcksInOrder(toServer', 1, 0)
      BY <2>2 DEF AcksInOrder
    <3>5. Copied' = 0
      BY <1>2, <2>2 DEF NotServed
    <3> QED
      BY <1>1, <1>2, <2>3, <3>3, <3>4, <3>5 DEF InSession
  <2>4. CASE Send(Error) /\ serving' = serving
    <3>1. Error \in PacketsToClient /\ Error.op # "DATA"
      BY DEF Error, PacketsToClient
    <3>2. \A i \in 1 .. Len(toClient') : toClient'[i].op # "DATA"
      BY <1>1, <2>2, <2>4, <3>1, SentNoData
    <3> QED
      BY <1>2, <2>2, <2>4, <3>2 DEF NotServed
  <2> QED
    BY <1>5, <2>3, <2>4 DEF ServeRequest
<1>6. CASE ServeAck
  <2>1. InSession
    BY <1>1, <1>3, <1>6 DEF ServeAck, NotServed, Rrq
  <2>2. toServer # <<>> /\ toServer' = Tail(toServer) /\ serving \in Nat \ {0}
        /\ Copied \in {serving - 1, serving}
    BY <1>4, <1>6, <2>1 DEF ServeAck, InSession
  <2>3. CASE Head(toServer).number # Number(serving)
    <3>1. UNCHANGED <<toClient, serving>>
      BY <1>6, <2>3 DEF ServeAck
    <3>2. AcksInOrder(toServer', serving, Copied)
      BY <1>1, <2>1, <2>2, AcksTail DEF InSession
    <3> QED
      BY <1>2, <2>1, <3>1, <3>2 DEF InSession
  <2>4. CASE Head(toServer).number = Number(serving)
    <3>1. Copied = serving /\ AcksInOrder(toServer', serving + 1, serving)
      BY <1>1, <2>1, <2>2, <2>4, AcksAdvance DEF InSession
    <3>2. serving < LastBlock(size) /\ serving # 0
      BY <1>1, <2>2, <3>1
    <3>3. Send(Data(serving + 1)) /\ serving' = serving + 1
      BY <1>1, <1>6, <2>4, <3>2 DEF ServeAck
    <3>4. BlocksInOrder(toClient', serving + 1, serving)
      BY <1>1, <2>1, <3>1, <3>3, BlocksAdvance DEF InSession, Send
    <3>5. Copied' = serving' - 1 /\ serving' \in 1 .. LastBlock(size)'
      BY <1>1, <1>2, <2>2, <3>1, <3>2, <3>3
    <3> QED
      BY <1>2, <3>1, <3>3, <3>4, <3>5 DEF InSession
  <2> QED
    BY <2>3, <2>4
<1>7. CASE ServeAgain
  <2>1. InSession /\ UNCHANGED <<toServer, serving>> /\ Send(Data(serving))
    BY <1>1, <1>7 DEF ServeAgain, NotServed
  <2>2. Data(serving) \in PacketsToClient /\ Data(serving).block = serving
    BY <1>1 DEF Data, PacketsToClient
  <2>3. BlocksInOrder(toClient', serving, Copied)
    BY <1>1, <2>1, <2>2, BlocksAppend DEF InSession, Send
  <2> QED
    BY <1>2, <2>1, <2>3 DEF InSession
<1>8. CASE SendStray
  <2>1. UNCHANGED <<toServer, serving>> /\ Send(Stray)
        /\ Stray \in PacketsToClient /\ Stray.op # "DATA"
    BY <1>8 DEF SendStray, Stray, PacketsToClient
  <2>2. NotServed => NotServed'
    BY <1>1, <1>2, <2>1, SentNoData DEF NotServed
  <2>3. InSession => BlocksInOrder(toClient', serving, Copied)
    BY <1>1, <2>1, BlocksAppend DEF InSession, Send
  <2> QED
    BY <1>1, <1>2, <2>1, <2>2, <2>3 DEF InSession
<1>9. CASE Lose
  <2>1. CASE toClient # <<>> /\ toClient' = Tail(toClient) /\ toServer' = toServer
    <3>1. /\ Len(toClient) \in Nat /\ Len(Tail(toClient)) = Len(toClient) - 1
          /\ \A i \in 1 .. Len(Tail(toClient)) : Tail(toClient)[i] = toClient[i + 1]
      BY <1>1, <2>1, HeadTailProperties
    <3>2. \A i \in 1 .. Len(Tail(toClient)) : i + 1 \in 1 .. Len(toClient)
      BY <3>1
    <3>3. NotServed => NotServed'
      BY <1>2, <1>9, <2>1, <3>1, <3>2 DEF NotServed, Lose
    <3>4. InSession => BlocksInOrder(toClient', serving, Copied)
      BY <1>1, <2>1, BlocksTail DEF InSession
    <3> QED
      BY <1>1, <1>2, <1>9, <2>1, <3>3, <3>4 DEF InSession, Lose
  <2>2. CASE toServer # <<>> /\ toServer' = Tail(toServer) /\ toClient' = toClient
    <3>1. NotServed => toServer' = <<>>
      BY <1>1, <2>2 DEF NotServed
    <3>2. InSession => AcksInOrder(toServer', serving, Copied)
      BY <1>1, <2>2, AcksTail DEF InSession
    <3> QED
      BY <1>1, <1>2, <1>9, <2>2, <3>1, <3>2 DEF NotServed, InSession, Lose
  <2> QED
    BY <1>9, <2>1, <2>2 DEF Lose
<1> QED
  BY <1>5, <1>6, <1>7, <1>8, <1>9 DEF Network

LEMMA NetworkStep ==
  ASSUME TftpInv, Network
  PROVE  TftpInv'
<1>1. WideTypeOK' /\ UNCHANGED client
  BY NetworkTypes
<1>2. PrefixCopied'
  BY <1>1 DEF client, TftpInv, PrefixCopied, Copied, LastBlock
<1>3. phase \notin {"idle", "request"}
  <2>1. NothingSent /\ phase # "receive" => ~Network
    BY DEF NothingSent, Network, ServeRequest, ServeAck, ServeAgain, SendStray, Lose
  <2> QED
    BY <2>1 DEF TftpInv
<1> QED
  BY <1>1, <1>2, <1>3, NetworkSession DEF TftpInv, client

LEMMA TftpInvNext == TftpInv /\ [TftpNext]_tftpVars => TftpInv'
<1> SUFFICES ASSUME TftpInv, [TftpNext]_tftpVars PROVE TftpInv'
  OBVIOUS
<1>1. CASE Network
  BY <1>1, NetworkStep
<1>2. CASE UNCHANGED tftpVars
  <2>1. /\ UNCHANGED <<phase, attempts, size, max_size, expected_block, server_port, buffer,
                      total_received, toClient, toServer, serving, repeats, strays>>
        /\ Copied' = Copied /\ LastBlock(size)' = LastBlock(size)
    BY <1>2 DEF tftpVars, client, server, Copied
  <2> QED
    BY <2>1 DEF TftpInv, WideTypeOK, TftpTypeOK, PrefixCopied, NothingSent, NotServed, InSession
<1> QED
  BY <1>1, <1>2, BlockReceived, PacketDropped, CallStep DEF TftpNext, Client, Over

(* The variables of a download keep their types, and no channel overflows. *)
THEOREM TftpTypeCorrect == TftpSpec => []TftpTypeOK
<1>1. TftpInv => TftpTypeOK
  BY DEF TftpInv, WideTypeOK
<1> QED
  BY TftpInvInit, TftpInvNext, <1>1, PTL DEF TftpSpec

-----------------------------------------------------------------------------
(* The mapping of Transfer.                                                *)
File == [k \in 1 .. LastBlock(size) |-> k]
Room == IF max_size % BlockSize = 0 THEN max_size \div BlockSize ELSE 0
Outcome == IF phase \in {"complete", "failed"} THEN phase ELSE "running"

LEMMA FileBlocks ==
  ASSUME size \in Nat
  PROVE  /\ File \in Seq(Nat) /\ Len(File) = LastBlock(size)
         /\ \A k \in 1 .. LastBlock(size) : File[k] = k
<1>1. LastBlock(size) \in Nat
  BY LastBlockPositive
<1>2. \A k \in 1 .. LastBlock(size) : File[k] = k
  BY DEF File
<1>3. File \in [1 .. LastBlock(size) -> Nat]
  BY <1>1 DEF File
<1>4. File \in Seq(Nat) /\ Len(File) = LastBlock(size)
  BY <1>1, <1>3
<1> QED
  BY <1>2, <1>4

(* A download that ends with a block has the whole file, or a full buffer. *)
LEMMA CompleteIsWhole ==
  ASSUME TftpInv, ReceiveBlock, phase' = "complete"
  PROVE  buffer' = File \/ Len(buffer') = Room
<1>1. /\ Copied' = Copied + 1 /\ buffer' = Append(buffer, Copied + 1) /\ TftpInv'
      /\ Copied < LastBlock(size) /\ total_received' = total_received + SizeOf(Copied + 1)
      /\ Copied' = serving
  BY BlockReceived
<1>2. /\ size \in Nat /\ max_size \in Nat /\ total_received \in Nat /\ buffer' \in Seq(Nat)
      /\ Copied \in Nat /\ LastBlock(size) \in Nat /\ BlockSize \in Nat /\ BlockSize > 0
      /\ total_received' <= max_size
  <2>1. size \in Nat /\ max_size \in Nat /\ total_received \in Nat /\ buffer \in Seq(Nat)
    BY DEF TftpInv, WideTypeOK, TftpTypeOK
  <2>2. buffer' \in Seq(Nat) /\ total_received' <= max_size' /\ max_size' = max_size
    BY <1>1 DEF TftpInv, WideTypeOK, TftpTypeOK, ReceiveBlock
  <2>3. Copied \in Nat
    BY <2>1 DEF Copied
  <2>4. LastBlock(size) \in Nat
    BY <2>1, LastBlockPositive
  <2>5. BlockSize \in Nat /\ BlockSize > 0
    BY TftpAssumption
  <2> QED
    BY <2>1, <2>2, <2>3, <2>4, <2>5
<1> DEFINE n == Copied + 1
           bytes == SizeOf(n)
<1>3. /\ bytes \in Nat /\ (n < LastBlock(size) => bytes = BlockSize) /\ bytes <= BlockSize
      /\ (n = LastBlock(size) => bytes < BlockSize)
  <2>1. n \in Nat
    BY <1>2
  <2> HIDE DEF n
  <2>2. /\ bytes \in 0 .. BlockSize
        /\ n < LastBlock(size) => bytes = BlockSize
        /\ n = LastBlock(size) => bytes < BlockSize
    BY <1>2, <2>1, BlockSizes
  <2> QED
    BY <1>2, <2>2
<1>4. bytes < BlockSize \/ total_received + bytes >= max_size
  <2>1. Receiving /\ Expected
    BY DEF ReceiveBlock
  <2>2. Packet.block = n
    BY <1>1, <1>2, <2>1, ExpectedIsNext
  <2> QED
    BY <2>2 DEF ReceiveBlock
<1>5. Len(buffer') = n
  BY <1>1 DEF Copied
<1>6. total_received = Copied * BlockSize
  BY DEF TftpInv, PrefixCopied, ReceiveBlock, Receiving
<1> HIDE DEF bytes
<1>7. CASE bytes < BlockSize
  <2>1. n = LastBlock(size)
    BY <1>1, <1>2, <1>3, <1>7
  <2>2. File \in Seq(Nat) /\ Len(File) = n /\ \A k \in 1 .. n : File[k] = k
    BY <1>2, <2>1, FileBlocks
  <2>3. \A k \in 1 .. n : buffer'[k] = k
    BY <1>1 DEF TftpInv, PrefixCopied
  <2>4. \A k \in 1 .. n : buffer'[k] = File[k]
    BY <2>2, <2>3
  <2>5. buffer' = File
    BY <1>2, <1>5, <2>2, <2>4, SeqEqual
  <2> QED
    BY <2>5
<1>8. CASE bytes = BlockSize /\ total_received + bytes >= max_size
  <2>1. total_received + bytes = max_size
    BY <1>1, <1>2, <1>3, <1>8 DEF bytes
  <2>2. Copied * BlockSize + BlockSize = n * BlockSize
    BY <1>2
  <2>3. max_size = n * BlockSize
    BY <1>6, <1>8, <2>1, <2>2
  <2>4. Room = n
    <3>1. n \in Nat
      BY <1>2
    <3> HIDE DEF n
    <3>2. (n * BlockSize) % BlockSize = 0 /\ (n * BlockSize) \div BlockSize = n
      BY <3>1, WholeBlocks
    <3> QED
      BY <2>3, <3>2 DEF Room
  <2> QED
    BY <1>5, <2>4
<1> QED
  BY <1>2, <1>3, <1>4, <1>7, <1>8

LEMMA TransferStep ==
  ASSUME TftpInv, [TftpNext]_tftpVars
  PROVE  [Transfer!TransferNext]_<<File, Room, buffer, Outcome>>
<1> USE DEF File, Room, Outcome
<1>1. CASE ReceiveBlock
  <2>1. UNCHANGED <<size, max_size>> /\ phase = "receive" /\ phase' \in {"receive", "complete"}
    BY <1>1 DEF ReceiveBlock, Receiving
  <2>2. UNCHANGED <<File, Room>>
    BY <2>1 DEF LastBlock
  <2>3. /\ Len(buffer) < LastBlock(size) /\ Len(buffer) \in Nat /\ size \in Nat
        /\ LastBlock(size) \in Nat /\ buffer' = Append(buffer, Len(buffer) + 1)
    <3>1. size \in Nat /\ buffer \in Seq(Nat)
      BY DEF TftpInv, WideTypeOK, TftpTypeOK
    <3>2. LastBlock(size) \in Nat
      BY <3>1, LastBlockPositive
    <3> QED
      BY <1>1, <3>1, <3>2, BlockReceived DEF Copied
  <2>4. Len(File) = LastBlock(size) /\ File[Len(buffer) + 1] = Len(buffer) + 1
    <3>1. Len(buffer) + 1 \in 1 .. LastBlock(size)
      BY <2>3
    <3> HIDE DEF File
    <3> QED
      BY <2>3, <3>1, FileBlocks
  <2>5. phase' = "complete" => buffer' = File \/ Len(buffer') = Room
    BY <1>1, CompleteIsWhole
  <2>6. phase' = "complete" => buffer' = File' \/ Len(buffer') = Room'
    <3> HIDE DEF File, Room
    <3> QED
      BY <2>2, <2>5
  <2>7. Transfer!CopyBlock
    <3>1. Outcome = "running" /\ (phase' = "receive" => Outcome' = "running")
          /\ (phase' = "complete" => Outcome' = "complete")
      BY <2>1
    <3> QED
      BY <2>1, <2>2, <2>3, <2>4, <2>6, <3>1 DEF Transfer!CopyBlock, Transfer!Whole
  <2> QED
    BY <2>7 DEF Transfer!TransferNext
<1>2. CASE BeginDownload
  <2>1. buffer = <<>> /\ buffer' = buffer
    BY <1>2 DEF BeginDownload, TftpInv, NothingSent
  <2>2. Transfer!Ask
    BY <1>2, <2>1 DEF BeginDownload, Transfer!Ask
  <2> QED
    BY <2>2 DEF Transfer!TransferNext
<1>3. CASE SendRequest \/ ReceiveFatal \/ ReceiveTimeout
  <2>1. UNCHANGED <<size, max_size, buffer>> /\ phase \in {"request", "receive"}
        /\ phase' \in {"request", "receive", "failed"}
    BY <1>3 DEF SendRequest, ReceiveFatal, ReceiveTimeout, Receiving
  <2>2. UNCHANGED <<File, Room, buffer>> /\ Outcome = "running"
        /\ Outcome' \in {"running", "failed"}
    BY <2>1 DEF LastBlock
  <2>3. Outcome' = "failed" => Transfer!Report
    BY <2>2 DEF Transfer!Report
  <2> QED
    BY <2>2, <2>3 DEF Transfer!TransferNext
<1>4. CASE ReceiveDuplicate \/ ReceiveOther \/ Network \/ Over \/ UNCHANGED tftpVars
  <2>1. UNCHANGED <<phase, size, max_size, buffer>>
    BY <1>4, PacketDropped, NetworkTypes DEF client, Over, tftpVars
  <2>2. UNCHANGED <<File, Room, buffer, Outcome>>
    BY <2>1 DEF LastBlock
  <2> QED
    BY <2>2
<1> QED
  BY <1>1, <1>2, <1>3, <1>4 DEF TftpNext, Client

LEMMA TransferStart == TftpInit => Transfer!TransferInit
BY DEF TftpInit, Transfer!TransferInit

(* Whatever is lost or repeated, and however often the block number comes  *)
(* round, the buffer holds a beginning of the file, and a download is      *)
(* reported complete only with the whole file or with a full buffer.       *)
THEOREM DownloadIsTransfer == TftpSpec => ImplementsTransfer
<1>1. TftpInv /\ [TftpNext]_tftpVars => [Transfer!TransferNext]_<<File, Room, buffer, Outcome>>
  BY TransferStep
<1> QED
  BY TftpInvInit, TftpInvNext, TransferStart, <1>1, PTL
     DEF TftpSpec, ImplementsTransfer, Transfer!TransferSpec, File, Room, Outcome

-----------------------------------------------------------------------------
(* Why a download ends.                                                    *)
(*                                                                         *)
(* The conditions of the client's steps while it runs: there is one for    *)
(* every packet that may come, and for none.                               *)
InDownload == phase \in {"request", "receive"}

ClientCanStep ==
  \/ phase = "request"
  \/ phase = "receive" /\ toClient = <<>>
  \/ /\ Receiving /\ Packet.port = PortAfter
     /\ \/ Expected /\ total_received + SizeOf(Packet.block) <= max_size
        \/ Expected /\ total_received + SizeOf(Packet.block) > max_size
        \/ Duplicate
        \/ Packet.op = "ERROR"
  \/ /\ Receiving
     /\ \/ Packet.port # PortAfter
        \/ Packet.op = "other"
        \/ Packet.op = "DATA" /\ ~Expected /\ ~Duplicate

LEMMA ClientNeverWaits == TftpInv /\ InDownload => ClientCanStep
<1> SUFFICES ASSUME TftpInv, phase = "receive", toClient # <<>>
             PROVE  ClientCanStep
  BY DEF InDownload, ClientCanStep
<1>1. Receiving
  BY DEF Receiving
<1>2. Packet.op \in {"DATA", "ERROR", "other"}
  BY <1>1, PacketTaken DEF PacketsToClient
<1>3. CASE Expected
  <2>1. total_received \in Nat /\ SizeOf(Packet.block) \in Nat /\ max_size \in Nat
    BY TftpAssumption DEF TftpInv, WideTypeOK, SizeOf
  <2> QED
    BY <1>1, <1>3, <2>1 DEF ClientCanStep
<1>4. CASE ~Expected
  BY <1>1, <1>2, <1>4 DEF ClientCanStep
<1> QED
  BY <1>3, <1>4

(* What is left of a download, weighed: a block not yet served stands for  *)
(* all its repeats, a packet for the answer it may get.                    *)
Unserved(extras, down, up) == 3 * extras + 2 * down + 3 * up
Served(extras, down, up) == 3 * extras + 2 * down + up
Left(weight, blocks, packets, attempts_left) == weight * blocks + packets + attempts_left

BlockWeight == 3 * Repeats + 3
BlocksLeft == IF serving = 0 THEN LastBlock(size) ELSE LastBlock(size) - serving
PacketsLeft ==
  IF serving = 0 THEN Unserved(repeats + strays, Len(toClient), Len(toServer))
                 ELSE Served(repeats + strays, Len(toClient), Len(toServer))
TriesLeft == IF phase = "request" THEN 4 + MaxTries - attempts ELSE 0
DownloadLeft == Left(BlockWeight, BlocksLeft, PacketsLeft, TriesLeft)

(* The weights are numbers.                                                *)
LEMMA WeightTypes ==
  /\ \A x, d, u \in Nat : Unserved(x, d, u) \in Nat /\ Served(x, d, u) \in Nat
  /\ \A x, d, u \in Int : Unserved(x, d, u) \in Int /\ Served(x, d, u) \in Int
  /\ \A w, b, p, t \in Nat : Left(w, b, p, t) \in Nat
BY DEF Unserved, Served, Left

(* A packet less, or an answer, an error or a repeat in its place.         *)
LEMMA PacketsFall ==
  \A x, d, u \in Int :
    /\ Unserved(x, d - 1, u) < Unserved(x, d, u) /\ Unserved(x, d, u - 1) < Unserved(x, d, u)
    /\ Unserved(x, d + 1, u - 1) < Unserved(x, d, u)
    /\ Unserved(x, d, u + 1) = Unserved(x, d, u) + 3
    /\ Unserved(x - 1, d + 1, u) < Unserved(x, d, u)
    /\ Served(x, d - 1, u) < Served(x, d, u) /\ Served(x, d, u - 1) < Served(x, d, u)
    /\ Served(x, d - 1, u + 1) < Served(x, d, u)
    /\ Served(x - 1, d + 1, u) < Served(x, d, u)
BY DEF Unserved, Served

(* A request or an acknowledgement that is answered with a new block.      *)
LEMMA PacketsRise ==
  \A x, y, d, m \in Int : \A u \in Nat : y <= x + m =>
    /\ Served(y, d + 1, u - 1) < Unserved(x, d, u) + (3 * m + 3)
    /\ Served(y, d + 1, u - 1) < Served(x, d, u) + (3 * m + 3)
BY DEF Unserved, Served

(* Blocks outweigh packets.                                                *)
LEMMA LeftFalls ==
  \A w, b, p, t, q, v \in Int :
    /\ q + v < p + t => Left(w, b, q, v) < Left(w, b, p, t)
    /\ q + v < p + t + w => Left(w, b - 1, q, v) < Left(w, b, p, t)
<1>1. \A w, b \in Int : w * b \in Int /\ w * (b - 1) = w * b - w
  OBVIOUS
<1>2. \A x, p, t, q, v \in Int : q + v < p + t => x + q + v < x + p + t
  OBVIOUS
<1>3. \A x, w, p, t, q, v \in Int : q + v < p + t + w => (x - w) + q + v < x + p + t
  OBVIOUS
<1> QED
  BY <1>1, <1>2, <1>3 DEF Left

(* Its parts are numbers.                                                  *)
LEMMA LeftNumbers ==
  ASSUME TftpInv, InDownload
  PROVE  /\ BlockWeight \in Nat /\ BlocksLeft \in Nat /\ PacketsLeft \in Nat /\ TriesLeft \in Nat
         /\ Len(toClient) \in Nat /\ Len(toServer) \in Nat /\ LastBlock(size) \in Nat \ {0}
         /\ repeats \in Nat /\ repeats <= Repeats /\ strays \in Nat /\ Repeats \in Nat
         /\ serving \in Nat /\ attempts \in Nat /\ attempts <= MaxTries /\ MaxTries \in Nat
<1>1. Len(toClient) \in Nat /\ Len(toServer) \in Nat
  <2>1. toClient \in Seq(PacketsToClient) /\ toServer \in Seq(PacketsToServer)
    BY DEF TftpInv, WideTypeOK
  <2> QED
    BY <2>1, LenProperties
<1>2. LastBlock(size) \in Nat \ {0} /\ size \in Nat /\ serving \in Nat
  BY LastBlockPositive DEF TftpInv, WideTypeOK
<1>3. /\ repeats \in Nat /\ repeats <= Repeats /\ strays \in Nat /\ Repeats \in Nat
      /\ attempts \in Nat /\ attempts <= MaxTries /\ MaxTries \in Nat
  BY TftpAssumption DEF TftpInv, WideTypeOK, TftpTypeOK
<1>4. BlocksLeft \in Nat
  <2>1. serving <= LastBlock(size)
    BY <1>2 DEF TftpInv, InDownload, NothingSent, NotServed, InSession
  <2> QED
    BY <1>2, <2>1 DEF BlocksLeft
<1>5. BlockWeight \in Nat /\ TriesLeft \in Nat
  BY <1>3 DEF BlockWeight, TriesLeft
<1>6. PacketsLeft \in Nat
  <2>1. repeats + strays \in Nat
    BY <1>3
  <2> QED
    BY <1>1, <2>1, WeightTypes DEF PacketsLeft
<1> QED
  BY <1>1, <1>2, <1>3, <1>4, <1>5, <1>6

(* And so is it.                                                           *)
LEMMA LeftIsNumber == TftpInv /\ InDownload => DownloadLeft \in Nat
BY LeftNumbers, WeightTypes DEF DownloadLeft

(* What goes on without a new block needs packets, repeats or tries only.  *)
LEMMA SameBlock ==
  ASSUME TftpInv, InDownload, UNCHANGED <<serving, size>>, PacketsLeft' \in Int, TriesLeft' \in Int,
         PacketsLeft' + TriesLeft' < PacketsLeft + TriesLeft
  PROVE  DownloadLeft' < DownloadLeft
<1>1. BlocksLeft' = BlocksLeft /\ BlockWeight' = BlockWeight
  BY DEF BlocksLeft, LastBlock, BlockWeight
<1>2. /\ BlockWeight \in Int /\ BlocksLeft \in Int
      /\ PacketsLeft \in Int /\ TriesLeft \in Int
  BY LeftNumbers
<1> QED
  BY <1>1, <1>2, LeftFalls DEF DownloadLeft

(* A new block uses up its weight.                                         *)
LEMMA NextBlock ==
  ASSUME TftpInv, InDownload, BlocksLeft' = BlocksLeft - 1, PacketsLeft' \in Int,
         TriesLeft' \in Int, PacketsLeft' + TriesLeft' < PacketsLeft + TriesLeft + BlockWeight
  PROVE  DownloadLeft' < DownloadLeft
<1>1. BlockWeight' = BlockWeight
  BY DEF BlockWeight
<1>2. /\ BlockWeight \in Int /\ BlocksLeft \in Int
      /\ PacketsLeft \in Int /\ TriesLeft \in Int
  BY LeftNumbers
<1> QED
  BY <1>1, <1>2, LeftFalls DEF DownloadLeft

(* The client answers a packet with one acknowledgement at most.           *)
LEMMA ClientNearer ==
  ASSUME TftpInv, InDownload, InDownload', Client
  PROVE  DownloadLeft' < DownloadLeft
<1> USE DEF server
<1>1. toClient \in Seq(PacketsToClient) /\ toServer \in Seq(PacketsToServer)
  BY DEF TftpInv, WideTypeOK
<1> DEFINE extras == repeats + strays
           down == Len(toClient)
           up == Len(toServer)
<1>n. extras \in Int /\ down \in Nat /\ up \in Nat
  BY LeftNumbers
<1> HIDE DEF extras, down, up
<1>2. CASE SendRequest
  <2>0. attempts \in Nat /\ MaxTries \in Nat /\ attempts <= MaxTries
    BY LeftNumbers
  <2>1. NothingSent /\ phase = "request"
    BY <1>2 DEF SendRequest, TftpInv
  <2>2. UNCHANGED <<serving, size, toClient, repeats, strays>> /\ serving = 0 /\ toServer = <<>>
    BY <1>2, <2>1 DEF SendRequest, NothingSent
  <2>3. CASE toServer' = Append(toServer, Rrq) /\ phase' = "receive"
    <3>1. Len(toServer') = up + 1
      BY <2>2, <2>3 DEF up
    <3>2. TriesLeft' = 0 /\ TriesLeft >= 4
      BY <2>0, <2>1, <2>3 DEF TriesLeft
    <3>3. PacketsLeft' = Unserved(extras, down, up + 1) /\ PacketsLeft = Unserved(extras, down, up)
      BY <2>2, <3>1 DEF PacketsLeft, extras, down, up
    <3>4. PacketsLeft' = PacketsLeft + 3
      BY <1>n, <3>3, PacketsFall
    <3>5. PacketsLeft \in Int /\ TriesLeft \in Int
      BY LeftNumbers
    <3>6. /\ PacketsLeft' \in Int /\ TriesLeft' \in Int
          /\ PacketsLeft' + TriesLeft' < PacketsLeft + TriesLeft
      BY <3>2, <3>4, <3>5
    <3> QED
      BY <2>2, <3>6, SameBlock
  <2>4. CASE attempts' = attempts + 1 /\ phase' = "request" /\ toServer' = toServer
    <3>1. PacketsLeft' = PacketsLeft
      BY <2>2, <2>4 DEF PacketsLeft
    <3>2. TriesLeft' = TriesLeft - 1
      BY <2>0, <2>1, <2>4 DEF TriesLeft
    <3> QED
      BY <2>2, <3>1, <3>2, LeftNumbers, SameBlock
  <2> QED
    BY <1>2, <2>3, <2>4 DEF SendRequest, InDownload
<1>3. ASSUME Receiving, Taken, UNCHANGED <<serving, size, repeats, strays>>, phase' = "receive",
             \/ toServer' = toServer
             \/ serving # 0 /\ \E number \in Nat : toServer' = Append(toServer, Ack(number))
      PROVE  DownloadLeft' < DownloadLeft
  <2>1. Len(toClient') = Len(toClient) - 1
    BY <1>1, <1>3, HeadTailProperties DEF Receiving, Taken
  <2>2. \A number \in Nat : Ack(number) \in PacketsToServer
    BY DEF Ack, PacketsToServer
  <2>3. Len(toServer') = Len(toServer) \/ (serving # 0 /\ Len(toServer') = Len(toServer) + 1)
    BY <1>1, <1>3, <2>2, AppendElements
  <2>4. PacketsLeft' \in Int /\ PacketsLeft' < PacketsLeft
    <3>1. repeats' + strays' = extras /\ Len(toClient') = down - 1 /\ Len(toServer') \in {up, up + 1}
          /\ (Len(toServer') = up + 1 => serving # 0) /\ serving' = serving
      BY <1>3, <2>1, <2>3 DEF extras, down, up
    <3>2. CASE serving = 0
      <4>1. PacketsLeft' = Unserved(extras, down - 1, up) /\ PacketsLeft = Unserved(extras, down, up)
        BY <3>1, <3>2 DEF PacketsLeft, extras, down, up
      <4> QED
        BY <1>n, <4>1, PacketsFall, WeightTypes
    <3>3. CASE serving # 0
      <4>1. PacketsLeft' = Served(extras, down - 1, Len(toServer'))
            /\ PacketsLeft = Served(extras, down, up)
        BY <3>1, <3>3 DEF PacketsLeft, extras, down, up
      <4>2. CASE Len(toServer') = up
        BY <1>n, <4>1, <4>2, PacketsFall, WeightTypes
      <4>3. CASE Len(toServer') = up + 1
        BY <1>n, <4>1, <4>3, PacketsFall, WeightTypes
      <4> QED
        BY <3>1, <4>2, <4>3
    <3> QED
      BY <3>2, <3>3
  <2>5. TriesLeft' = 0 /\ TriesLeft = 0
    BY <1>3 DEF Receiving, TriesLeft
  <2> QED
    BY <1>3, <2>4, <2>5, LeftNumbers, SameBlock
<1>4. \A k \in Nat : Number(k) \in Nat
  BY TftpAssumption DEF Number
<1>5. CASE ReceiveBlock
  <2>1. Receiving /\ Taken /\ UNCHANGED <<serving, size, repeats, strays>> /\ phase' = "receive"
        /\ Acknowledge(expected_block, PortAfter) /\ Expected
    BY <1>5 DEF ReceiveBlock, InDownload
  <2>2. serving # 0 /\ expected_block \in Nat
    BY <2>1, ExpectedIsNext, TftpAssumption DEF InSession, TftpInv, WideTypeOK, TftpTypeOK
  <2> QED
    BY <1>3, <2>1, <2>2 DEF Acknowledge
<1>6. CASE ReceiveDuplicate
  <2>1. Receiving /\ Taken /\ UNCHANGED <<serving, size, repeats, strays, phase>>
        /\ Acknowledge(Number(Packet.block), PortAfter) /\ Duplicate
    BY <1>6 DEF ReceiveDuplicate
  <2>2. serving # 0 /\ Packet.block \in Nat
    BY <2>1, DuplicateIsLast, PacketTaken DEF InSession, PacketsToClient
  <2> QED
    BY <1>3, <1>4, <2>1, <2>2 DEF Acknowledge, Receiving
<1>7. CASE ReceiveOther
  BY <1>3, <1>7 DEF ReceiveOther, Receiving
<1>8. CASE ReceiveFatal \/ ReceiveTimeout
  BY <1>8 DEF ReceiveFatal, ReceiveTimeout, InDownload
<1> QED
  BY <1>2, <1>5, <1>6, <1>7, <1>8 DEF Client

(* The server sends a packet for a request, an acknowledgement of the      *)
(* block it waits for, a repeat or a stray, and has so many of them.       *)
LEMMA ServerNearer ==
  ASSUME TftpInv, InDownload, Network
  PROVE  DownloadLeft' < DownloadLeft
<1> USE DEF client, server
<1>1. /\ toClient \in Seq(PacketsToClient) /\ toServer \in Seq(PacketsToServer)
      /\ serving \in Nat
  BY DEF TftpInv, WideTypeOK
<1> DEFINE extras == repeats + strays
           down == Len(toClient)
           up == Len(toServer)
<1>n. extras \in Int /\ down \in Nat /\ up \in Nat
  BY LeftNumbers
<1> HIDE DEF extras, down, up
<1>2. phase = "receive" /\ phase' = phase /\ size' = size /\ TriesLeft = 0 /\ TriesLeft' = 0
  <2>1. NothingSent /\ phase # "receive" => ~Network
    BY DEF NothingSent, Network, ServeRequest, ServeAck, ServeAgain, SendStray, Lose
  <2> QED
    BY <2>1, NetworkTypes DEF TftpInv, InDownload, TriesLeft
<1>3. NotServed \/ InSession
  BY <1>2 DEF TftpInv
<1>4. ASSUME NEW e \in PacketsToClient, Send(e)
      PROVE  Len(toClient') = Len(toClient) + 1
  BY <1>1, <1>4, AppendElements DEF Send
<1>5. /\ Data(1) \in PacketsToClient /\ Data(serving) \in PacketsToClient
      /\ Data(serving + 1) \in PacketsToClient
      /\ Error \in PacketsToClient /\ Stray \in PacketsToClient
  BY <1>1 DEF Data, Error, Stray, PacketsToClient
<1>6. toServer # <<>> => /\ Len(Tail(toServer)) = Len(toServer) - 1
                         /\ Head(toServer) = toServer[1] /\ 1 \in 1 .. Len(toServer)
  BY <1>1, HeadTailProperties
<1>7. toClient # <<>> => Len(Tail(toClient)) = Len(toClient) - 1
  BY <1>1, HeadTailProperties
<1>8. CASE ServeRequest
  <2>1. ~InSession
    BY <1>6, <1>8 DEF ServeRequest, InSession, AcksInOrder, Rrq
  <2>2. serving = 0 /\ Len(toServer') = Len(toServer) - 1 /\ Len(toServer) = 1 /\ strays' = strays
    BY <1>1, <1>3, <1>6, <1>8, <2>1 DEF ServeRequest, NotServed
  <2>3. CASE Send(Data(1)) /\ serving' = 1 /\ repeats' = Repeats
    <3>1. Len(toClient') = Len(toClient) + 1
      BY <1>4, <1>5, <2>3
    <3>2. BlocksLeft' = BlocksLeft - 1
      BY <1>2, <2>2, <2>3 DEF BlocksLeft, LastBlock
    <3>3. PacketsLeft' = Served(repeats' + strays', down + 1, up - 1)
          /\ PacketsLeft = Unserved(extras, down, up)
      BY <2>2, <2>3, <3>1 DEF PacketsLeft, extras, down, up
    <3>4. repeats' + strays' \in Int /\ repeats' + strays' <= extras + Repeats /\ Repeats \in Int
      <4>1. repeats \in Nat /\ strays \in Nat /\ Repeats \in Nat
        BY LeftNumbers
      <4> QED
        BY <2>2, <2>3, <4>1 DEF extras
    <3>5. PacketsLeft' \in Int /\ PacketsLeft' < PacketsLeft + BlockWeight
      <4>1. down + 1 \in Int /\ up - 1 \in Int /\ down \in Int
        BY <1>n
      <4>2. PacketsLeft' \in Int
        BY <3>3, <3>4, <4>1, WeightTypes
      <4>3. PacketsLeft' < PacketsLeft + (3 * Repeats + 3)
        BY <1>n, <3>3, <3>4, <4>1, PacketsRise
      <4> QED
        BY <4>2, <4>3 DEF BlockWeight
    <3> QED
      BY <1>2, <3>2, <3>5, LeftNumbers, NextBlock
  <2>4. CASE Send(Error) /\ UNCHANGED <<serving, repeats>>
    <3>1. Len(toClient') = Len(toClient) + 1
      BY <1>4, <1>5, <2>4
    <3>2. PacketsLeft' = Unserved(extras, down + 1, up - 1) /\ PacketsLeft = Unserved(extras, down, up)
      BY <2>2, <2>4, <3>1 DEF PacketsLeft, extras, down, up
    <3>3. PacketsLeft' \in Int /\ PacketsLeft' < PacketsLeft
      BY <1>n, <3>2, PacketsFall, WeightTypes
    <3> QED
      BY <1>2, <2>4, <3>3, LeftNumbers, SameBlock
  <2> QED
    BY <1>8, <2>3, <2>4 DEF ServeRequest
<1>9. CASE ServeAck
  <2>1. InSession
    BY <1>1, <1>3, <1>6, <1>9 DEF ServeAck, NotServed, Rrq
  <2>2. /\ toServer # <<>> /\ toServer' = Tail(toServer) /\ Len(toServer') = Len(toServer) - 1
        /\ serving \in Nat \ {0} /\ strays' = strays
    BY <1>1, <1>6, <1>9, <2>1 DEF ServeAck, InSession
  <2>3. CASE Head(toServer).number # Number(serving)
    <3>1. UNCHANGED <<toClient, serving, repeats>>
      BY <1>9, <2>3 DEF ServeAck
    <3>2. PacketsLeft' = Served(extras, down, up - 1) /\ PacketsLeft = Served(extras, down, up)
      BY <2>2, <3>1 DEF PacketsLeft, extras, down, up
    <3>3. PacketsLeft' \in Int /\ PacketsLeft' < PacketsLeft
      BY <1>n, <3>2, PacketsFall, WeightTypes
    <3> QED
      BY <1>2, <3>1, <3>3, LeftNumbers, SameBlock
  <2>4. CASE Head(toServer).number = Number(serving)
    <3>1. Copied = serving
      BY <1>1, <2>1, <2>2, <2>4, AcksAdvance DEF InSession
    <3>2. serving < LastBlock(size)
      BY <1>2, <3>1 DEF TftpInv, PrefixCopied
    <3>3. Send(Data(serving + 1)) /\ serving' = serving + 1 /\ repeats' = Repeats
      BY <1>9, <2>2, <2>4, <3>2, LeftNumbers DEF ServeAck
    <3>4. Len(toClient') = Len(toClient) + 1
      BY <1>4, <1>5, <3>3
    <3>5. BlocksLeft' = BlocksLeft - 1
      <4>1. serving' # 0 /\ LastBlock(size') = LastBlock(size)
        BY <1>2, <2>2, <3>3
      <4>2. BlocksLeft' = LastBlock(size) - (serving + 1) /\ BlocksLeft = LastBlock(size) - serving
        BY <2>2, <3>3, <4>1 DEF BlocksLeft
      <4>3. LastBlock(size) \in Int /\ serving \in Int
        BY LeftNumbers
      <4> QED
        BY <4>2, <4>3
    <3>6. PacketsLeft' = Served(repeats' + strays', down + 1, up - 1)
          /\ PacketsLeft = Served(extras, down, up)
      BY <2>2, <3>3, <3>4 DEF PacketsLeft, extras, down, up
    <3>7. repeats' + strays' \in Int /\ repeats' + strays' <= extras + Repeats /\ Repeats \in Int
      <4>1. repeats \in Nat /\ strays \in Nat /\ Repeats \in Nat
        BY LeftNumbers
      <4>2. repeats' = Repeats /\ strays' = strays
        BY <2>2, <3>3
      <4> QED
        BY <4>1, <4>2 DEF extras
    <3>8. PacketsLeft' \in Int /\ PacketsLeft' < PacketsLeft + BlockWeight
      <4>1. down + 1 \in Int /\ up - 1 \in Int /\ down \in Int
        BY <1>n
      <4>2. PacketsLeft' \in Int
        BY <3>6, <3>7, <4>1, WeightTypes
      <4>3. PacketsLeft' < PacketsLeft + (3 * Repeats + 3)
        BY <1>n, <3>6, <3>7, <4>1, PacketsRise
      <4> QED
        BY <4>2, <4>3 DEF BlockWeight
    <3> QED
      BY <1>2, <3>5, <3>8, LeftNumbers, NextBlock
  <2> QED
    BY <2>3, <2>4
<1>10. CASE ServeAgain \/ SendStray
  <2>1. UNCHANGED <<toServer, serving>> /\ Len(toClient') = Len(toClient) + 1
    BY <1>4, <1>5, <1>10 DEF ServeAgain, SendStray
  <2>2. \/ repeats' = repeats - 1 /\ strays' = strays
        \/ strays' = strays - 1 /\ repeats' = repeats
    BY <1>10 DEF ServeAgain, SendStray
  <2>3. PacketsLeft' \in Int /\ PacketsLeft' < PacketsLeft
    <3>1. repeats' + strays' = extras - 1
      <4>1. repeats \in Int /\ strays \in Int
        BY LeftNumbers
      <4> QED
        BY <2>2, <4>1 DEF extras
    <3>2. CASE serving = 0
      <4>1. PacketsLeft' = Unserved(extras - 1, down + 1, up) /\ PacketsLeft = Unserved(extras, down, up)
        BY <2>1, <3>1, <3>2 DEF PacketsLeft, extras, down, up
      <4> QED
        BY <1>n, <4>1, PacketsFall, WeightTypes
    <3>3. CASE serving # 0
      <4>1. PacketsLeft' = Served(extras - 1, down + 1, up) /\ PacketsLeft = Served(extras, down, up)
        BY <2>1, <3>1, <3>3 DEF PacketsLeft, extras, down, up
      <4> QED
        BY <1>n, <4>1, PacketsFall, WeightTypes
    <3> QED
      BY <3>2, <3>3
  <2> QED
    BY <1>2, <2>1, <2>3, LeftNumbers, SameBlock
<1>11. CASE Lose
  <2>1. UNCHANGED <<serving, repeats, strays>>
    BY <1>11 DEF Lose
  <2>2. \/ Len(toClient') = Len(toClient) - 1 /\ toServer' = toServer
        \/ Len(toServer') = Len(toServer) - 1 /\ toClient' = toClient
    BY <1>6, <1>7, <1>11 DEF Lose
  <2>3. PacketsLeft' \in Int /\ PacketsLeft' < PacketsLeft
    <3>1. CASE serving = 0
      <4>1. \/ PacketsLeft' = Unserved(extras, down - 1, up)
            \/ PacketsLeft' = Unserved(extras, down, up - 1)
        BY <2>1, <2>2, <3>1 DEF PacketsLeft, extras, down, up
      <4>2. PacketsLeft = Unserved(extras, down, up)
        BY <3>1 DEF PacketsLeft, extras, down, up
      <4>3. /\ Unserved(extras, down - 1, up) \in Int /\ Unserved(extras, down, up - 1) \in Int
            /\ Unserved(extras, down - 1, up) < Unserved(extras, down, up)
            /\ Unserved(extras, down, up - 1) < Unserved(extras, down, up)
        BY <1>n, PacketsFall, WeightTypes
      <4> QED
        BY <4>1, <4>2, <4>3
    <3>2. CASE serving # 0
      <4>1. \/ PacketsLeft' = Served(extras, down - 1, up)
            \/ PacketsLeft' = Served(extras, down, up - 1)
        BY <2>1, <2>2, <3>2 DEF PacketsLeft, extras, down, up
      <4>2. PacketsLeft = Served(extras, down, up)
        BY <3>2 DEF PacketsLeft, extras, down, up
      <4>3. /\ Served(extras, down - 1, up) \in Int /\ Served(extras, down, up - 1) \in Int
            /\ Served(extras, down - 1, up) < Served(extras, down, up)
            /\ Served(extras, down, up - 1) < Served(extras, down, up)
        BY <1>n, PacketsFall, WeightTypes
      <4> QED
        BY <4>1, <4>2, <4>3
    <3> QED
      BY <3>1, <3>2
  <2> QED
    BY <1>2, <2>1, <2>3, LeftNumbers, SameBlock
<1> QED
  BY <1>8, <1>9, <1>10, <1>11 DEF Network

(* Why DownloadEnds holds, but for the fairness: while a download runs the *)
(* client always has a step to take, and every step, also of a server that *)
(* repeats and of a segment that loses, uses up what is left of it.        *)
THEOREM DownloadAdvances ==
  TftpSpec => /\ [](InDownload => ClientCanStep /\ DownloadLeft \in Nat)
              /\ [][InDownload /\ InDownload' => DownloadLeft' < DownloadLeft]_tftpVars
<1>1. TftpInv => (InDownload => ClientCanStep /\ DownloadLeft \in Nat)
  BY ClientNeverWaits, LeftIsNumber
<1>2. TftpInv /\ [TftpNext]_tftpVars =>
        [InDownload /\ InDownload' => DownloadLeft' < DownloadLeft]_tftpVars
  <2>1. BeginDownload \/ Over => ~InDownload
    BY DEF BeginDownload, Over, InDownload
  <2> QED
    BY <2>1, ClientNearer, ServerNearer DEF TftpNext
<1> QED
  BY TftpInvInit, TftpInvNext, <1>1, <1>2, PTL DEF TftpSpec

-----------------------------------------------------------------------------
(* The neighbour caches.                                                   *)
Caches == [entries: [1 .. CacheSize -> Slot], count: 0 .. CacheSize]

(* The slots that are counted hold pairs of the set.                       *)
EntriesIn(c, pairs) ==
  \A i \in 1 .. c.count : c.entries[i].ip \in Hosts /\ <<c.entries[i].ip, c.entries[i].mac>> \in pairs

CacheInv == CacheTypeOK /\ EntriesIn(cache, announced) /\ AnswerAnnounced

LEMMA SmallestExists ==
  ASSUME NEW S, S \subseteq Nat, S # {}
  PROVE  Min(S) \in S /\ \A y \in S : Min(S) <= y
<1>1. \E x \in S : \A y \in S : ~(<<y, x>> \in OpToRel(<, Nat))
  BY NatLessThanWellFounded, WFMin
<1>2. PICK x \in S : \A y \in S : ~(<<y, x>> \in OpToRel(<, Nat))
  BY <1>1
<1>3. ASSUME NEW y \in S, y < x
      PROVE  FALSE
  <2>1. <<y, x>> \in Nat \X Nat /\ <<y, x>>[1] = y /\ <<y, x>>[2] = x
    OBVIOUS
  <2>2. <<y, x>> \in OpToRel(<, Nat)
    BY <1>3, <2>1, Zenon DEF OpToRel
  <2> QED
    BY <1>2, <2>2
<1>4. \A y \in S : x <= y
  BY <1>3
<1> QED
  BY <1>4 DEF Min

(* The slot a lookup stops at, and what it finds there.                    *)
LEMMA MatchFound ==
  ASSUME NEW c \in Caches, NEW pairs, EntriesIn(c, pairs), NEW ip, Matches(c, ip) # {}
  PROVE  /\ FirstMatch(c, ip) \in 1 .. c.count
         /\ c.entries[FirstMatch(c, ip)].ip = ip
         /\ \A i \in Matches(c, ip) : FirstMatch(c, ip) <= i
         /\ <<ip, MacOf(c, ip)>> \in pairs
<1>1. c.count \in Nat
  BY CacheAssumption DEF Caches
<1>2. Matches(c, ip) \subseteq Nat
  BY <1>1 DEF Matches
<1>3. FirstMatch(c, ip) \in Matches(c, ip) /\ \A i \in Matches(c, ip) : FirstMatch(c, ip) <= i
  BY <1>2, SmallestExists DEF FirstMatch
<1>4. FirstMatch(c, ip) \in 1 .. c.count /\ c.entries[FirstMatch(c, ip)].ip = ip
  BY <1>3 DEF Matches
<1>5. <<ip, MacOf(c, ip)>> \in pairs
  BY <1>4 DEF EntriesIn, MacOf
<1> QED
  BY <1>3, <1>4, <1>5

(* A lookup that finds something finds a pair of the set.                  *)
LEMMA MacFound ==
  ASSUME NEW c \in Caches, NEW pairs, pairs \subseteq Hosts \X Macs, EntriesIn(c, pairs), NEW ip
  PROVE  /\ MacOf(c, ip) \in Macs \cup {NoMac}
         /\ MacOf(c, ip) # NoMac => <<ip, MacOf(c, ip)>> \in pairs
         /\ Matches(c, ip) # {} => MacOf(c, ip) # NoMac
<1>1. CASE Matches(c, ip) = {}
  BY <1>1 DEF MacOf
<1>2. CASE Matches(c, ip) # {}
  <2>1. <<ip, MacOf(c, ip)>> \in pairs
    BY <1>2, MatchFound
  <2>2. MacOf(c, ip) \in Macs
    BY <2>1
  <2> QED
    BY <2>1, <2>2, HostAssumption
<1> QED
  BY <1>1, <1>2

(* An answer that is kept is behind the others.                            *)
LEMMA AppendedEntry ==
  ASSUME CacheTypeOK, EntriesIn(cache, announced), cache.count < CacheSize,
         NEW ip \in Hosts, NEW mac \in Macs, NEW x \in Hosts
  PROVE  /\ Appended(ip, mac) \in Caches
         /\ EntriesIn(Appended(ip, mac), announced \cup {<<ip, mac>>})
         /\ Matches(cache, x) # {} => MacOf(Appended(ip, mac), x) = MacOf(cache, x)
         /\ Matches(cache, x) = {} /\ x = ip => MacOf(Appended(ip, mac), x) = mac
         /\ Matches(cache, x) = {} /\ x # ip => MacOf(Appended(ip, mac), x) = NoMac
<1> DEFINE c == Appended(ip, mac)
           new == [ip |-> ip, mac |-> mac, timestamp |-> Stamp]
           n == cache.count
<1>1. cache \in Caches /\ n \in Nat /\ n + 1 \in 1 .. CacheSize
      /\ CacheSize \in Nat /\ UsPerSecond \in Nat \ {0} /\ now \in Nat
  BY CacheAssumption DEF CacheTypeOK, Caches
<1>2. Stamp \in Nat
  BY <1>1 DEF Stamp
<1>3. new \in Slot
  BY <1>2 DEF Slot
<1>4. c = [entries |-> [cache.entries EXCEPT ![n + 1] = new], count |-> n + 1]
  BY DEF Appended
<1> HIDE DEF new, c
<1>5. cache.entries \in [1 .. CacheSize -> Slot]
  BY <1>1 DEF Caches
<1>6. c.entries \in [1 .. CacheSize -> Slot]
  BY <1>3, <1>4, <1>5
<1>7. c \in Caches
  BY <1>1, <1>4, <1>6 DEF Caches
<1>8. /\ c.count = n + 1 /\ c.entries[n + 1] = new
      /\ \A i \in 1 .. n : c.entries[i] = cache.entries[i]
  BY <1>1, <1>4, <1>5
<1>9. new.ip = ip /\ new.mac = mac
  BY DEF new
<1>10. \A i \in 1 .. c.count : i \in 1 .. n \/ i = n + 1
  BY <1>1, <1>8
<1>11. EntriesIn(c, announced \cup {<<ip, mac>>})
  BY <1>8, <1>9, <1>10 DEF EntriesIn
<1>12. Matches(c, x) = Matches(cache, x) \cup (IF x = ip THEN {n + 1} ELSE {})
  BY <1>1, <1>8, <1>9, <1>10 DEF Matches
<1>13. ASSUME Matches(cache, x) # {}
       PROVE  MacOf(c, x) = MacOf(cache, x)
  <2>1. FirstMatch(cache, x) \in Matches(cache, x) /\ FirstMatch(cache, x) \in 1 .. n
        /\ \A i \in Matches(cache, x) : FirstMatch(cache, x) <= i
    BY <1>1, <1>13, MatchFound DEF Matches
  <2>2. Matches(c, x) # {}
    BY <1>12, <1>13
  <2>3. FirstMatch(c, x) \in Matches(c, x) /\ FirstMatch(c, x) \in 1 .. (n + 1)
        /\ \A i \in Matches(c, x) : FirstMatch(c, x) <= i
    BY <1>7, <1>8, <1>11, <2>2, MatchFound DEF Matches
  <2>4. FirstMatch(c, x) <= FirstMatch(cache, x)
    BY <1>12, <2>1, <2>3
  <2>5. FirstMatch(c, x) \in Matches(cache, x)
    BY <1>1, <1>12, <2>1, <2>3, <2>4
  <2>6. FirstMatch(c, x) = FirstMatch(cache, x)
    BY <1>1, <2>1, <2>3, <2>4, <2>5
  <2> QED
    BY <1>8, <1>13, <2>1, <2>2, <2>6 DEF MacOf
<1>14. ASSUME Matches(cache, x) = {}
       PROVE  MacOf(c, x) = IF x = ip THEN mac ELSE NoMac
  <2>1. CASE x # ip
    BY <1>12, <1>14, <2>1 DEF MacOf
  <2>2. CASE x = ip
    <3>1. Matches(c, x) = {n + 1}
      BY <1>12, <1>14, <2>2
    <3>2. FirstMatch(c, x) = n + 1
      <4>1. Min({n + 1}) \in {n + 1}
        BY <1>1, SmallestExists
      <4> QED
        BY <3>1, <4>1 DEF FirstMatch
    <3> QED
      BY <1>8, <1>9, <2>2, <3>1, <3>2 DEF MacOf
  <2> QED
    BY <2>1, <2>2
<1> QED
  BY <1>7, <1>11, <1>13, <1>14 DEF c

(* A stale entry is replaced by the last one.                              *)
LEMMA WithoutMatchEntries ==
  ASSUME CacheTypeOK, EntriesIn(cache, announced), NEW ip
  PROVE  WithoutMatch(ip) \in Caches /\ EntriesIn(WithoutMatch(ip), announced)
<1>1. cache \in Caches /\ CacheSize \in Nat
  BY CacheAssumption DEF CacheTypeOK, Caches
<1>2. CASE Matches(cache, ip) = {}
  BY <1>1, <1>2 DEF WithoutMatch
<1>3. CASE Matches(cache, ip) # {}
  <2> DEFINE f == FirstMatch(cache, ip)
             n == cache.count
             c == WithoutMatch(ip)
  <2>1. f \in 1 .. n /\ n \in 1 .. CacheSize /\ n - 1 \in 0 .. CacheSize
    <3>1. f \in 1 .. n
      BY <1>1, <1>3, MatchFound
    <3>2. n \in 0 .. CacheSize
      BY <1>1 DEF Caches
    <3> HIDE DEF f, n
    <3> QED
      BY <1>1, <3>1, <3>2
  <2>2. c = [entries |-> [cache.entries EXCEPT ![f] = cache.entries[n]], count |-> n - 1]
    BY <1>3 DEF WithoutMatch
  <2> HIDE DEF c, f
  <2>3. cache.entries \in [1 .. CacheSize -> Slot] /\ f \in 1 .. CacheSize
    BY <1>1, <2>1 DEF Caches
  <2>4. c.entries \in [1 .. CacheSize -> Slot] /\ c.count = n - 1
    BY <2>1, <2>2, <2>3
  <2>5. c \in Caches
    <3>1. c = [entries |-> c.entries, count |-> n - 1]
      BY <2>2
    <3> QED
      BY <2>1, <2>4, <3>1 DEF Caches
  <2>6. \A i \in 1 .. (n - 1) : c.entries[i] = cache.entries[i] \/ c.entries[i] = cache.entries[n]
    BY <2>1, <2>2, <2>3
  <2>7. \A i \in 1 .. (n - 1) : i \in 1 .. n
    BY <2>1
  <2>8. n \in 1 .. n
    BY <2>1
  <2>9. EntriesIn(c, announced)
    BY <2>4, <2>6, <2>7, <2>8 DEF EntriesIn
  <2> QED
    BY <2>5, <2>9 DEF c
<1> QED
  BY <1>2, <1>3

(* An entry that is being written is behind the ones that are counted.     *)
LEMMA HalfWritten ==
  ASSUME CacheTypeOK, EntriesIn(cache, announced), cache.count < CacheSize, NEW ip \in Hosts
  PROVE  LET c == [cache EXCEPT !.entries[cache.count + 1].ip = ip]
         IN  c \in Caches /\ EntriesIn(c, announced)
<1> DEFINE n == cache.count
           slot == [cache.entries[n + 1] EXCEPT !.ip = ip]
           entries == [cache.entries EXCEPT ![n + 1] = slot]
           c == [cache EXCEPT !.entries[n + 1].ip = ip]
<1>1. cache \in Caches /\ n \in Nat /\ n + 1 \in 1 .. CacheSize /\ n \in 0 .. CacheSize
  BY CacheAssumption DEF CacheTypeOK, Caches
<1>2. cache.entries \in [1 .. CacheSize -> Slot]
  BY <1>1 DEF Caches
<1>3. slot \in Slot
  BY <1>1, <1>2 DEF Slot
<1>4. c.entries = entries /\ c.count = n /\ c = [entries |-> entries, count |-> n]
  BY <1>1 DEF Caches
<1> HIDE DEF c, slot
<1>5. entries \in [1 .. CacheSize -> Slot]
  BY <1>2, <1>3
<1>6. \A i \in 1 .. n : entries[i] = cache.entries[i]
  BY <1>1, <1>2
<1> HIDE DEF entries, n
<1>7. c \in Caches
  BY <1>1, <1>4, <1>5 DEF Caches
<1>8. EntriesIn(c, announced)
  BY <1>4, <1>6 DEF EntriesIn, n
<1> QED
  BY <1>7, <1>8 DEF c, n

(* Until the machine has been up for the limit, no answer is stale: what   *)
(* is compared with the limit is at most the time since power-on.          *)
LEMMA NothingStale ==
  ASSUME CacheTypeOK, now < ArpLimit * UsPerSecond, NEW ip, Matches(cache, ip) # {},
         EntriesIn(cache, announced)
  PROVE  ArpFresh(ip)
<1> DEFINE stamp == cache.entries[FirstMatch(cache, ip)].timestamp
           age == now - stamp
           q == age \div UsPerSecond
<1>1. cache \in Caches /\ now \in Nat /\ ArpLimit \in Nat /\ UsPerSecond \in Nat \ {0}
      /\ CacheSize \in Nat
  BY CacheAssumption DEF CacheTypeOK, Caches
<1>2. stamp \in Nat
  <2>1. FirstMatch(cache, ip) \in 1 .. cache.count
    BY <1>1, MatchFound
  <2>2. FirstMatch(cache, ip) \in 1 .. CacheSize
    BY <1>1, <2>1 DEF Caches
  <2> QED
    BY <1>1, <2>2 DEF Caches, Slot
<1>3. age \in Int /\ age < ArpLimit * UsPerSecond
  <2> HIDE DEF stamp
  <2>1. ArpLimit * UsPerSecond \in Nat
    BY <1>1
  <2> QED
    BY <1>1, <1>2, <2>1
<1> HIDE DEF stamp, age
<1>4. q \in Int /\ UsPerSecond * q <= age
  BY <1>1, <1>3
<1> HIDE DEF q
<1>5. q < ArpLimit
  <2>1. SUFFICES ASSUME q >= ArpLimit PROVE FALSE
    BY <1>1, <1>4
  <2>2. UsPerSecond * q >= UsPerSecond * ArpLimit
    BY <1>1, <1>4, <2>1
  <2> QED
    BY <1>1, <1>3, <1>4, <2>2
<1> QED
  BY <1>5 DEF ArpFresh, q, age, stamp

LEMMA CacheInvInit == CacheInit => CacheInv
<1> SUFFICES ASSUME CacheInit PROVE CacheInv
  OBVIOUS
<1>1. CacheSize \in Nat /\ EmptyCache.count = 0 /\ EmptyCache \in Caches
  <2>1. UnusedSlot \in Slot
    BY DEF UnusedSlot, Slot
  <2>2. [i \in 1 .. CacheSize |-> UnusedSlot] \in [1 .. CacheSize -> Slot]
    BY <2>1
  <2> QED
    BY <2>2, CacheAssumption DEF EmptyCache, Caches
<1>2. CacheTypeOK
  BY <1>1 DEF CacheInit, CacheTypeOK, Caches, NoAnswer
<1>3. EntriesIn(cache, announced)
  BY <1>1 DEF CacheInit, EntriesIn
<1>4. AnswerAnnounced
  BY DEF CacheInit, AnswerAnnounced, NoAnswer
<1> QED
  BY <1>2, <1>3, <1>4 DEF CacheInv

(* What an announcement leaves of the record, and what it adds.            *)
LEMMA Heard ==
  ASSUME CacheInv, NEW ip \in Hosts, NEW mac \in Macs, Hear(ip, mac),
         UNCHANGED <<protocol, now, answer>>,
         cache' = IF cache.count < CacheSize THEN Appended(ip, mac) ELSE cache
  PROVE  CacheInv'
<1>1. announced' = announced \cup {<<ip, mac>>} /\ announced' \subseteq Hosts \X Macs
  BY DEF Hear, CacheInv, CacheTypeOK
<1>3. cache' \in Caches /\ EntriesIn(cache', announced')
  <2>1. CASE cache.count < CacheSize
    BY <1>1, <2>1, AppendedEntry DEF CacheInv
  <2>2. CASE ~(cache.count < CacheSize)
    BY <1>1, <2>2 DEF CacheInv, CacheTypeOK, Caches, EntriesIn
  <2> QED
    BY <2>1, <2>2
<1>4. CacheTypeOK'
  BY <1>1, <1>3 DEF CacheInv, CacheTypeOK, Caches
<1>5. AnswerAnnounced'
  BY <1>1 DEF CacheInv, AnswerAnnounced
<1> QED
  BY <1>3, <1>4, <1>5 DEF CacheInv

(* A lookup of either cache; what is found was announced.                  *)
LEMMA LookedUp ==
  ASSUME CacheInv, UNCHANGED <<protocol, announced>>,
         now' \in Nat, now <= now', cache' \in Caches, EntriesIn(cache', announced),
         NEW ip \in Hosts \cup {Broadcast}, NEW mac \in Macs \cup {NoMac},
         mac # NoMac => <<ip, mac>> \in announced,
         answer' = [ip |-> ip, mac |-> mac]
  PROVE  CacheInv'
<1>1. CacheTypeOK'
  BY DEF CacheInv, CacheTypeOK, Caches
<1>2. AnswerAnnounced'
  BY DEF AnswerAnnounced
<1> QED
  BY <1>1, <1>2 DEF CacheInv, EntriesIn

LEMMA CacheInvNext == CacheInv /\ [CacheNext]_cacheVars => CacheInv'
<1> SUFFICES ASSUME CacheInv, [CacheNext]_cacheVars PROVE CacheInv'
  OBVIOUS
<1>1. /\ cache \in Caches /\ announced \subseteq Hosts \X Macs /\ EntriesIn(cache, announced)
      /\ now \in Nat /\ UsPerSecond \in Nat /\ CacheTypeOK
      /\ answer \in [ip: Hosts \cup {Zero, Broadcast}, mac: Macs \cup {NoMac}]
  BY CacheAssumption DEF CacheInv, CacheTypeOK, Caches
<1>2. ASSUME NEW x
      PROVE  /\ MacOf(cache, x) \in Macs \cup {NoMac}
             /\ MacOf(cache, x) # NoMac => <<x, MacOf(cache, x)>> \in announced
  BY <1>1, MacFound
<1>3. CASE ArpReply
  <2>1. PICK ip \in Hosts, mac \in Macs : network_process_arp_packet(ip, mac)
    BY <1>3 DEF ArpReply
  <2> QED
    BY <2>1, Heard DEF network_process_arp_packet
<1>4. CASE ArpLookup
  <2>1. PICK ip \in Hosts \cup {Broadcast} : network_arp_request(ip)
    BY <1>4 DEF ArpLookup
  <2>2. UNCHANGED <<protocol, announced>>
    BY <2>1 DEF network_arp_request
  <2>3. CASE Usable(ip) /\ ~(Matches(cache, ip) # {} /\ ArpFresh(ip))
    <3>1. answer' = [ip |-> ip, mac |-> NoMac] /\ cache' = WithoutMatch(ip)
          /\ now' \in {now, now + UsPerSecond}
      BY <2>1, <2>3 DEF network_arp_request
    <3>2. now' \in Nat /\ now <= now'
      BY <1>1, <3>1
    <3>3. cache' \in Caches /\ EntriesIn(cache', announced)
      BY <1>1, <3>1, WithoutMatchEntries
    <3> QED
      BY <2>2, <3>1, <3>2, <3>3, LookedUp
  <2>4. CASE ~(Usable(ip) /\ ~(Matches(cache, ip) # {} /\ ArpFresh(ip)))
    <3>1. UNCHANGED <<now, cache>>
      BY <2>1, <2>4 DEF network_arp_request
    <3>2. PICK mac \in {NoMac, MacOf(cache, ip)} : answer' = [ip |-> ip, mac |-> mac]
      BY <2>1, <2>4 DEF network_arp_request
    <3>3. mac \in Macs \cup {NoMac} /\ (mac # NoMac => <<ip, mac>> \in announced)
      BY <1>2, <3>2
    <3>4. now' \in Nat /\ now <= now' /\ cache' \in Caches /\ EntriesIn(cache', announced)
      BY <1>1, <3>1
    <3> QED
      BY <2>2, <3>2, <3>3, <3>4, LookedUp
  <2> QED
    BY <2>3, <2>4
<1>5. CASE NdAdvert
  <2>1. PICK ip \in Hosts, mac \in Macs \cup {NoMac} : network_ipv6_process_nd(ip, mac)
    BY <1>5 DEF NdAdvert
  <2>2. UNCHANGED <<protocol, now, answer>> /\ protocol = "nd"
    BY <2>1 DEF network_ipv6_process_nd
  <2>3. cache.count \in 0 .. CacheSize /\ CacheSize \in Nat
    BY <1>1, CacheAssumption DEF Caches
  <2>4. CASE mac # NoMac
    <3>1. Hear(ip, mac) /\ mac \in Macs
      BY <2>1, <2>4 DEF network_ipv6_process_nd
    <3>2. cache' = IF cache.count < CacheSize THEN Appended(ip, mac) ELSE cache
      BY <2>1, <2>3, <2>4 DEF network_ipv6_process_nd
    <3> QED
      BY <2>2, <3>1, <3>2, Heard
  <2>5. CASE mac = NoMac
    <3>1. UNCHANGED announced
          /\ cache' = IF cache.count = CacheSize THEN cache
                      ELSE [cache EXCEPT !.entries[cache.count + 1].ip = ip]
      BY <2>1, <2>5 DEF network_ipv6_process_nd
    <3>2. cache' \in Caches /\ EntriesIn(cache', announced)
      BY <1>1, <2>3, <3>1, HalfWritten
    <3> QED
      BY <1>1, <2>2, <3>1, <3>2
         DEF CacheInv, CacheTypeOK, Caches, EntriesIn, AnswerAnnounced
  <2> QED
    BY <2>4, <2>5
<1>6. CASE NdLookup
  <2>1. PICK ip \in Hosts : network_ipv6_resolve_mac(ip)
    BY <1>6 DEF NdLookup
  <2>2. UNCHANGED <<protocol, now, announced>> /\ protocol = "nd"
    BY <2>1 DEF network_ipv6_resolve_mac
  <2>3. cache' \in Caches /\ EntriesIn(cache', announced)
    <3>1. cache' = cache \/ cache' = WithoutMatch(ip)
      BY <2>1 DEF network_ipv6_resolve_mac
    <3> QED
      BY <1>1, <3>1, WithoutMatchEntries
  <2>4. PICK mac \in {NoMac, MacOf(cache', ip)} : answer' = [ip |-> ip, mac |-> mac]
    BY <2>1 DEF network_ipv6_resolve_mac
  <2>5. mac \in Macs \cup {NoMac} /\ (mac # NoMac => <<ip, mac>> \in announced)
    BY <1>1, <2>3, <2>4, MacFound
  <2>6. now' \in Nat /\ now <= now'
    BY <1>1, <2>2
  <2> QED
    BY <2>2, <2>3, <2>4, <2>5, <2>6, LookedUp
<1>7. CASE TimePasses
  <2>1. now' \in Nat /\ now <= now' /\ UNCHANGED <<protocol, cache, answer, announced>>
    BY <1>1, <1>7 DEF TimePasses
  <2> QED
    BY <2>1 DEF CacheInv, CacheTypeOK, EntriesIn, AnswerAnnounced
<1>8. CASE UNCHANGED cacheVars
  BY <1>8 DEF cacheVars, CacheInv, CacheTypeOK, EntriesIn, AnswerAnnounced
<1> QED
  BY <1>3, <1>4, <1>5, <1>6, <1>7, <1>8 DEF CacheNext

(* Types.                                                                  *)
THEOREM CacheTypeCorrect == CacheSpec => []CacheTypeOK
<1>1. CacheInv => CacheTypeOK
  BY DEF CacheInv
<1> QED
  BY CacheInvInit, CacheInvNext, <1>1, PTL DEF CacheSpec

(* Whatever the order of announcements, lookups and waiting, with however  *)
(* many hosts and slots: what a cache answers was announced for that very  *)
(* address.                                                                *)
THEOREM LookupsAreSound == CacheSpec => []AnswerAnnounced
<1>1. CacheInv => AnswerAnnounced
  BY DEF CacheInv
<1> QED
  BY CacheInvInit, CacheInvNext, <1>1, PTL DEF CacheSpec

(* How far the ARP cache is from the ten minutes of its comment: until the *)
(* machine has been up for ArpLimit seconds, a week, no step changes or    *)
(* drops the link address that a host is found at, neither for its age nor *)
(* for an announcement that the host has moved to another card.            *)
THEOREM ArpNeverExpires ==
  CacheSpec =>
    [][(protocol = "arp" /\ now < ArpLimit * UsPerSecond) =>
         \A ip \in Hosts : Matches(cache, ip) # {} => MacOf(cache', ip) = MacOf(cache, ip)]_cacheVars
<1>1. CacheInv /\ [CacheNext]_cacheVars =>
        [(protocol = "arp" /\ now < ArpLimit * UsPerSecond) =>
           \A ip \in Hosts : Matches(cache, ip) # {} => MacOf(cache', ip) = MacOf(cache, ip)]_cacheVars
  <2> SUFFICES ASSUME CacheInv, CacheNext, protocol = "arp", now < ArpLimit * UsPerSecond,
                      NEW x \in Hosts, Matches(cache, x) # {}
               PROVE  MacOf(cache', x) = MacOf(cache, x)
    BY DEF cacheVars
  <2>1. CacheTypeOK /\ EntriesIn(cache, announced)
    BY DEF CacheInv
  <2>2. CASE ArpReply
    <3>1. PICK ip \in Hosts, mac \in Macs : network_process_arp_packet(ip, mac)
      BY <2>2 DEF ArpReply
    <3>2. CASE cache.count < CacheSize
      <4>1. cache' = Appended(ip, mac)
        BY <3>1, <3>2 DEF network_process_arp_packet
      <4>2. announced \subseteq Hosts \X Macs
        BY <2>1 DEF CacheTypeOK
      <4>3. MacOf(Appended(ip, mac), x) = MacOf(cache, x)
        BY <2>1, <3>2, AppendedEntry, Zenon
      <4> QED
        BY <4>1, <4>3
    <3>3. CASE ~(cache.count < CacheSize)
      BY <3>1, <3>3 DEF network_process_arp_packet
    <3> QED
      BY <3>2, <3>3
  <2>3. CASE ArpLookup
    <3>1. PICK ip \in Hosts \cup {Broadcast} : network_arp_request(ip)
      BY <2>3 DEF ArpLookup
    <3>2. Matches(cache, ip) # {} => ArpFresh(ip)
      BY <2>1, NothingStale
    <3>3. cache' = cache
      BY <3>1, <3>2 DEF network_arp_request, WithoutMatch
    <3> QED
      BY <3>3
  <2>4. CASE NdAdvert \/ NdLookup
    BY <2>4 DEF NdAdvert, NdLookup, network_ipv6_process_nd, network_ipv6_resolve_mac
  <2>5. CASE TimePasses
    BY <2>5 DEF TimePasses
  <2> QED
    BY <2>2, <2>3, <2>4, <2>5 DEF CacheNext
<1> QED
  BY CacheInvInit, CacheInvNext, <1>1, PTL DEF CacheSpec

-----------------------------------------------------------------------------
(* Address configuration.                                                  *)
(*                                                                         *)
(* Everything IPv4 goes to the broadcast address, which ARP refuses.       *)
AddressInv == AddressTypeOK /\ sent \subseteq {"solicit"}

LEMMA AddressInvInit == AddressInit => AddressInv
BY RetryAssumption DEF AddressInit, AddressInv, AddressTypeOK

LEMMA AddressInvNext == AddressInv /\ [AddressNext]_addressVars => AddressInv'
<1> SUFFICES ASSUME AddressInv, [AddressNext]_addressVars PROVE AddressInv'
  OBVIOUS
<1>1. /\ NextXid \in 0 .. (XidModulus - 1) /\ MaxRetries \in Nat
      /\ dhcp_xid \in 0 .. (XidModulus - 1) /\ tries \in 0 .. MaxRetries
  BY RetryAssumption DEF AddressInv, AddressTypeOK, NextXid
<1>2. ASSUME NEW p \in {"dhcp", "bootp", "pxe"}, Discover(p) PROVE AddressInv'
  BY <1>1, <1>2 DEF Discover, AddressInv, AddressTypeOK
<1>3. CASE TryDiscover
  <2>1. UNCHANGED <<sent, discovery, config, result>>
    BY <1>3 DEF TryDiscover, SendUdp, Usable
  <2>2. dhcp_xid' \in 0 .. (XidModulus - 1)
    BY <1>1, <1>3 DEF TryDiscover
  <2>3. tries' \in 0 .. MaxRetries
    BY <1>1, <1>3 DEF TryDiscover
  <2> QED
    BY <2>1, <2>2, <2>3 DEF AddressInv, AddressTypeOK
<1>4. CASE GiveUp
  BY <1>1, <1>4 DEF GiveUp, AddressInv, AddressTypeOK
<1>5. CASE Discover6
  <2>1. sent' \subseteq {"solicit"} /\ config' \in {"blank", "ipv6"} /\ result' \in {"ok", "failed"}
        /\ UNCHANGED <<discovery, tries, dhcp_xid>>
    BY <1>5 DEF Discover6, AddressInv, AddressTypeOK
  <2> QED
    BY <2>1 DEF AddressInv, AddressTypeOK
<1>6. CASE PxeBoot \/ Pxe6Boot \/ AskByName
  BY <1>6 DEF PxeBoot, Pxe6Boot, AskByName, AddressInv, AddressTypeOK
<1>7. CASE UNCHANGED addressVars
  BY <1>7 DEF addressVars, AddressInv, AddressTypeOK
<1> QED
  BY <1>2, <1>3, <1>4, <1>5, <1>6, <1>7 DEF AddressNext

(* No try of DHCP, BOOTP or PXE ever asks anybody, however many there are: *)
(* what leaves the machine is the solicitation of IPv6 alone.              *)
THEOREM NobodyIsAsked == AddressSpec => [](sent \subseteq {"solicit"})
<1>1. AddressInv => sent \subseteq {"solicit"}
  BY DEF AddressInv
<1> QED
  BY AddressInvInit, AddressInvNext, <1>1, PTL DEF AddressSpec

-----------------------------------------------------------------------------
(* The layers side by side.                                                *)
(*                                                                         *)
(* Every layer keeps its types.                                            *)
THEOREM LayersTyped == NetSpec => []NetTypeOK
<1> DEFINE Inv == IInv /\ CacheInv /\ AddressInv /\ TftpInv
<1>1. NetInit => Inv
  BY InvariantInit, CacheInvInit, AddressInvInit, TftpInvInit DEF NetInit
<1>2. Inv /\ [NetNext]_netVars => Inv'
  <2> SUFFICES ASSUME Inv, [NetNext]_netVars
               PROVE  Inv'
    OBVIOUS
  <2>1. [Next]_vars /\ [CacheNext]_cacheVars /\ [AddressNext]_addressVars /\ [TftpNext]_tftpVars
    BY DEF NetNext, netVars
  <2> QED
    BY <2>1, InvariantNext, CacheInvNext, AddressInvNext, TftpInvNext
<1>3. Inv => NetTypeOK
  BY DEF NetTypeOK, IInv, CacheInv, AddressInv, TftpInv, WideTypeOK
<1> QED
  BY <1>1, <1>2, <1>3, PTL DEF NetSpec
=============================================================================
