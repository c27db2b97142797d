---------------------------- MODULE MemTestProofs ---------------------------
(***************************************************************************)
(* The memory tests are exact: the marching test finds every fault of the  *)
(* three kinds, and no test but the random one complains of a sound        *)
(* memory, for every number of address and data lines.                     *)
(*                                                                         *)
(* Powers of two, the patterns and the operations of an element are        *)
(* recursive functions over a range; the first part shows what they        *)
(* compute that the tests rest on: a power is a multiple of twice each     *)
(* smaller one, so that a power has one bit, and the operations of an      *)
(* element are done in turn.                                               *)
(*                                                                         *)
(* The invariant says of a sound memory that the words hold what the       *)
(* running test wrote last, and of a faulty one that the upward march has  *)
(* met the fault once it has passed one address: that of the stuck bit, or *)
(* one that leads to the same cell as address 0, which the march has       *)
(* already set.                                                            *)
(***************************************************************************)
EXTENDS MemTest, SequenceTheorems, WellFoundedInduction, TLAPS

(* The recursive functions of the model are over a range of numbers: one   *)
(* exists for each rule of recursion, by the least number that has none.   *)
LEMMA LeastNumber ==
  ASSUME NEW S, S \subseteq Nat, S # {}
  PROVE  \E x \in S : \A y \in S : x <= y
<1>1. PICK x \in S : \A y \in S : ~(<<y, x>> \in OpToRel(<, Nat))
  <2>1. \E x \in S : \A y \in S : ~(<<y, x>> \in OpToRel(<, Nat))
    BY NatLessThanWellFounded, WFMin
  <2> QED
    BY <2>1
<1>2. ASSUME NEW y \in S, y < x
      PROVE  FALSE
  <2>1. <<y, x>> \in Nat \X Nat /\ <<y, x>>[1] = y /\ <<y, x>>[2] = x
    OBVIOUS
  <2>2. <<y, x>> \in OpToRel(<, Nat)
    BY <1>2, <2>1, Zenon DEF OpToRel
  <2> QED
    BY <1>1, <2>2
<1> QED
  BY <1>2

Recursion(g, N, S, first, step) ==
  /\ g \in [0 .. N -> S]
  /\ g[0] = first /\ \A n \in 1 .. N : g[n] = step[n][g[n - 1]]

(* There is a function for each first value and step, up to any N.         *)
LEMMA RecursionOverRange ==
  ASSUME NEW N \in Nat, NEW S, NEW first \in S, NEW step \in [1 .. N -> [S -> S]]
  PROVE  \E g : Recursion(g, N, S, first, step)
<1> DEFINE upTo(g, k) == g \in [0 .. k -> S] /\ g[0] = first
                           /\ \A n \in 1 .. k : g[n] = step[n][g[n - 1]]
           bad == {k \in 0 .. N : ~ \E g : upTo(g, k)}
<1>1. bad = {}
  <2> SUFFICES ASSUME bad # {} PROVE FALSE
    OBVIOUS
  <2>0. bad \subseteq Nat
    OBVIOUS
  <2>1. PICK k \in bad : \A m \in bad : k <= m
    BY <2>0, LeastNumber
  <2>2. CASE k = 0
    <3> DEFINE g == [n \in 0 .. 0 |-> first]
    <3>1. upTo(g, 0)
      OBVIOUS
    <3> QED
      BY <2>1, <2>2, <3>1
  <2>3. CASE k # 0
    <3>1. k \in 1 .. N /\ k - 1 \in 0 .. N
      BY <2>1, <2>3
    <3>2. PICK h : upTo(h, k - 1)
      <4>1. ~(k <= k - 1)
        BY <3>1
      <4> HIDE DEF upTo
      <4> QED
        BY <2>1, <3>1, <4>1
    <3> DEFINE g == [n \in 0 .. k |-> IF n = k THEN step[k][h[k - 1]] ELSE h[n]]
    <3>3. h[k - 1] \in S /\ step[k][h[k - 1]] \in S
      BY <3>1, <3>2
    <3>4. g \in [0 .. k -> S] /\ g[0] = first
      BY <3>1, <3>2, <3>3
    <3>5. ASSUME NEW n \in 1 .. k
          PROVE  g[n] = step[n][g[n - 1]]
      <4>1. CASE n = k
        BY <3>1, <4>1
      <4>2. CASE n # k
        <5>1. n \in 1 .. (k - 1)
          BY <3>1, <4>2
        <5> QED
          BY <3>1, <3>2, <5>1
      <4> QED
        BY <4>1, <4>2
    <3>6. upTo(g, k)
      BY <3>4, <3>5
    <3> QED
      BY <2>1, <3>6
  <2> QED
    BY <2>2, <2>3
<1>2. \E g : upTo(g, N)
  <2> HIDE DEF upTo
  <2> QED
    BY <1>1
<1> QED
  BY <1>2, Zenon DEF Recursion

(* The powers of two.                                                      *)
LEMMA PowerDef ==
  /\ Power \in [0 .. DataBits -> Nat]
  /\ Power[0] = 1 /\ \A n \in 1 .. DataBits : Power[n] = 2 * Power[n - 1]
<1> DEFINE rule(f) == f = [n \in 0 .. DataBits |-> IF n = 0 THEN 1 ELSE 2 * f[n - 1]]
           step == [n \in 1 .. DataBits |-> [x \in Nat |-> 2 * x]]
<1>1. DataBits \in Nat \ {0} /\ step \in [1 .. DataBits -> [Nat -> Nat]]
  BY MemAssumption
<1>2. PICK g : Recursion(g, DataBits, Nat, 1, step)
  <2>1. DataBits \in Nat
    BY <1>1
  <2>2. 1 \in Nat
    OBVIOUS
  <2>3. step \in [1 .. DataBits -> [Nat -> Nat]]
    BY <1>1
  <2> HIDE DEF step
  <2> QED
    BY <2>1, <2>2, <2>3, RecursionOverRange, Zenon
<1>3. ASSUME NEW n \in 1 .. DataBits
      PROVE  g[n] = 2 * g[n - 1]
  <2>0. n - 1 \in 0 .. DataBits
    BY <1>1
  <2>1. g[n - 1] \in Nat /\ g[n] = step[n][g[n - 1]]
    BY <1>2, <2>0, Zenon DEF Recursion
  <2>2. step[n] = [x \in Nat |-> 2 * x]
    OBVIOUS
  <2> QED
    BY <2>1, <2>2
<1> HIDE DEF step
<1>4. \A n \in 0 .. DataBits : g[n] = IF n = 0 THEN 1 ELSE 2 * g[n - 1]
  BY <1>1, <1>2, <1>3 DEF Recursion
<1>5. rule(g)
  BY <1>2, <1>4 DEF Recursion
<1>6. rule(Power)
  BY <1>5, Zenon DEF Power
<1>7. Power[0] = 1 /\ \A n \in 1 .. DataBits : Power[n] = 2 * Power[n - 1]
  <2>1. \A n \in 0 .. DataBits : Power[n] = IF n = 0 THEN 1 ELSE 2 * Power[n - 1]
    BY <1>6
  <2>2. 0 \in 0 .. DataBits /\ \A n \in 1 .. DataBits : n \in 0 .. DataBits /\ n # 0
    BY <1>1
  <2> QED
    BY <2>1, <2>2
<1> DEFINE bad == {n \in 0 .. DataBits : Power[n] \notin Nat}
<1>8. bad = {}
  <2> SUFFICES ASSUME bad # {} PROVE FALSE
    OBVIOUS
  <2>0. bad \subseteq Nat
    BY <1>1
  <2>1. PICK k \in bad : \A m \in bad : k <= m
    BY <2>0, LeastNumber
  <2>2. k # 0
    BY <1>7, <2>1
  <2>3. k \in 1 .. DataBits /\ k - 1 \in 0 .. DataBits /\ k - 1 \notin bad
    BY <1>1, <2>1, <2>2
  <2>4. Power[k - 1] \in Nat /\ Power[k] = 2 * Power[k - 1]
    BY <1>7, <2>3
  <2> QED
    BY <2>1, <2>4
<1>9. \A n \in 0 .. DataBits : Power[n] \in Nat
  BY <1>8
<1>10. Power \in [0 .. DataBits -> Nat]
  BY <1>6, <1>9
<1> QED
  BY <1>7, <1>10

(* A power is a multiple of twice each smaller one.                        *)
LEMMA PowerMultiple ==
  ASSUME NEW b \in 0 .. DataBits, NEW n \in 0 .. DataBits, b < n
  PROVE  \E k \in Nat \ {0} : Power[n] = 2 * (k * Power[b])
<1> DEFINE bad == {m \in 0 .. DataBits : b < m /\ ~ \E k \in Nat \ {0} : Power[m] = 2 * (k * Power[b])}
<1>1. bad = {}
  <2> SUFFICES ASSUME bad # {} PROVE FALSE
    OBVIOUS
  <2>0. bad \subseteq Nat
    BY MemAssumption
  <2>1. PICK m \in bad : \A j \in bad : m <= j
    BY <2>0, LeastNumber
  <2>2. m \in 1 .. DataBits /\ Power[m] = 2 * Power[m - 1] /\ m - 1 \in 0 .. DataBits
        /\ Power[b] \in Nat
    BY <2>1, PowerDef, MemAssumption
  <2>3. CASE m = b + 1
    <3>1. Power[m] = 2 * (1 * Power[b])
      BY <2>2, <2>3
    <3> QED
      BY <2>1, <3>1
  <2>4. CASE m # b + 1
    <3>1. b < m - 1 /\ m - 1 \notin bad
      BY <2>1, <2>2, <2>4
    <3>2. PICK k \in Nat \ {0} : Power[m - 1] = 2 * (k * Power[b])
      BY <2>2, <3>1
    <3>3. k * Power[b] \in Nat /\ (2 * k) * Power[b] = 2 * (k * Power[b]) /\ 2 * k \in Nat \ {0}
      BY <2>2, <3>2
    <3>4. Power[m] = 2 * ((2 * k) * Power[b])
      BY <2>2, <3>2, <3>3
    <3> QED
      BY <2>1, <3>3, <3>4
  <2> QED
    BY <2>3, <2>4
<1> QED
  BY <1>1

(* No power is zero.                                                       *)
LEMMA PowerPositive ==
  ASSUME NEW n \in 0 .. DataBits
  PROVE  Power[n] \in Nat \ {0}
<1> DEFINE bad == {m \in 0 .. DataBits : Power[m] = 0}
<1>1. bad = {}
  <2> SUFFICES ASSUME bad # {} PROVE FALSE
    OBVIOUS
  <2>0. bad \subseteq Nat
    BY MemAssumption
  <2>1. PICK m \in bad : \A j \in bad : m <= j
    BY <2>0, LeastNumber
  <2>2. m \in 1 .. DataBits /\ m - 1 \in 0 .. DataBits /\ m - 1 \notin bad
    BY <2>1, PowerDef, MemAssumption
  <2>3. Power[m - 1] \in Nat /\ Power[m] = 2 * Power[m - 1]
    BY <2>2, PowerDef
  <2> QED
    BY <2>1, <2>2, <2>3
<1> QED
  BY <1>1, PowerDef

(* A power is more than each smaller one.                                  *)
LEMMA PowerGrows ==
  ASSUME NEW b \in 0 .. DataBits, NEW n \in 0 .. DataBits, b < n
  PROVE  Power[b] < Power[n]
<1>1. PICK k \in Nat \ {0} : Power[n] = 2 * (k * Power[b])
  BY PowerMultiple
<1>2. Power[b] \in Nat \ {0}
  BY PowerPositive
<1>3. \A p \in Nat \ {0} : k * p \in Nat /\ k * p >= p
  BY <1>1
<1> QED
  BY <1>1, <1>2, <1>3

(* The bits of the numbers that the marching test meets.                   *)
LEMMA Quotient ==
  ASSUME NEW p \in Nat \ {0}, NEW q \in Nat, NEW r \in 0 .. (p - 1)
  PROVE  (q * p + r) \div p = q
OBVIOUS

(* A bit is 0 or 1, and a number with the bit set is as large as the bit.  *)
LEMMA BitIsBit ==
  ASSUME NEW n \in Nat, NEW b \in Bits
  PROVE  BitOf(n, b) \in {0, 1} /\ Power[b] \in Nat \ {0} /\ (BitOf(n, b) = 1 => n >= Power[b])
<1>1. b \in 0 .. DataBits
  BY MemAssumption DEF Bits
<1>2. Power[b] \in Nat \ {0}
  BY <1>1, PowerPositive
<1>3. \A p \in Nat \ {0} : (n \div p) \in Nat /\ (n < p => n \div p = 0)
  OBVIOUS
<1>4. \A q \in Nat : q % 2 \in {0, 1} /\ (q = 0 => q % 2 = 0)
  OBVIOUS
<1> QED
  BY <1>2, <1>3, <1>4 DEF BitOf

(* The bits of 0, of a power at its own place, and of the word of ones.    *)
LEMMA BitsKnown ==
  ASSUME NEW b \in Bits
  PROVE  BitOf(0, b) = 0 /\ BitOf(Power[b], b) = 1 /\ BitOf(AllOnes, b) = 1 /\ AllOnes \in Nat
<1>1. b \in 0 .. DataBits /\ DataBits \in 0 .. DataBits /\ b < DataBits
  BY MemAssumption DEF Bits
<1>2. Power[b] \in Nat \ {0} /\ Power[DataBits] \in Nat \ {0}
  BY <1>1, PowerPositive
<1> DEFINE p == Power[b]
<1>3. PICK k \in Nat \ {0} : Power[DataBits] = 2 * (k * p)
  BY <1>1, PowerMultiple
<1> HIDE DEF p
<1>4. p \in Nat \ {0} /\ p = Power[b]
  BY <1>2 DEF p
<1>5. /\ 2 * k - 1 \in Nat /\ p - 1 \in 0 .. (p - 1)
      /\ 2 * (k * p) - 1 = (2 * k - 1) * p + (p - 1)
  BY <1>3, <1>4
<1>6. AllOnes = (2 * k - 1) * p + (p - 1)
  BY <1>3, <1>5 DEF AllOnes, WordValues
<1>7. AllOnes \div p = 2 * k - 1
  BY <1>4, <1>5, <1>6, Quotient
<1>8. (2 * k - 1) % 2 = 1
  BY <1>3
<1>9. 0 \div p = 0 /\ p \div p = 1
  <2>1. (0 * p + 0) \div p = 0 /\ (1 * p + 0) \div p = 1 /\ 0 * p + 0 = 0 /\ 1 * p + 0 = p
    BY <1>4, Quotient
  <2> QED
    BY <2>1
<1>10. AllOnes \in Nat
  BY <1>2 DEF AllOnes, WordValues
<1> QED
  BY <1>4, <1>7, <1>8, <1>9, <1>10 DEF BitOf

(* A power of two has no lower bit set.                                    *)
LEMMA LowerBit ==
  ASSUME NEW a \in Bits, NEW b \in Bits, a < b
  PROVE  BitOf(Power[a], b) = 0
<1>1. a \in 0 .. DataBits /\ b \in 0 .. DataBits
  BY MemAssumption DEF Bits
<1>2. Power[a] \in Nat /\ Power[b] \in Nat \ {0} /\ Power[a] < Power[b]
  BY <1>1, PowerPositive, PowerGrows
<1>3. \A p \in Nat \ {0} : \A n \in Nat : n < p => n \div p = 0
  OBVIOUS
<1>4. Power[a] \div Power[b] = 0
  BY <1>2, <1>3
<1> QED
  BY <1>4 DEF BitOf

(* An address line is a bit of a word, and its power an address.           *)
LEMMA LinesAreBits ==
  ASSUME NEW b \in AddressLines
  PROVE  b \in Bits /\ Power[b] \in Addresses \ {0} /\ 0 \in Addresses
<1>1. /\ b \in 0 .. DataBits /\ AddressBits \in 0 .. DataBits /\ b < AddressBits /\ b \in Bits
  BY MemAssumption DEF Bits, AddressLines
<1>2. Power[b] \in Nat \ {0} /\ Power[AddressBits] \in Nat /\ Power[b] < Power[AddressBits]
  BY <1>1, PowerPositive, PowerGrows
<1> QED
  BY <1>1, <1>2 DEF Addresses, MemWords

-----------------------------------------------------------------------------
(* The tests, and what an element does at a word.                          *)
TestNames == {"zeros", "ones", "odd", "even", "walking_ones", "walking_zeros", "address_lines",
              "data_lines", "random", "marching"}
FillTests == {"zeros", "ones", "odd", "even", "walking_ones", "walking_zeros", "address_lines"}

MemWord == 0 .. AllOnes
Operation == [op: {"write", "check"}, data: {"value", "address", "random"}, value: MemWord]
Machine == [cells: [Addresses -> MemWord], errors: Nat, draws: Nat]
Now == [cells |-> memory, errors |-> errors, draws |-> draws]

(* Every address fits a word: memtest_address writes it as data.           *)
LEMMA WordsAndAddresses ==
  /\ AllOnes \in Nat /\ AllOnes > 0 /\ WordValues = AllOnes + 1 /\ 0 \in MemWord /\ AllOnes \in MemWord
  /\ MemWords \in Nat \ {0} /\ Addresses \subseteq MemWord /\ 0 \in Addresses
<1>1. AddressBits \in 0 .. DataBits /\ DataBits \in 0 .. DataBits
      /\ AddressBits # 0 /\ DataBits # 0 /\ 0 \in 0 .. DataBits
  BY MemAssumption
<1>2. Power[AddressBits] \in Nat \ {0} /\ Power[DataBits] \in Nat \ {0} /\ Power[0] = 1
  BY <1>1, PowerPositive, PowerDef
<1>3. Power[0] < Power[DataBits]
  BY <1>1, PowerGrows, MemAssumption
<1>4. Power[AddressBits] <= Power[DataBits]
  <2>1. CASE AddressBits = DataBits
    BY <1>2, <2>1
  <2>2. CASE AddressBits < DataBits
    BY <1>1, <1>2, <2>2, PowerGrows
  <2> QED
    BY <2>1, <2>2, MemAssumption
<1> QED
  BY <1>2, <1>3, <1>4 DEF AllOnes, WordValues, MemWord, MemWords, Addresses

(* An operation keeps words, errors and draws what they are.               *)
LEMMA OperateTyped ==
  ASSUME NEW now \in Machine, NEW op \in Operation, NEW a \in Addresses
  PROVE  Operate(now, op, a) \in Machine
<1> DEFINE datum == CASE op.data = "value" -> op.value
                      [] op.data = "address" -> a
                      [] op.data = "random" -> now.draws % WordValues
           drawn == IF op.data = "random" THEN now.draws + 1 ELSE now.draws
           miss == IF Load(now.cells, a) = datum THEN 0 ELSE 1
<1>1. now.cells \in [Addresses -> MemWord] /\ now.errors \in Nat /\ now.draws \in Nat
  BY DEF Machine
<1>2. op.data \in {"value", "address", "random"} /\ op.value \in MemWord
  BY DEF Operation
<1>3. datum \in MemWord
  <2>1. now.draws % WordValues \in MemWord
    BY <1>1, WordsAndAddresses DEF MemWord
  <2>2. a \in MemWord
    BY WordsAndAddresses
  <2> QED
    BY <1>2, <2>1, <2>2
<1>4. drawn \in Nat /\ miss \in Nat
  BY <1>1
<1>5. Operate(now, op, a) =
        IF op.op = "write" THEN [now EXCEPT !.cells[Cell(a)] = datum, !.draws = drawn]
        ELSE [now EXCEPT !.errors = @ + miss, !.draws = drawn]
  BY DEF Operate
<1> HIDE DEF datum, drawn, miss
<1>6. [now.cells EXCEPT ![Cell(a)] = datum] \in [Addresses -> MemWord]
  BY <1>1, <1>3
<1>7. [now EXCEPT !.cells[Cell(a)] = datum, !.draws = drawn] \in Machine
  BY <1>1, <1>4, <1>6 DEF Machine
<1>8. [now EXCEPT !.errors = @ + miss, !.draws = drawn] \in Machine
  <2>1. now.errors + miss \in Nat
    BY <1>1, <1>4
  <2> QED
    BY <1>1, <1>4, <2>1 DEF Machine
<1> QED
  BY <1>5, <1>7, <1>8

(* The operations of an element are done one after the other.              *)
LEMMA OperatedInTurn ==
  ASSUME NEW ops \in Seq(Operation), NEW a \in Addresses, Now \in Machine
  PROVE  \E g \in [0 .. Len(ops) -> Machine] :
           /\ g[0] = Now /\ Operated(ops, a) = g[Len(ops)]
           /\ \A n \in 1 .. Len(ops) : g[n] = Operate(g[n - 1], ops[n], a)
<1> DEFINE rule(f) == f = [n \in 0 .. Len(ops) |-> IF n = 0 THEN Now ELSE Operate(f[n - 1], ops[n], a)]
           step == [n \in 1 .. Len(ops) |-> [m \in Machine |-> Operate(m, ops[n], a)]]
<1>1. Len(ops) \in Nat /\ \A n \in 1 .. Len(ops) : ops[n] \in Operation
  BY ElementOfSeq, LenProperties
<1>2. step \in [1 .. Len(ops) -> [Machine -> Machine]]
  BY <1>1, OperateTyped
<1>3. PICK g : Recursion(g, Len(ops), Machine, Now, step)
  <2> HIDE DEF step
  <2> QED
    BY <1>1, <1>2, RecursionOverRange, Zenon
<1>4. ASSUME NEW n \in 1 .. Len(ops)
      PROVE  g[n] = Operate(g[n - 1], ops[n], a)
  <2>1. n - 1 \in 0 .. Len(ops)
    BY <1>1
  <2>2. g[n - 1] \in Machine /\ g[n] = step[n][g[n - 1]]
    BY <1>3, <2>1, Zenon DEF Recursion
  <2>3. step[n] = [m \in Machine |-> Operate(m, ops[n], a)]
    OBVIOUS
  <2> QED
    BY <2>2, <2>3
<1> HIDE DEF step
<1>5. \A n \in 0 .. Len(ops) : g[n] = IF n = 0 THEN Now ELSE Operate(g[n - 1], ops[n], a)
  BY <1>1, <1>3, <1>4 DEF Recursion
<1>6. rule(g)
  BY <1>3, <1>5 DEF Recursion
<1> DEFINE f == CHOOSE h : rule(h)
<1>7. rule(f)
  BY <1>6, Zenon
<1>8. Operated(ops, a) = f[Len(ops)]
  BY Zenon DEF Operated, Now
<1> HIDE DEF f
<1>9. f[0] = Now /\ \A n \in 1 .. Len(ops) : f[n] = Operate(f[n - 1], ops[n], a)
  <2>1. \A n \in 0 .. Len(ops) : f[n] = IF n = 0 THEN Now ELSE Operate(f[n - 1], ops[n], a)
    BY <1>7
  <2>2. 0 \in 0 .. Len(ops) /\ \A n \in 1 .. Len(ops) : n \in 0 .. Len(ops) /\ n # 0
    BY <1>1
  <2> QED
    BY <2>1, <2>2
<1> DEFINE bad == {n \in 0 .. Len(ops) : f[n] \notin Machine}
<1>10. bad = {}
  <2> SUFFICES ASSUME bad # {} PROVE FALSE
    OBVIOUS
  <2>0. bad \subseteq Nat
    BY <1>1
  <2>1. PICK k \in bad : \A m \in bad : k <= m
    BY <2>0, LeastNumber
  <2>2. k # 0
    BY <1>9, <2>1
  <2>3. k \in 1 .. Len(ops) /\ k - 1 \in 0 .. Len(ops) /\ ~(k <= k - 1)
    BY <1>1, <2>1, <2>2
  <2>4. f[k - 1] \in Machine
    BY <2>1, <2>3
  <2>5. f[k] \in Machine
    BY <1>1, <1>9, <2>3, <2>4, OperateTyped
  <2> QED
    BY <2>1, <2>5
<1>11. f \in [0 .. Len(ops) -> Machine]
  <2>1. \A n \in 0 .. Len(ops) : f[n] \in Machine
    BY <1>10
  <2> QED
    BY <1>7, <2>1
<1> QED
  BY <1>8, <1>9, <1>11

(* The visits of the elements.                                             *)
LEMMA Visits ==
  /\ Upward \in Seq(Addresses) /\ Len(Upward) = MemWords
  /\ \A i \in 1 .. MemWords : Upward[i] = i - 1
  /\ Downward \in Seq(Addresses) /\ Len(Downward) = MemWords
  /\ \A i \in 1 .. MemWords : Downward[i] = MemWords - i
  /\ PowersOfTwo \in Seq(Addresses) /\ Len(PowersOfTwo) = AddressBits
  /\ <<0>> \in Seq(Addresses) /\ Len(<<0>>) = 1
<1>1. MemWords \in Nat \ {0} /\ AddressBits \in Nat \ {0} /\ 0 \in Addresses
  BY WordsAndAddresses, MemAssumption
<1>2. \A i \in 1 .. MemWords : i - 1 \in Addresses /\ MemWords - i \in Addresses
  BY <1>1 DEF Addresses
<1>3. Upward \in Seq(Addresses) /\ Len(Upward) = MemWords /\ \A i \in 1 .. MemWords : Upward[i] = i - 1
  BY <1>1, <1>2 DEF Upward
<1>4. /\ Downward \in Seq(Addresses) /\ Len(Downward) = MemWords
      /\ \A i \in 1 .. MemWords : Downward[i] = MemWords - i
  BY <1>1, <1>2 DEF Downward
<1>5. PowersOfTwo \in Seq(Addresses) /\ Len(PowersOfTwo) = AddressBits
  <2>1. \A i \in 1 .. AddressBits : i - 1 \in AddressLines
    BY <1>1 DEF AddressLines
  <2>2. \A i \in 1 .. AddressBits : Power[i - 1] \in Addresses
    BY <2>1, LinesAreBits
  <2> QED
    BY <1>1, <2>2 DEF PowersOfTwo
<1>6. <<0>> \in Seq(Addresses) /\ Len(<<0>>) = 1
  BY <1>1
<1> QED
  BY <1>3, <1>4, <1>5, <1>6

(* An element, and two of which the second checks what the first wrote.    *)
Visiting == Seq(Addresses) \ {<<>>}
Doing == Seq(Operation)
Element == [visits: Visiting, ops: Doing]
WriteOp == {op \in Operation : op.op = "write" /\ op.data # "random"}
Fill(w, c) ==
  /\ w \in Element /\ c \in Element /\ c.visits = w.visits
  /\ \E op \in WriteOp : w.ops = <<op>> /\ c.ops = <<[op EXCEPT !.op = "check"]>>

(* A write of all visited words and the check of it are such a pair.       *)
LEMMA FillTyped ==
  ASSUME NEW visits \in Visiting, NEW op \in WriteOp
  PROVE  /\ Fill([visits |-> visits, ops |-> <<op>>],
                 [visits |-> visits, ops |-> <<[op EXCEPT !.op = "check"]>>])
<1> DEFINE w == [visits |-> visits, ops |-> <<op>>]
           c == [visits |-> visits, ops |-> <<[op EXCEPT !.op = "check"]>>]
<1>1. op \in Operation /\ [op EXCEPT !.op = "check"] \in Operation
  BY DEF WriteOp, Operation
<1>2. <<op>> \in Doing /\ <<[op EXCEPT !.op = "check"]>> \in Doing
  BY <1>1 DEF Doing
<1>3. w \in Element /\ c \in Element
  BY <1>2 DEF Element
<1>4. c.visits = w.visits /\ w.ops = <<op>> /\ c.ops = <<[op EXCEPT !.op = "check"]>>
  OBVIOUS
<1> HIDE DEF w, c
<1>5. Fill(w, c)
  BY <1>3, <1>4 DEF Fill
<1> QED
  BY <1>5 DEF w, c

(* memtest_pattern writes one value everywhere and checks it.              *)
LEMMA PatternFill ==
  ASSUME NEW v \in MemWord
  PROVE  /\ Len(memtest_pattern(v)) = 2
         /\ Fill(memtest_pattern(v)[1], memtest_pattern(v)[2])
<1>1. Upward \in Visiting
  BY Visits, WordsAndAddresses, EmptySeq DEF Visiting
<1>2. Write(v) \in WriteOp /\ [Write(v) EXCEPT !.op = "check"] = Check(v)
  BY DEF Write, Check, WriteOp, Operation
<1>3. Fill(Up(<<Write(v)>>), Up(<<Check(v)>>))
  BY <1>1, <1>2, FillTyped DEF Up
<1> DEFINE w == Up(<<Write(v)>>)
           c == Up(<<Check(v)>>)
<1>4. memtest_pattern(v) = <<w, c>> /\ Fill(w, c)
  BY <1>3 DEF memtest_pattern
<1> HIDE DEF w, c
<1> QED
  BY <1>4

(* A test of this kind: every odd element fills words that the next checks. *)
Filling(elements) ==
  /\ Len(elements) \in Nat
  /\ \A e \in 1 .. Len(elements) :
       /\ e % 2 = 1 => e + 1 \in 1 .. Len(elements) /\ Fill(elements[e], elements[e + 1])
       /\ e % 2 = 0 => e - 1 \in 1 .. Len(elements) /\ Fill(elements[e - 1], elements[e])

(* A test of one pair is of this kind.                                     *)
LEMMA OnePairFills ==
  ASSUME NEW elements, Len(elements) = 2, Fill(elements[1], elements[2])
  PROVE  Filling(elements)
<1>1. \A e \in 1 .. 2 : (e = 1 \/ e = 2) /\ 1 % 2 = 1 /\ 2 % 2 = 0 /\ 1 + 1 = 2 /\ 2 - 1 = 1
  OBVIOUS
<1> QED
  BY <1>1 DEF Filling

(* So is one that repeats it for each bit: the walking tests.              *)
LEMMA BitPatternsFill ==
  ASSUME NEW patterns \in [Bits -> MemWord]
  PROVE  Filling(ForEachBit(patterns))
<1> DEFINE E == ForEachBit(patterns)
<1>1. DataBits \in Nat \ {0} /\ 2 * DataBits \in Nat
  BY MemAssumption
<1>2. \A i \in 1 .. 2 * DataBits : E[i] = memtest_pattern(patterns[(i - 1) \div 2])[1 + ((i - 1) % 2)]
  BY DEF ForEachBit
<1>3. Len(E) = 2 * DataBits
  BY <1>1 DEF ForEachBit
<1> HIDE DEF E
<1>4. ASSUME NEW e \in 1 .. 2 * DataBits, e % 2 = 1
      PROVE  e + 1 \in 1 .. 2 * DataBits /\ Fill(E[e], E[e + 1])
  <2>1. /\ (e - 1) \div 2 \in Bits /\ (e - 1) % 2 = 0 /\ e + 1 \in 1 .. 2 * DataBits
        /\ ((e + 1) - 1) \div 2 = (e - 1) \div 2 /\ ((e + 1) - 1) % 2 = 1
    BY <1>1, <1>4 DEF Bits
  <2>2. E[e] = memtest_pattern(patterns[(e - 1) \div 2])[1]
        /\ E[e + 1] = memtest_pattern(patterns[(e - 1) \div 2])[2]
    BY <1>2, <2>1
  <2>3. patterns[(e - 1) \div 2] \in MemWord
    BY <2>1
  <2> QED
    BY <2>1, <2>2, <2>3, PatternFill
<1>5. ASSUME NEW e \in 1 .. 2 * DataBits, e % 2 = 0
      PROVE  e - 1 \in 1 .. 2 * DataBits /\ (e - 1) % 2 = 1 /\ (e - 1) + 1 = e
  BY <1>1, <1>5
<1>6. ASSUME NEW e \in 1 .. 2 * DataBits, e % 2 = 0
      PROVE  e - 1 \in 1 .. 2 * DataBits /\ Fill(E[e - 1], E[e])
  BY <1>4, <1>5, <1>6
<1>7. Filling(E)
  BY <1>1, <1>3, <1>4, <1>6 DEF Filling
<1> QED
  BY <1>7 DEF E

(* The alternating patterns fit a word.                                    *)
LEMMA StripesAreWords ==
  ASSUME NEW low \in {0, 1}
  PROVE  Stripes(low) \in MemWord
<1> DEFINE add(n) == ((n - 1 + low) % 2) * Power[n - 1]
           rule(f) == f = [n \in 0 .. DataBits |-> IF n = 0 THEN 0 ELSE f[n - 1] + add(n)]
           step == [n \in 1 .. DataBits |-> [x \in Nat |-> x + add(n)]]
<1>1. DataBits \in Nat \ {0}
  BY MemAssumption
<1>2. ASSUME NEW n \in 1 .. DataBits
      PROVE  /\ n - 1 \in 0 .. DataBits /\ Power[n - 1] \in Nat /\ Power[n] = 2 * Power[n - 1]
             /\ add(n) \in Nat /\ add(n) <= Power[n - 1]
  <2>1. n - 1 \in 0 .. DataBits /\ n - 1 + low \in Nat
    BY <1>1
  <2>2. Power[n - 1] \in Nat /\ Power[n] = 2 * Power[n - 1]
    BY <2>1, PowerDef
  <2>3. (n - 1 + low) % 2 \in {0, 1}
    BY <2>1
  <2> QED
    BY <2>1, <2>2, <2>3
<1> HIDE DEF add
<1>3. step \in [1 .. DataBits -> [Nat -> Nat]]
  BY <1>2
<1>4. PICK g : Recursion(g, DataBits, Nat, 0, step)
  <2>1. DataBits \in Nat
    BY <1>1
  <2>2. 0 \in Nat
    OBVIOUS
  <2> HIDE DEF step
  <2> QED
    BY <1>3, <2>1, <2>2, RecursionOverRange, Zenon
<1>5. ASSUME NEW n \in 1 .. DataBits
      PROVE  g[n] = g[n - 1] + add(n)
  <2>1. g[n - 1] \in Nat /\ g[n] = step[n][g[n - 1]]
    BY <1>2, <1>4, Zenon DEF Recursion
  <2>2. step[n] = [x \in Nat |-> x + add(n)]
    OBVIOUS
  <2> QED
    BY <2>1, <2>2
<1> HIDE DEF step
<1>6. \A n \in 0 .. DataBits : g[n] = IF n = 0 THEN 0 ELSE g[n - 1] + add(n)
  BY <1>1, <1>4, <1>5 DEF Recursion
<1>7. rule(g)
  BY <1>4, <1>6 DEF Recursion
<1> DEFINE f == CHOOSE h : rule(h)
<1>8. rule(f)
  BY <1>7, Zenon
<1>9. Stripes(low) = f[DataBits]
  BY Zenon DEF Stripes, add
<1> HIDE DEF f
<1>10. \A n \in 0 .. DataBits : f[n] = IF n = 0 THEN 0 ELSE f[n - 1] + add(n)
  BY <1>8
<1> DEFINE bad == {n \in 0 .. DataBits : ~(f[n] \in Nat /\ f[n] < Power[n])}
<1>11. bad = {}
  <2> SUFFICES ASSUME bad # {} PROVE FALSE
    OBVIOUS
  <2>0. bad \subseteq Nat
    BY <1>1
  <2>1. PICK k \in bad : \A m \in bad : k <= m
    BY <2>0, LeastNumber
  <2>2. CASE k = 0
    BY <1>10, <2>1, <2>2, PowerDef
  <2>3. CASE k # 0
    <3>1. k \in 1 .. DataBits /\ k - 1 \in 0 .. DataBits /\ ~(k <= k - 1)
      BY <1>1, <2>1, <2>3
    <3>2. f[k - 1] \in Nat /\ f[k - 1] < Power[k - 1]
      BY <2>1, <3>1
    <3>3. f[k] = f[k - 1] + add(k)
      BY <1>10, <2>1, <2>3
    <3>4. f[k] \in Nat /\ f[k] < Power[k]
      BY <1>2, <3>1, <3>2, <3>3
    <3> QED
      BY <2>1, <3>4
  <2> QED
    BY <2>2, <2>3
<1>12. f[DataBits] \in Nat /\ f[DataBits] < Power[DataBits]
  BY <1>1, <1>11
<1>13. Power[DataBits] \in Nat
  BY <1>1, PowerDef
<1> QED
  BY <1>9, <1>12, <1>13 DEF MemWord, AllOnes, WordValues

(* All tests but three are of this kind.                                   *)
LEMMA FillElements ==
  ASSUME NEW test \in FillTests
  PROVE  Filling(Elements(test))
<1>1. \A v \in MemWord : Filling(memtest_pattern(v))
  BY PatternFill, OnePairFills
<1>2. 0 \in MemWord /\ AllOnes \in MemWord /\ Stripes(0) \in MemWord /\ Stripes(1) \in MemWord
  BY WordsAndAddresses, StripesAreWords
<1>3. ASSUME NEW bit \in Bits
      PROVE  Power[bit] \in MemWord /\ AllOnes - Power[bit] \in MemWord
  <2>1. bit \in 0 .. DataBits /\ DataBits \in 0 .. DataBits /\ bit < DataBits
    BY MemAssumption DEF Bits
  <2>2. Power[bit] \in Nat /\ Power[DataBits] \in Nat /\ Power[bit] < Power[DataBits]
    BY <2>1, PowerDef, PowerGrows
  <2> QED
    BY <2>2 DEF MemWord, AllOnes, WordValues
<1>4. CASE test \in {"zeros", "ones", "odd", "even"}
  BY <1>1, <1>2, <1>4 DEF Elements
<1>5. CASE test = "walking_ones"
  <2>1. [bit \in Bits |-> Power[bit]] \in [Bits -> MemWord]
    BY <1>3
  <2>2. Filling(memtest_walking_ones)
    BY <2>1, BitPatternsFill DEF memtest_walking_ones
  <2> QED
    BY <1>5, <2>2 DEF Elements
<1>6. CASE test = "walking_zeros"
  <2>1. [bit \in Bits |-> AllOnes - Power[bit]] \in [Bits -> MemWord]
    BY <1>3
  <2>2. Filling(memtest_walking_zeros)
    BY <2>1, BitPatternsFill DEF memtest_walking_zeros
  <2> QED
    BY <1>6, <2>2 DEF Elements
<1>7. CASE test = "address_lines"
  <2>1. PowersOfTwo \in Visiting
    BY Visits, MemAssumption, EmptySeq DEF Visiting
  <2>2. /\ WriteOf("address") \in WriteOp
        /\ [WriteOf("address") EXCEPT !.op = "check"] = CheckOf("address")
    BY WordsAndAddresses DEF WriteOf, CheckOf, WriteOp, Operation
  <2> DEFINE w == [visits |-> PowersOfTwo, ops |-> <<WriteOf("address")>>]
             c == [visits |-> PowersOfTwo, ops |-> <<CheckOf("address")>>]
  <2>3. Fill(w, c) /\ memtest_address_lines = <<w, c>>
    BY <2>1, <2>2, FillTyped DEF memtest_address_lines
  <2> HIDE DEF w, c
  <2>4. Filling(memtest_address_lines)
    BY <2>3, OnePairFills
  <2> QED
    BY <1>7, <2>4 DEF Elements
<1> QED
  BY <1>4, <1>5, <1>6, <1>7 DEF FillTests

(* Writing or checking a word is an operation.                             *)
LEMMA ValueOps ==
  ASSUME NEW v \in MemWord
  PROVE  Write(v) \in Operation /\ Check(v) \in Operation
BY DEF Write, Check, Operation

(* memtest_data_bus writes and checks one word per line at one address.    *)
LEMMA DataLineElements ==
  ASSUME NEW e \in 1 .. DataBits
  PROVE  /\ Len(Elements("data_lines")) = DataBits
         /\ \E v \in MemWord : Elements("data_lines")[e] = [visits |-> <<0>>, ops |-> <<Write(v), Check(v)>>]
         /\ Elements("data_lines")[e] \in Element
<1>1. DataBits \in Nat \ {0} /\ Elements("data_lines") = memtest_data_lines
  BY MemAssumption DEF Elements
<1>2. Len(memtest_data_lines) = DataBits
  <2> DEFINE line(i) == [visits |-> <<0>>, ops |-> <<Write(Power[i - 1]), Check(Power[i - 1])>>]
  <2>1. memtest_data_lines = [i \in 1 .. DataBits |-> line(i)]
    BY DEF memtest_data_lines
  <2>2. DataBits \in Nat
    BY MemAssumption
  <2> HIDE DEF line
  <2> QED
    BY <2>1, <2>2
<1> DEFINE v == Power[e - 1]
<1>3. v \in MemWord
  <2>1. e - 1 \in 0 .. DataBits /\ DataBits \in 0 .. DataBits /\ e - 1 < DataBits
    BY MemAssumption
  <2> QED
    BY <2>1, PowerDef, PowerGrows DEF MemWord, AllOnes, WordValues
<1>4. memtest_data_lines[e] = [visits |-> <<0>>, ops |-> <<Write(v), Check(v)>>]
  BY DEF memtest_data_lines
<1> HIDE DEF v
<1>5. <<Write(v), Check(v)>> \in Doing
  BY <1>3, ValueOps DEF Doing
<1>6. <<0>> \in Visiting
  BY Visits, EmptySeq DEF Visiting
<1>7. [visits |-> <<0>>, ops |-> <<Write(v), Check(v)>>] \in Element
  BY <1>5, <1>6 DEF Element
<1> QED
  BY <1>1, <1>2, <1>3, <1>4, <1>7

(* memtest_marching: clear upward, set upward, clear downward.             *)
LEMMA MarchingElements ==
  /\ Len(Elements("marching")) = 3
  /\ Elements("marching")[1] = [visits |-> Upward, ops |-> <<Write(0)>>]
  /\ Elements("marching")[2] = [visits |-> Upward, ops |-> <<Check(0), Write(AllOnes), Check(AllOnes)>>]
  /\ Elements("marching")[3] = [visits |-> Downward, ops |-> <<Check(AllOnes), Write(0), Check(0)>>]
  /\ \A e \in 1 .. 3 : Elements("marching")[e] \in Element
<1>1. Elements("marching") = memtest_marching
  BY DEF Elements
<1> DEFINE x == [visits |-> Upward, ops |-> <<Write(0)>>]
           y == [visits |-> Upward, ops |-> <<Check(0), Write(AllOnes), Check(AllOnes)>>]
           z == [visits |-> Downward, ops |-> <<Check(AllOnes), Write(0), Check(0)>>]
<1>2. memtest_marching = <<x, y, z>>
  BY DEF memtest_marching, Up
<1>3. Upward \in Visiting /\ Downward \in Visiting
  BY Visits, WordsAndAddresses, EmptySeq DEF Visiting
<1>4. /\ Write(0) \in Operation /\ Check(0) \in Operation
      /\ Write(AllOnes) \in Operation /\ Check(AllOnes) \in Operation
  BY WordsAndAddresses, ValueOps
<1>5. /\ <<Write(0)>> \in Doing /\ <<Check(0), Write(AllOnes), Check(AllOnes)>> \in Doing
      /\ <<Check(AllOnes), Write(0), Check(0)>> \in Doing
  BY <1>4 DEF Doing
<1>6. x \in Element /\ y \in Element /\ z \in Element
  BY <1>3, <1>5 DEF Element
<1> HIDE DEF x, y, z
<1>7. Len(<<x, y, z>>) = 3 /\ <<x, y, z>>[1] = x /\ <<x, y, z>>[2] = y /\ <<x, y, z>>[3] = z
  OBVIOUS
<1>8. \A e \in 1 .. 3 : e = 1 \/ e = 2 \/ e = 3
  OBVIOUS
<1> QED
  BY <1>1, <1>2, <1>6, <1>7, <1>8 DEF x, y, z

(* The elements of memtest_random are elements.                            *)
LEMMA RandomElements ==
  ASSUME NEW e \in 1 .. 2 * Iterations
  PROVE  Elements("random")[e] \in Element
<1>1. Elements("random") = memtest_random
  BY DEF Elements
<1>2. /\ <<WriteOf("random")>> \in Doing /\ <<CheckOf("random")>> \in Doing
  <2>1. WriteOf("random") \in Operation /\ CheckOf("random") \in Operation
    BY WordsAndAddresses DEF WriteOf, CheckOf, Operation
  <2> QED
    BY <2>1 DEF Doing
<1>3. Upward \in Visiting
  BY Visits, WordsAndAddresses, EmptySeq DEF Visiting
<1>4. Up(<<WriteOf("random")>>) \in Element /\ Up(<<CheckOf("random")>>) \in Element
  BY <1>2, <1>3 DEF Element, Up
<1>5. memtest_random[e] = Up(<<WriteOf("random")>>) \/ memtest_random[e] = Up(<<CheckOf("random")>>)
  <2>1. memtest_random[e] = Up(<<IF e % 2 = 1 THEN WriteOf("random") ELSE CheckOf("random")>>)
    BY DEF memtest_random
  <2> QED
    BY <2>1
<1> QED
  BY <1>1, <1>4, <1>5

(* So are those of every test.                                             *)
LEMMA ElementsTyped ==
  ASSUME NEW test \in TestNames
  PROVE  /\ Len(Elements(test)) \in Nat
         /\ \A e \in 1 .. Len(Elements(test)) : Elements(test)[e] \in Element
<1>1. CASE test \in FillTests
  <2>1. \A e \in Nat : e % 2 = 0 \/ e % 2 = 1
    OBVIOUS
  <2>2. Filling(Elements(test))
    BY <1>1, FillElements
  <2>3. \A w, c : Fill(w, c) => w \in Element /\ c \in Element
    BY DEF Fill
  <2> QED
    BY <2>1, <2>2, <2>3 DEF Filling
<1>2. CASE test = "data_lines"
  <2>1. 1 \in 1 .. DataBits /\ DataBits \in Nat
    BY MemAssumption
  <2> QED
    BY <1>2, <2>1, DataLineElements
<1>3. CASE test = "marching"
  BY <1>3, MarchingElements
<1>4. CASE test = "random"
  <2>1. Elements("random") = memtest_random
    BY DEF Elements
  <2>2. 2 * Iterations \in Nat
    BY MemAssumption
  <2>3. Len(memtest_random) = 2 * Iterations
    BY <2>2 DEF memtest_random
  <2> QED
    BY <1>4, <2>1, <2>2, <2>3, RandomElements
<1> QED
  BY <1>1, <1>2, <1>3, <1>4 DEF TestNames, FillTests

(* The operations, one and three at a time.                                *)
Datum(op, a) == IF op.data = "address" THEN a ELSE op.value
Missed(cells, a, v) == IF Load(cells, a) = v THEN 0 ELSE 1

(* A write and the check of it agree on the datum.                         *)
LEMMA ValueData ==
  ASSUME NEW v \in MemWord
  PROVE  /\ Write(v) \in WriteOp /\ Check(v) = [Write(v) EXCEPT !.op = "check"]
         /\ \A a : Datum(Write(v), a) = v
BY DEF Write, Check, WriteOp, Operation, Datum

(* A write puts the datum into the address's cell and finds no error.      *)
LEMMA WriteDone ==
  ASSUME NEW now \in Machine, NEW op \in WriteOp, NEW a \in Addresses
  PROVE  /\ Operate(now, op, a).cells = [now.cells EXCEPT ![Cell(a)] = Datum(op, a)]
         /\ Operate(now, op, a).errors = now.errors
         /\ Operate(now, op, a) \in Machine
<1>1. op \in Operation /\ op.op = "write" /\ op.data \in {"value", "address"}
  BY DEF WriteOp, Operation
<1>2. Operate(now, op, a) = [now EXCEPT !.cells[Cell(a)] = Datum(op, a), !.draws = now.draws]
  BY <1>1 DEF Operate, Datum
<1>3. Operate(now, op, a) \in Machine
  BY <1>1, OperateTyped
<1> QED
  BY <1>2, <1>3 DEF Machine

(* A check changes no cell and counts a miss.                              *)
LEMMA CheckDone ==
  ASSUME NEW now \in Machine, NEW op \in WriteOp, NEW a \in Addresses
  PROVE  LET r == Operate(now, [op EXCEPT !.op = "check"], a)
         IN /\ r.cells = now.cells
            /\ r.errors = now.errors + Missed(now.cells, a, Datum(op, a))
            /\ r \in Machine
<1> DEFINE check == [op EXCEPT !.op = "check"]
<1>1. op \in Operation /\ op.data \in {"value", "address"}
  BY DEF WriteOp, Operation
<1>2. /\ check \in Operation /\ check.op = "check" /\ check.data = op.data
      /\ check.value = op.value
  BY <1>1 DEF Operation
<1> HIDE DEF check
<1>3. Operate(now, check, a) =
        [now EXCEPT !.errors = @ + Missed(now.cells, a, Datum(op, a)), !.draws = now.draws]
  BY <1>1, <1>2 DEF Operate, Datum, Missed
<1>4. Operate(now, check, a) \in Machine
  BY <1>2, OperateTyped
<1>5. /\ Operate(now, check, a).cells = now.cells
      /\ Operate(now, check, a).errors = now.errors + Missed(now.cells, a, Datum(op, a))
      /\ Operate(now, check, a) \in Machine
  BY <1>3, <1>4 DEF Machine
<1> QED
  BY <1>5 DEF check

(* An element of one operation does it.                                    *)
LEMMA OneOperation ==
  ASSUME NEW op \in Operation, NEW a \in Addresses, Now \in Machine
  PROVE  Operated(<<op>>, a) = Operate(Now, op, a)
<1>1. <<op>> \in Seq(Operation) /\ Len(<<op>>) = 1 /\ <<op>>[1] = op
  OBVIOUS
<1>2. PICK g \in [0 .. Len(<<op>>) -> Machine] :
        /\ g[0] = Now /\ Operated(<<op>>, a) = g[Len(<<op>>)]
        /\ \A n \in 1 .. Len(<<op>>) : g[n] = Operate(g[n - 1], <<op>>[n], a)
  BY <1>1, OperatedInTurn
<1>3. 1 \in 1 .. Len(<<op>>) /\ 1 - 1 = 0
  BY <1>1
<1>4. g[1] = Operate(g[0], op, a)
  BY <1>1, <1>2, <1>3
<1> QED
  BY <1>1, <1>2, <1>4

(* One of two does the second after the first.                             *)
LEMMA TwoOperations ==
  ASSUME NEW x \in Operation, NEW y \in Operation, NEW a \in Addresses, Now \in Machine
  PROVE  Operated(<<x, y>>, a) = Operate(Operate(Now, x, a), y, a)
<1> DEFINE ops == <<x, y>>
<1>1. ops \in Seq(Operation) /\ Len(ops) = 2 /\ ops[1] = x /\ ops[2] = y
  OBVIOUS
<1> HIDE DEF ops
<1>2. PICK g \in [0 .. Len(ops) -> Machine] :
        /\ g[0] = Now /\ Operated(ops, a) = g[Len(ops)]
        /\ \A n \in 1 .. Len(ops) : g[n] = Operate(g[n - 1], ops[n], a)
  BY <1>1, OperatedInTurn
<1>3. 1 \in 1 .. Len(ops) /\ 2 \in 1 .. Len(ops) /\ 1 - 1 = 0 /\ 2 - 1 = 1
  BY <1>1
<1>4. g[1] = Operate(g[0], x, a) /\ g[2] = Operate(g[1], y, a)
  BY <1>1, <1>2, <1>3
<1> QED
  BY <1>1, <1>2, <1>4 DEF ops

(* And one of three the third after these.                                 *)
LEMMA ThreeOperations ==
  ASSUME NEW x \in Operation, NEW y \in Operation, NEW z \in Operation, NEW a \in Addresses,
         Now \in Machine
  PROVE  Operated(<<x, y, z>>, a) = Operate(Operate(Operate(Now, x, a), y, a), z, a)
<1> DEFINE ops == <<x, y, z>>
<1>1. ops \in Seq(Operation) /\ Len(ops) = 3 /\ ops[1] = x /\ ops[2] = y /\ ops[3] = z
  OBVIOUS
<1> HIDE DEF ops
<1>2. PICK g \in [0 .. Len(ops) -> Machine] :
        /\ g[0] = Now /\ Operated(ops, a) = g[Len(ops)]
        /\ \A n \in 1 .. Len(ops) : g[n] = Operate(g[n - 1], ops[n], a)
  BY <1>1, OperatedInTurn
<1>3. /\ 1 \in 1 .. Len(ops) /\ 2 \in 1 .. Len(ops) /\ 3 \in 1 .. Len(ops)
      /\ 1 - 1 = 0 /\ 2 - 1 = 1 /\ 3 - 1 = 2
  BY <1>1
<1>4. g[1] = Operate(g[0], x, a) /\ g[2] = Operate(g[1], y, a) /\ g[3] = Operate(g[2], z, a)
  BY <1>1, <1>2, <1>3
<1> QED
  BY <1>1, <1>2, <1>4 DEF ops

(* A visit that writes.                                                    *)
LEMMA WriteVisit ==
  ASSUME NEW op \in WriteOp, NEW a \in Addresses, Now \in Machine
  PROVE  /\ Operated(<<op>>, a).cells = [memory EXCEPT ![Cell(a)] = Datum(op, a)]
         /\ Operated(<<op>>, a).errors = errors
<1>1. op \in Operation
  BY DEF WriteOp
<1>2. Now.cells = memory /\ Now.errors = errors
  BY DEF Now
<1> QED
  BY <1>1, <1>2, OneOperation, WriteDone

(* A visit that checks.                                                    *)
LEMMA CheckVisit ==
  ASSUME NEW op \in WriteOp, NEW a \in Addresses, Now \in Machine
  PROVE  LET r == Operated(<<[op EXCEPT !.op = "check"]>>, a)
         IN /\ r.cells = memory
            /\ r.errors = errors + Missed(memory, a, Datum(op, a))
<1>1. [op EXCEPT !.op = "check"] \in Operation
  BY DEF WriteOp, Operation
<1>2. Now.cells = memory /\ Now.errors = errors
  BY DEF Now
<1> QED
  BY <1>1, <1>2, OneOperation, CheckDone

(* A visit of the march: check, write, check.                              *)
LEMMA MarchVisit ==
  ASSUME NEW v \in MemWord, NEW w \in MemWord, NEW a \in Addresses, Now \in Machine
  PROVE  LET r == Operated(<<Check(v), Write(w), Check(w)>>, a)
         IN /\ r.cells = [memory EXCEPT ![Cell(a)] = w]
            /\ r.errors = errors + Missed(memory, a, v) + Missed(r.cells, a, w)
<1>1. /\ Write(v) \in WriteOp /\ Write(w) \in WriteOp
      /\ Check(v) = [Write(v) EXCEPT !.op = "check"] /\ Check(w) = [Write(w) EXCEPT !.op = "check"]
      /\ Datum(Write(v), a) = v /\ Datum(Write(w), a) = w
  BY ValueData
<1>2. Check(v) \in Operation /\ Write(w) \in Operation /\ Check(w) \in Operation
  BY ValueOps
<1>3. Now.cells = memory /\ Now.errors = errors
  BY DEF Now
<1> DEFINE p == Operate(Now, Check(v), a)
           q == Operate(p, Write(w), a)
           r == Operate(q, Check(w), a)
<1>4. p.cells = memory /\ p.errors = errors + Missed(memory, a, v) /\ p \in Machine
  BY <1>1, <1>3, CheckDone
<1> HIDE DEF p
<1>5. q.cells = [memory EXCEPT ![Cell(a)] = w] /\ q.errors = p.errors /\ q \in Machine
  BY <1>1, <1>4, WriteDone
<1> HIDE DEF q
<1>6. r.cells = q.cells /\ r.errors = q.errors + Missed(q.cells, a, w)
  BY <1>1, <1>5, CheckDone
<1> HIDE DEF r
<1>7. Operated(<<Check(v), Write(w), Check(w)>>, a) = r
  BY <1>2, ThreeOperations DEF p, q, r
<1> QED
  BY <1>4, <1>5, <1>6, <1>7

(* A visit of the data lines: write, check.                                *)
LEMMA DataVisit ==
  ASSUME NEW v \in MemWord, NEW a \in Addresses, Now \in Machine
  PROVE  LET r == Operated(<<Write(v), Check(v)>>, a)
         IN /\ r.cells = [memory EXCEPT ![Cell(a)] = v]
            /\ r.errors = errors + Missed(r.cells, a, v)
<1>1. /\ Write(v) \in WriteOp /\ Check(v) = [Write(v) EXCEPT !.op = "check"]
      /\ Datum(Write(v), a) = v
  BY ValueData
<1>2. Write(v) \in Operation /\ Check(v) \in Operation
  BY ValueOps
<1>3. Now.cells = memory /\ Now.errors = errors
  BY DEF Now
<1> DEFINE p == Operate(Now, Write(v), a)
           q == Operate(p, Check(v), a)
<1>4. p.cells = [memory EXCEPT ![Cell(a)] = v] /\ p.errors = errors /\ p \in Machine
  BY <1>1, <1>3, WriteDone
<1> HIDE DEF p
<1>5. q.cells = p.cells /\ q.errors = p.errors + Missed(p.cells, a, v)
  BY <1>1, <1>4, CheckDone
<1> HIDE DEF q
<1>6. Operated(<<Write(v), Check(v)>>, a) = q
  BY <1>2, TwoOperations DEF p, q
<1> QED
  BY <1>4, <1>5, <1>6

-----------------------------------------------------------------------------
(* The invariant.  Where a call is in its tests:                           *)
MemTyped ==
  /\ MemTypeOK
  /\ tally \in [run: Nat, passed: Nat, failed: Nat, found: Nat]
  /\ tests \in Seq(TestNames)

InTest ==
  IF tests = <<>> THEN element = 1 /\ position = 1 /\ errors = 0
  ELSE \/ element = Len(Current) + 1 /\ position = 1
       \/ element \in 1 .. Len(Current) /\ position \in 1 .. Len(Current[element].visits)

(* In a sound memory nothing is missed, and the words hold what the running *)
(* test wrote last.                                                        *)
FilledWith(cells, visits, op, n) ==
  \A q \in 1 .. Len(visits) : q < n => cells[visits[q]] = Datum(op, visits[q])

Filled ==
  LET e == Current[element]
  IN FilledWith(memory, e.visits, e.ops[1], IF element % 2 = 1 THEN position ELSE Len(e.visits) + 1)

Marched ==
  /\ element = 1 => \A a \in Addresses : a < position - 1 => memory[a] = 0
  /\ element = 2 => \A a \in Addresses : memory[a] = IF a < position - 1 THEN AllOnes ELSE 0
  /\ element = 3 => \A a \in Addresses : memory[a] = IF a > MemWords - position THEN 0 ELSE AllOnes

SoundMemory ==
  fault = NoFault /\ tests # <<>> /\ Head(tests) # "random" =>
    /\ errors = 0
    /\ Head(tests) \in FillTests /\ element <= Len(Current) => Filled
    /\ Head(tests) = "marching" => Marched

(* The upward march meets every fault at the latest at one address: that   *)
(* of the stuck bit, or one that leads to the same cell as the first.      *)
ShownAt ==
  CASE fault.kind = "cell" -> fault.at
    [] fault.kind = "line" -> Power[fault.bit]
    [] fault.kind = "short" -> Power[fault.at]

FaultCaught ==
  fault # NoFault /\ tests # <<>> /\ Head(tests) = "marching" =>
    /\ element = 2 /\ position > 1 => memory[Cell(0)] = AllOnes
    /\ element > 2 \/ (element = 2 /\ ShownAt < position - 1) => errors > 0

MemInv == MemTyped /\ InTest /\ SoundMemory /\ FaultCaught /\ TestsExact

(* Before the first call nothing runs.                                     *)
LEMMA MemStarts == MemInit => MemInv
<1> SUFFICES ASSUME MemInit PROVE MemInv
  OBVIOUS
<1>1. memory = [a \in Addresses |-> 0] /\ tests = <<>> /\ element = 1 /\ position = 1
      /\ errors = 0 /\ draws = 0 /\ tally = NoTally /\ ended = [test |-> "none", errors |-> 0]
      /\ fault \in Faults \cup {NoFault}
  BY DEF MemInit
<1>2. memory \in [Addresses -> 0 .. AllOnes]
  BY <1>1, WordsAndAddresses
<1>3. MemTyped
  BY <1>1, <1>2 DEF MemTyped, MemTypeOK, NoTally
<1>4. InTest /\ SoundMemory /\ FaultCaught
  BY <1>1 DEF InTest, SoundMemory, FaultCaught
<1>5. TestsExact
  BY <1>1 DEF TestsExact
<1> QED
  BY <1>3, <1>4, <1>5 DEF MemInv

(* A call begins with the calls' tests in a row.                           *)
LEMMA CallsTyped == Calls \subseteq Seq(TestNames)
<1>1. Patterns \in Seq(TestNames)
  BY DEF Patterns, TestNames
<1>2. /\ <<"data_lines", "address_lines">> \in Seq(TestNames)
      /\ <<"walking_ones", "walking_zeros", "marching", "random">> \in Seq(TestNames)
  BY DEF TestNames
<1>3. memtest_comprehensive \in Seq(TestNames)
  BY <1>1, <1>2, ConcatProperties DEF memtest_comprehensive
<1> QED
  BY <1>1, <1>3 DEF Calls, memtest_quick

(* A test starts with no errors and nothing written.                       *)
LEMMA TestStarts ==
  ASSUME element' = 1, position' = 1, errors' = 0, tests' \in Seq(TestNames)
  PROVE  InTest' /\ SoundMemory' /\ FaultCaught'
<1>1. CASE tests' = <<>>
  BY <1>1 DEF InTest, SoundMemory, FaultCaught
<1>2. CASE tests' # <<>>
  <2>1. Head(tests') \in TestNames
    BY <1>2, HeadTailProperties
  <2>2. Len(Current') \in Nat /\ \A e \in 1 .. Len(Current') : Current'[e] \in Element
    BY <2>1, ElementsTyped DEF Current
  <2>3. InTest'
    <3>1. CASE Len(Current') = 0
      BY <1>2, <3>1 DEF InTest
    <3>2. CASE Len(Current') # 0
      <4>1. 1 \in 1 .. Len(Current')
        BY <2>2, <3>2
      <4>2. Current'[1].visits \in Seq(Addresses) /\ Current'[1].visits # <<>>
        BY <2>2, <4>1 DEF Element, Visiting
      <4>3. 1 \in 1 .. Len(Current'[1].visits)
        BY <4>2, EmptySeq
      <4> QED
        BY <1>2, <4>1, <4>3 DEF InTest
    <3> QED
      BY <3>1, <3>2
  <2>4. SoundMemory'
    <3>1. ASSUME Head(tests') \in FillTests, element' <= Len(Current') PROVE Filled'
      BY DEF Filled, FilledWith
    <3>2. Marched'
      BY DEF Marched, Addresses
    <3> QED
      BY <3>1, <3>2 DEF SoundMemory
  <2>5. FaultCaught'
    BY DEF FaultCaught
  <2> QED
    BY <2>3, <2>4, <2>5
<1> QED
  BY <1>1, <1>2

(* So does the first test of a call.                                       *)
LEMMA TestsBegin == MemInv /\ BeginTests => MemInv'
<1> SUFFICES ASSUME MemInv, BeginTests PROVE MemInv'
  OBVIOUS
<1>1. /\ tests = <<>> /\ tests' \in Seq(TestNames) /\ draws' = 0 /\ tally' = NoTally
      /\ fault' = fault /\ memory' = memory /\ element' = element /\ position' = position
      /\ errors' = errors /\ ended' = ended
  BY CallsTyped DEF BeginTests
<1>2. element = 1 /\ position = 1 /\ errors = 0 /\ MemTypeOK
  BY <1>1 DEF MemInv, InTest, MemTyped
<1>3. MemTyped'
  BY <1>1, <1>2 DEF MemTyped, MemTypeOK, NoTally
<1>4. TestsExact'
  BY <1>1 DEF MemInv, TestsExact
<1> QED
  BY <1>1, <1>2, <1>3, <1>4, TestStarts DEF MemInv

(* One visit: the word and what becomes of the memory.                     *)
LEMMA VisitFacts ==
  ASSUME MemInv, VisitWord
  PROVE  /\ tests # <<>> /\ Head(tests) \in TestNames /\ Now \in Machine
         /\ element \in 1 .. Len(Current) /\ Current[element] \in Element
         /\ Len(Current) \in Nat /\ \A e \in 1 .. Len(Current) : Current[e] \in Element
         /\ Len(Current[element].visits) \in Nat
         /\ position \in 1 .. Len(Current[element].visits)
         /\ Current[element].visits[position] \in Addresses
         /\ \A q \in 1 .. Len(Current[element].visits) : Current[element].visits[q] \in Addresses
         /\ LET r == Operated(Current[element].ops, Current[element].visits[position])
            IN r \in Machine /\ memory' = r.cells /\ errors' = r.errors /\ draws' = r.draws
         /\ fault' = fault /\ tests' = tests /\ tally' = tally /\ ended' = ended
         /\ Current' = Current
         /\ position < Len(Current[element].visits) => position' = position + 1 /\ element' = element
         /\ position = Len(Current[element].visits) => position' = 1 /\ element' = element + 1
<1> DEFINE e == Current[element]
           r == Operated(e.ops, e.visits[position])
<1>1. /\ tests # <<>> /\ element <= Len(Current)
      /\ memory' = r.cells /\ errors' = r.errors /\ draws' = r.draws
      /\ IF position < Len(e.visits) THEN position' = position + 1 /\ element' = element
         ELSE position' = 1 /\ element' = element + 1
      /\ fault' = fault /\ tests' = tests /\ tally' = tally /\ ended' = ended
  BY DEF VisitWord
<1>2. Head(tests) \in TestNames
  BY <1>1, HeadTailProperties DEF MemInv, MemTyped
<1>3. Len(Current) \in Nat /\ \A i \in 1 .. Len(Current) : Current[i] \in Element
  BY <1>2, ElementsTyped DEF Current
<1>4. element \in 1 .. Len(Current) /\ position \in 1 .. Len(e.visits)
  BY <1>1, <1>3 DEF MemInv, InTest
<1>5. e \in Element
  BY <1>3, <1>4
<1>6. e.visits \in Seq(Addresses) /\ e.ops \in Seq(Operation)
  BY <1>5 DEF Element, Visiting, Doing
<1>7. Len(e.visits) \in Nat /\ \A q \in 1 .. Len(e.visits) : e.visits[q] \in Addresses
  BY <1>6, ElementOfSeq, LenProperties
<1>8. Now \in Machine
  BY DEF MemInv, MemTyped, MemTypeOK, Now, Machine, MemWord
<1>9. r \in Machine
  <2>1. PICK g \in [0 .. Len(e.ops) -> Machine] : r = g[Len(e.ops)]
    BY <1>4, <1>6, <1>7, <1>8, OperatedInTurn
  <2>2. Len(e.ops) \in 0 .. Len(e.ops)
    BY <1>6, LenProperties
  <2> QED
    BY <2>1, <2>2
<1>10. Current' = Current
  BY <1>1 DEF Current
<1> HIDE DEF e, r
<1>11. /\ position < Len(e.visits) => position' = position + 1 /\ element' = element
       /\ position = Len(e.visits) => position' = 1 /\ element' = element + 1
  BY <1>1, <1>4, <1>7
<1> QED
  BY <1>1, <1>2, <1>3, <1>4, <1>5, <1>7, <1>8, <1>9, <1>10, <1>11 DEF e, r

(* A visit keeps the types, the place in the test and the tally.           *)
LEMMA VisitTyped == MemInv /\ VisitWord => MemTyped' /\ InTest' /\ TestsExact'
<1> SUFFICES ASSUME MemInv, VisitWord PROVE MemTyped' /\ InTest' /\ TestsExact'
  OBVIOUS
<1> DEFINE v == Current[element].visits
           r == Operated(Current[element].ops, v[position])
<1>1. /\ r \in Machine /\ memory' = r.cells /\ errors' = r.errors /\ draws' = r.draws
      /\ fault' = fault /\ tests' = tests /\ tally' = tally /\ ended' = ended
      /\ element \in 1 .. Len(Current) /\ position \in 1 .. Len(v) /\ Len(v) \in Nat
      /\ Len(Current) \in Nat /\ tests # <<>> /\ Current' = Current
      /\ position < Len(v) => position' = position + 1 /\ element' = element
      /\ position = Len(v) => position' = 1 /\ element' = element + 1
      /\ \A e \in 1 .. Len(Current) : Current[e] \in Element
  BY VisitFacts
<1> HIDE DEF r
<1>2. memory' \in [Addresses -> 0 .. AllOnes] /\ errors' \in Nat /\ draws' \in Nat
  BY <1>1 DEF Machine, MemWord
<1>3. \A e \in 1 .. Len(Current) : 1 \in 1 .. Len(Current[e].visits)
  <2> SUFFICES ASSUME NEW e \in 1 .. Len(Current) PROVE 1 \in 1 .. Len(Current[e].visits)
    OBVIOUS
  <2>1. Current[e].visits \in Seq(Addresses) /\ Current[e].visits # <<>>
    BY <1>1 DEF Element, Visiting
  <2>2. Len(Current[e].visits) \in Nat \ {0}
    BY <2>1, EmptySeq
  <2> QED
    BY <2>2
<1>4. MemTyped'
  <2>1. MemTypeOK /\ tally \in [run: Nat, passed: Nat, failed: Nat, found: Nat]
        /\ tests \in Seq(TestNames)
    BY DEF MemInv, MemTyped
  <2>2. element' \in Nat /\ position' \in Nat
    BY <1>1
  <2>3. MemTypeOK'
    BY <1>1, <1>2, <2>1, <2>2 DEF MemTypeOK
  <2> QED
    BY <1>1, <2>1, <2>3 DEF MemTyped
<1>5. InTest'
  <2>1. CASE position < Len(v)
    <3>1. position + 1 \in 1 .. Len(v)
      BY <1>1, <2>1
    <3>2. element' = element /\ position' = position + 1
      BY <1>1, <2>1
    <3>3. element' \in 1 .. Len(Current') /\ position' \in 1 .. Len(Current'[element'].visits)
      BY <1>1, <3>1, <3>2
    <3> QED
      BY <1>1, <3>3 DEF InTest
  <2>2. CASE position = Len(v)
    <3>1. element + 1 = Len(Current) + 1 \/ element + 1 \in 1 .. Len(Current)
      BY <1>1
    <3> QED
      BY <1>1, <1>3, <2>2, <3>1 DEF InTest
  <2> QED
    BY <1>1, <2>1, <2>2
<1>6. TestsExact'
  BY <1>1 DEF MemInv, TestsExact
<1> QED
  BY <1>4, <1>5, <1>6

(* What a visit does in a sound memory.                                    *)
LEMMA SoundCells ==
  ASSUME fault = NoFault
  PROVE  /\ \A a : Cell(a) = a
         /\ \A cells, a, v : Missed(cells, a, v) = IF cells[a] = v THEN 0 ELSE 1
<1>1. fault.kind = "none"
  BY DEF NoFault
<1> QED
  BY <1>1 DEF Cell, Load, Missed

(* In a sound memory, filling and checking find nothing.                   *)
LEMMA FillVisit ==
  ASSUME MemInv, VisitWord, fault = NoFault, Head(tests) \in FillTests
  PROVE  errors' = 0 /\ (element' <= Len(Current') => Filled')
<1> DEFINE v == Current[element].visits
           a == v[position]
           r == Operated(Current[element].ops, a)
<1>1. /\ memory' = r.cells /\ errors' = r.errors /\ Now \in Machine
      /\ element \in 1 .. Len(Current) /\ position \in 1 .. Len(v) /\ Len(v) \in Nat
      /\ a \in Addresses /\ \A q \in 1 .. Len(v) : v[q] \in Addresses
      /\ Len(Current) \in Nat /\ tests # <<>> /\ Current' = Current
      /\ position < Len(v) => position' = position + 1 /\ element' = element
      /\ position = Len(v) => position' = 1 /\ element' = element + 1
  BY VisitFacts
<1>2. Head(tests) # "random"
  BY DEF FillTests
<1>3. Filling(Current)
  BY FillElements DEF Current
<1>4. errors = 0 /\ Filled
  BY <1>1, <1>2 DEF MemInv, SoundMemory
<1>5. memory \in [Addresses -> MemWord]
  BY DEF MemInv, MemTyped, MemTypeOK, MemWord
<1>6. CASE element % 2 = 1
  <2>1. element + 1 \in 1 .. Len(Current) /\ Fill(Current[element], Current[element + 1])
    BY <1>1, <1>3, <1>6 DEF Filling
  <2>2. PICK op \in WriteOp : Current[element].ops = <<op>>
                            /\ Current[element + 1].ops = <<[op EXCEPT !.op = "check"]>>
    BY <2>1, Zenon DEF Fill
  <2>3. Current[element + 1].visits = v
    BY <2>1 DEF Fill
  <2>4. memory' = [memory EXCEPT ![a] = Datum(op, a)] /\ errors' = 0
    <3>1. r.cells = [memory EXCEPT ![Cell(a)] = Datum(op, a)] /\ r.errors = errors
      <4>1. r = Operated(<<op>>, a)
        BY <2>2
      <4> HIDE DEF r, a
      <4> QED
        BY <1>1, <4>1, WriteVisit
    <3>2. Cell(a) = a
      BY SoundCells
    <3> QED
      BY <1>1, <1>4, <3>1, <3>2
  <2>5. FilledWith(memory, v, op, position)
    <3>1. Current[element].ops[1] = op
      BY <2>2
    <3> QED
      BY <1>4, <1>6, <3>1 DEF Filled
  <2>6. FilledWith(memory', v, op, position + 1)
    <3> SUFFICES ASSUME NEW q \in 1 .. Len(v), q < position + 1
                 PROVE  memory'[v[q]] = Datum(op, v[q])
      BY DEF FilledWith
    <3>1. CASE v[q] = a
      BY <1>1, <1>5, <2>4, <3>1
    <3>2. CASE v[q] # a
      <4>1. q < position
        BY <1>1, <3>2
      <4> HIDE DEF v, a
      <4>2. memory[v[q]] = Datum(op, v[q])
        BY <2>5, <4>1 DEF FilledWith
      <4>3. memory'[v[q]] = memory[v[q]]
        BY <1>1, <1>5, <2>4, <3>2
      <4> QED
        BY <4>2, <4>3
    <3> QED
      BY <3>1, <3>2
  <2>7. CASE position < Len(v)
    <3>1. position' = position + 1 /\ element' = element /\ Current'[element'].ops[1] = op
          /\ Current'[element'].visits = v
      BY <1>1, <2>2, <2>7
    <3> HIDE DEF v
    <3> QED
      BY <1>6, <2>4, <2>6, <3>1 DEF Filled
  <2>8. CASE position = Len(v)
    <3>1. position' = 1 /\ element' = element + 1 /\ Current'[element'].visits = v
      BY <1>1, <2>3, <2>8
    <3>2. Current'[element'].ops[1] = [op EXCEPT !.op = "check"]
      BY <1>1, <2>2, <3>1
    <3>3. \A b : Datum([op EXCEPT !.op = "check"], b) = Datum(op, b)
      BY DEF Datum, WriteOp, Operation
    <3>4. element' % 2 # 1
      BY <1>1, <1>6, <3>1
    <3>5. FilledWith(memory', v, [op EXCEPT !.op = "check"], Len(v) + 1)
      BY <2>6, <2>8, <3>3 DEF FilledWith
    <3> HIDE DEF v
    <3> QED
      BY <2>4, <3>1, <3>2, <3>4, <3>5 DEF Filled
  <2> QED
    BY <1>1, <2>7, <2>8
<1>7. CASE element % 2 = 0
  <2>1. element - 1 \in 1 .. Len(Current) /\ Fill(Current[element - 1], Current[element])
    BY <1>1, <1>3, <1>7 DEF Filling
  <2>2. PICK op \in WriteOp : Current[element].ops = <<[op EXCEPT !.op = "check"]>>
    BY <2>1, Zenon DEF Fill
  <2>3. \A b : Datum([op EXCEPT !.op = "check"], b) = Datum(op, b)
    BY DEF Datum, WriteOp, Operation
  <2>4. FilledWith(memory, v, Current[element].ops[1], Len(v) + 1)
    BY <1>4, <1>7 DEF Filled
  <2>5. memory[a] = Datum(op, a)
    <3>1. Current[element].ops[1] = [op EXCEPT !.op = "check"]
      BY <2>2
    <3>2. position < Len(v) + 1
      BY <1>1
    <3> QED
      BY <1>1, <2>3, <2>4, <3>1, <3>2 DEF FilledWith
  <2>6. memory' = memory /\ errors' = 0
    <3>1. r.cells = memory /\ r.errors = errors + Missed(memory, a, Datum(op, a))
      BY <1>1, <2>2, CheckVisit
    <3>2. Missed(memory, a, Datum(op, a)) = 0
      BY <2>5, SoundCells
    <3> QED
      BY <1>1, <1>4, <3>1, <3>2
  <2>7. CASE position < Len(v)
    <3>1. element' = element /\ Current'[element'].visits = v
          /\ Current'[element'].ops[1] = Current[element].ops[1]
      BY <1>1, <2>7
    <3>2. element' % 2 # 1
      BY <1>7, <3>1
    <3> HIDE DEF v
    <3> QED
      BY <2>4, <2>6, <3>1, <3>2 DEF Filled
  <2>8. CASE position = Len(v)
    <3>1. position' = 1 /\ element' = element + 1
      BY <1>1, <2>8
    <3>2. element' % 2 = 1
      BY <1>1, <1>7, <3>1
    <3>3. \A cells, visits, o : FilledWith(cells, visits, o, 1)
      BY DEF FilledWith
    <3> QED
      BY <2>6, <3>1, <3>2, <3>3 DEF Filled
  <2> QED
    BY <1>1, <2>7, <2>8
<1>8. \A n \in Nat : n % 2 = 0 \/ n % 2 = 1
  OBVIOUS
<1> QED
  BY <1>1, <1>6, <1>7, <1>8

(* A visit of the marching test.                                           *)
LEMMA MarchMoves ==
  ASSUME MemInv, VisitWord, Head(tests) = "marching"
  PROVE  /\ element \in 1 .. 3 /\ position \in 1 .. MemWords /\ tests # <<>>
         /\ position < MemWords => position' = position + 1 /\ element' = element
         /\ position = MemWords => position' = 1 /\ element' = element + 1
         /\ position - 1 \in Addresses /\ MemWords - position \in Addresses
         /\ element = 1 => memory' = [memory EXCEPT ![Cell(position - 1)] = 0] /\ errors' = errors
         /\ element = 2 => /\ memory' = [memory EXCEPT ![Cell(position - 1)] = AllOnes]
                           /\ errors' = errors + Missed(memory, position - 1, 0)
                                               + Missed(memory', position - 1, AllOnes)
         /\ element = 3 => /\ memory' = [memory EXCEPT ![Cell(MemWords - position)] = 0]
                           /\ errors' = errors + Missed(memory, MemWords - position, AllOnes)
                                               + Missed(memory', MemWords - position, 0)
<1> DEFINE v == Current[element].visits
           a == v[position]
           r == Operated(Current[element].ops, a)
<1>1. /\ memory' = r.cells /\ errors' = r.errors /\ Now \in Machine
      /\ element \in 1 .. Len(Current) /\ position \in 1 .. Len(v) /\ a \in Addresses
      /\ tests # <<>>
      /\ position < Len(v) => position' = position + 1 /\ element' = element
      /\ position = Len(v) => position' = 1 /\ element' = element + 1
  BY VisitFacts
<1>2. /\ Len(Current) = 3
      /\ Current[1] = [visits |-> Upward, ops |-> <<Write(0)>>]
      /\ Current[2] = [visits |-> Upward, ops |-> <<Check(0), Write(AllOnes), Check(AllOnes)>>]
      /\ Current[3] = [visits |-> Downward, ops |-> <<Check(AllOnes), Write(0), Check(0)>>]
  BY MarchingElements DEF Current
<1>3. element \in 1 .. 3 /\ (element = 1 \/ element = 2 \/ element = 3)
  BY <1>1, <1>2
<1>4. /\ element \in {1, 2} => v = Upward
      /\ element = 3 => v = Downward
      /\ element = 1 => Current[element].ops = <<Write(0)>>
      /\ element = 2 => Current[element].ops = <<Check(0), Write(AllOnes), Check(AllOnes)>>
      /\ element = 3 => Current[element].ops = <<Check(AllOnes), Write(0), Check(0)>>
  BY <1>2, <1>3
<1>5. Len(v) = MemWords
  BY <1>3, <1>4, Visits
<1>6. /\ element \in {1, 2} => a = position - 1
      /\ element = 3 => a = MemWords - position
  BY <1>1, <1>4, <1>5, Visits
<1>7. position - 1 \in Addresses /\ MemWords - position \in Addresses
  BY <1>1, <1>5, WordsAndAddresses DEF Addresses
<1> HIDE DEF v, a
<1>8. CASE element = 1
  <2>1. r = Operated(<<Write(0)>>, a)
    BY <1>4, <1>8
  <2>2. Write(0) \in WriteOp /\ Datum(Write(0), a) = 0
    BY ValueData, WordsAndAddresses
  <2> HIDE DEF r
  <2>3. r.cells = [memory EXCEPT ![Cell(a)] = 0] /\ r.errors = errors
    <3>1. /\ Operated(<<Write(0)>>, a).cells = [memory EXCEPT ![Cell(a)] = Datum(Write(0), a)]
          /\ Operated(<<Write(0)>>, a).errors = errors
      BY <1>1, <2>2, WriteVisit, Zenon
    <3> QED
      BY <2>1, <2>2, <3>1
  <2> QED
    BY <1>1, <1>3, <1>5, <1>6, <1>7, <1>8, <2>3
<1>9. CASE element = 2
  <2>1. r = Operated(<<Check(0), Write(AllOnes), Check(AllOnes)>>, a)
    BY <1>4, <1>9
  <2>2. 0 \in MemWord /\ AllOnes \in MemWord
    BY WordsAndAddresses
  <2> HIDE DEF r
  <2>3. /\ r.cells = [memory EXCEPT ![Cell(a)] = AllOnes]
        /\ r.errors = errors + Missed(memory, a, 0) + Missed(r.cells, a, AllOnes)
    <3>1. LET o == Operated(<<Check(0), Write(AllOnes), Check(AllOnes)>>, a)
          IN /\ o.cells = [memory EXCEPT ![Cell(a)] = AllOnes]
             /\ o.errors = errors + Missed(memory, a, 0) + Missed(o.cells, a, AllOnes)
      <4>1. Now \in Machine /\ a \in Addresses
        BY <1>1
      <4> QED
        BY <2>2, <4>1, MarchVisit, ZenonT(30)
    <3> QED
      BY <2>1, <3>1, Zenon
  <2> QED
    BY <1>1, <1>3, <1>5, <1>6, <1>7, <1>9, <2>3
<1>10. CASE element = 3
  <2>1. r = Operated(<<Check(AllOnes), Write(0), Check(0)>>, a)
    BY <1>4, <1>10
  <2>2. 0 \in MemWord /\ AllOnes \in MemWord
    BY WordsAndAddresses
  <2> HIDE DEF r
  <2>3. /\ r.cells = [memory EXCEPT ![Cell(a)] = 0]
        /\ r.errors = errors + Missed(memory, a, AllOnes) + Missed(r.cells, a, 0)
    <3>1. LET o == Operated(<<Check(AllOnes), Write(0), Check(0)>>, a)
          IN /\ o.cells = [memory EXCEPT ![Cell(a)] = 0]
             /\ o.errors = errors + Missed(memory, a, AllOnes) + Missed(o.cells, a, 0)
      <4>1. Now \in Machine /\ a \in Addresses
        BY <1>1
      <4> QED
        BY <2>2, <4>1, MarchVisit, ZenonT(30)
    <3> QED
      BY <2>1, <3>1, Zenon
  <2> QED
    BY <1>1, <1>3, <1>5, <1>6, <1>7, <1>10, <2>3
<1> QED
  BY <1>3, <1>8, <1>9, <1>10

(* In a sound memory the march finds what it wrote on the way before.      *)
LEMMA SoundMarch ==
  ASSUME MemInv, VisitWord, fault = NoFault, Head(tests) = "marching"
  PROVE  errors' = 0 /\ Marched'
<1>1. errors = 0 /\ Marched /\ memory \in [Addresses -> MemWord]
  <2>1. tests # <<>> /\ Head(tests) # "random"
    BY MarchMoves
  <2> QED
    BY <2>1 DEF MemInv, SoundMemory, MemTyped, MemTypeOK, MemWord
<1> DEFINE p == position
<1>2. /\ p \in 1 .. MemWords /\ MemWords \in Nat \ {0} /\ AllOnes \in Nat /\ AllOnes > 0
      /\ p - 1 \in Addresses /\ MemWords - p \in Addresses
      /\ p < MemWords => position' = p + 1 /\ element' = element
      /\ p = MemWords => position' = 1 /\ element' = element + 1
  BY MarchMoves, WordsAndAddresses
<1>3. /\ element = 1 => memory' = [memory EXCEPT ![p - 1] = 0] /\ errors' = errors
      /\ element = 2 => /\ memory' = [memory EXCEPT ![p - 1] = AllOnes]
                        /\ errors' = errors + Missed(memory, p - 1, 0) + Missed(memory', p - 1, AllOnes)
      /\ element = 3 => /\ memory' = [memory EXCEPT ![MemWords - p] = 0]
                        /\ errors' = errors + Missed(memory, MemWords - p, AllOnes)
                                            + Missed(memory', MemWords - p, 0)
      /\ element \in 1 .. 3
  BY MarchMoves, SoundCells
<1>4. CASE element = 1
  <2>1. \A a \in Addresses : a < p => memory'[a] = 0
    BY <1>1, <1>2, <1>3, <1>4 DEF Marched, Addresses
  <2>2. Marched'
    BY <1>2, <1>4, <2>1 DEF Marched, Addresses
  <2> QED
    BY <1>1, <1>3, <1>4, <2>2
<1>5. CASE element = 2
  <2>1. \A a \in Addresses : memory[a] = IF a < p - 1 THEN AllOnes ELSE 0
    BY <1>1, <1>5 DEF Marched
  <2>2. \A a \in Addresses : memory'[a] = IF a < p THEN AllOnes ELSE 0
    BY <1>1, <1>2, <1>3, <1>5, <2>1 DEF Addresses
  <2>3. memory[p - 1] = 0 /\ memory'[p - 1] = AllOnes
    BY <1>2, <2>1, <2>2
  <2>4. errors' = 0
    BY <1>1, <1>3, <1>5, <2>3, SoundCells
  <2>5. Marched'
    BY <1>2, <1>5, <2>2 DEF Marched, Addresses
  <2> QED
    BY <2>4, <2>5
<1>6. CASE element = 3
  <2>1. \A a \in Addresses : memory[a] = IF a > MemWords - p THEN 0 ELSE AllOnes
    BY <1>1, <1>6 DEF Marched
  <2>2. \A a \in Addresses : memory'[a] = IF a > MemWords - (p + 1) THEN 0 ELSE AllOnes
    BY <1>1, <1>2, <1>3, <1>6, <2>1 DEF Addresses
  <2>3. memory[MemWords - p] = AllOnes /\ memory'[MemWords - p] = 0
    BY <1>2, <2>1, <2>2
  <2>4. errors' = 0
    BY <1>1, <1>3, <1>6, <2>3, SoundCells
  <2>5. Marched'
    BY <1>2, <1>6, <2>2 DEF Marched, Addresses
  <2> QED
    BY <2>4, <2>5
<1> QED
  BY <1>3, <1>4, <1>5, <1>6

(* Why a fault shows at its address.                                       *)
LEMMA StuckBitShows ==
  ASSUME fault \in MemoryFaults, fault.kind = "cell"
  PROVE  /\ ShownAt \in Addresses /\ \A a : Cell(a) = a
         /\ \/ \A cells \in [Addresses -> MemWord] : Missed(cells, ShownAt, 0) = 1
            \/ \A cells \in [Addresses -> MemWord] :
                 cells[ShownAt] = AllOnes => Missed(cells, ShownAt, AllOnes) = 1
<1>1. fault \in StuckBits
  BY DEF MemoryFaults, StuckLines, ShortedLines
<1>2. fault.at \in Addresses /\ fault.bit \in Bits /\ fault.level \in {0, 1}
  BY <1>1 DEF StuckBits
<1>3. ShownAt = fault.at /\ \A a : Cell(a) = a
  BY DEF ShownAt, Cell
<1>4. \A cells : Load(cells, ShownAt) = WithBit(cells[ShownAt], fault.bit, fault.level)
  BY <1>3 DEF Load
<1> DEFINE b == fault.bit
<1>5. Power[b] \in Nat \ {0}
  BY <1>2, BitIsBit
<1>6. CASE fault.level = 1
  <2> SUFFICES ASSUME NEW cells \in [Addresses -> MemWord]
               PROVE  Missed(cells, ShownAt, 0) = 1
    BY <1>2, <1>3
  <2>1. cells[ShownAt] \in Nat
    BY <1>2, <1>3 DEF MemWord
  <2> DEFINE n == cells[ShownAt]
  <2>2. BitOf(n, b) \in {0, 1} /\ (BitOf(n, b) = 1 => n >= Power[b])
    BY <1>2, <2>1, BitIsBit
  <2>3. WithBit(n, b, 1) = n - BitOf(n, b) * Power[b] + 1 * Power[b]
    BY DEF WithBit
  <2> HIDE DEF n
  <2>4. n \in Nat
    BY <2>1 DEF n
  <2>5. WithBit(n, b, 1) # 0
    <3>1. CASE BitOf(n, b) = 0
      BY <1>5, <2>3, <2>4, <3>1
    <3>2. CASE BitOf(n, b) = 1
      BY <1>5, <2>2, <2>3, <2>4, <3>2
    <3> QED
      BY <2>2, <3>1, <3>2
  <2> QED
    BY <1>4, <1>6, <2>5 DEF Missed, n
<1>7. CASE fault.level = 0
  <2> SUFFICES ASSUME NEW cells \in [Addresses -> MemWord], cells[ShownAt] = AllOnes
               PROVE  Missed(cells, ShownAt, AllOnes) = 1
    BY <1>2, <1>3
  <2>1. WithBit(AllOnes, b, 0) = AllOnes - BitOf(AllOnes, b) * Power[b] + 0 * Power[b]
    BY DEF WithBit
  <2>2. BitOf(AllOnes, b) = 1 /\ AllOnes \in Nat
    BY <1>2, BitsKnown
  <2>3. WithBit(AllOnes, b, 0) # AllOnes
    <3>1. WithBit(AllOnes, b, 0) = AllOnes - 1 * Power[b] + 0 * Power[b]
      BY <2>1, <2>2
    <3>2. \A n \in Nat : \A p \in Nat \ {0} : n - 1 * p + 0 * p # n
      OBVIOUS
    <3> HIDE DEF b
    <3> QED
      BY <1>5, <2>2, <3>1, <3>2
  <2> QED
    BY <1>4, <1>7, <2>3 DEF Missed
<1> QED
  BY <1>2, <1>3, <1>6, <1>7

(* A stuck or shorted line leads one more address to the cell of 0.        *)
LEMMA BadLineAliases ==
  ASSUME fault \in MemoryFaults, fault.kind # "cell"
  PROVE  /\ ShownAt \in Addresses \ {0} /\ Cell(ShownAt) = Cell(0) /\ Cell(0) \in Addresses
         /\ \A cells, a : Load(cells, a) = cells[Cell(a)]
<1>1. fault \in StuckLines \/ fault \in ShortedLines
  BY DEF MemoryFaults, StuckBits
<1>2. \A cells, a : Load(cells, a) = cells[Cell(a)]
  BY DEF Load
<1>3. CASE fault \in StuckLines
  <2> DEFINE b == fault.bit
             l == fault.level
  <2>1. fault.kind = "line" /\ b \in AddressLines /\ l \in {0, 1}
    BY <1>3 DEF StuckLines
  <2>2. b \in Bits /\ Power[b] \in Addresses \ {0} /\ 0 \in Addresses
    BY <2>1, LinesAreBits
  <2>3. ShownAt = Power[b] /\ \A a : Cell(a) = WithBit(a, b, l)
    BY <2>1 DEF ShownAt, Cell
  <2>4. BitOf(0, b) = 0 /\ BitOf(Power[b], b) = 1 /\ Power[b] \in Nat
    BY <2>2, BitsKnown DEF Addresses
  <2>5. /\ WithBit(0, b, l) = 0 - 0 * Power[b] + l * Power[b]
        /\ WithBit(Power[b], b, l) = Power[b] - 1 * Power[b] + l * Power[b]
    BY <2>4 DEF WithBit
  <2> HIDE DEF b, l
  <2>6. WithBit(0, b, l) = WithBit(Power[b], b, l) /\ WithBit(0, b, l) \in {0, Power[b]}
    BY <2>1, <2>4, <2>5
  <2> QED
    BY <1>2, <2>2, <2>3, <2>6
<1>4. CASE fault \in ShortedLines
  <2> DEFINE x == fault.at
             y == fault.bit
  <2>1. fault.kind = "short" /\ x \in AddressLines /\ y \in AddressLines /\ x < y
    BY <1>4 DEF ShortedLines
  <2>2. x \in Bits /\ y \in Bits /\ Power[x] \in Addresses \ {0} /\ 0 \in Addresses
    BY <2>1, LinesAreBits
  <2>3. ShownAt = Power[x]
    BY <2>1 DEF ShownAt
  <2>4. /\ BitOf(0, x) = 0 /\ BitOf(0, y) = 0 /\ BitOf(Power[x], x) = 1 /\ BitOf(Power[x], y) = 0
        /\ Power[x] \in Nat /\ Power[y] \in Nat
    BY <2>1, <2>2, BitsKnown, LowerBit, BitIsBit
  <2>5. Cell(0) = 0
    BY <2>1, <2>4 DEF Cell
  <2>6. Cell(Power[x]) = WithBit(WithBit(Power[x], x, 0), y, 0)
    BY <2>1, <2>4 DEF Cell
  <2> HIDE DEF x, y
  <2>7. WithBit(Power[x], x, 0) = 0
    <3>1. WithBit(Power[x], x, 0) = Power[x] - 1 * Power[x] + 0 * Power[x]
      BY <2>4 DEF WithBit
    <3> QED
      BY <2>4, <3>1
  <2>8. WithBit(0, y, 0) = 0
    <3>1. WithBit(0, y, 0) = 0 - 0 * Power[y] + 0 * Power[y]
      BY <2>4 DEF WithBit
    <3> QED
      BY <2>4, <3>1
  <2> QED
    BY <1>2, <2>2, <2>3, <2>5, <2>6, <2>7, <2>8
<1> QED
  BY <1>1, <1>3, <1>4

(* The upward march counts an error at ShownAt, or has counted it before.  *)
LEMMA FaultVisit ==
  ASSUME MemInv, VisitWord, fault # NoFault, Head(tests) = "marching"
  PROVE  FaultCaught'
<1> DEFINE p == position
           shown == ShownAt
           first == Cell(0)
<1>1. /\ fault \in MemoryFaults /\ errors \in Nat /\ memory \in [Addresses -> MemWord]
      /\ fault' = fault
  BY FaultAssumption, VisitFacts DEF MemInv, MemTyped, MemTypeOK, MemWord
<1>2. /\ p \in 1 .. MemWords /\ MemWords \in Nat \ {0} /\ AllOnes \in MemWord /\ AllOnes > 0
      /\ p - 1 \in Addresses /\ element \in 1 .. 3
      /\ p < MemWords => position' = p + 1 /\ element' = element
      /\ p = MemWords => position' = 1 /\ element' = element + 1
  BY MarchMoves, WordsAndAddresses
<1>3. /\ element = 1 => errors' = errors
      /\ element = 2 => /\ memory' = [memory EXCEPT ![Cell(p - 1)] = AllOnes]
                        /\ errors' = errors + Missed(memory, p - 1, 0) + Missed(memory', p - 1, AllOnes)
      /\ element = 3 => errors' = errors + Missed(memory, MemWords - p, AllOnes)
                                         + Missed(memory', MemWords - p, 0)
  BY MarchMoves
<1>4. \A cells, a, v : Missed(cells, a, v) \in {0, 1}
  BY DEF Missed
<1>5. /\ element = 2 /\ p > 1 => memory[first] = AllOnes
      /\ element > 2 \/ (element = 2 /\ shown < p - 1) => errors > 0
  BY MarchMoves DEF MemInv, FaultCaught
<1>6. ShownAt' = shown /\ Cell(0)' = first
  BY <1>1 DEF ShownAt, Cell, WithBit, BitOf
<1>7. shown \in Addresses /\ first \in Addresses
  BY <1>1, StuckBitShows, BadLineAliases, WordsAndAddresses
<1> HIDE DEF shown, first
<1>8. ASSUME element = 2
      PROVE  memory'[first] = AllOnes
  <2>1. p = 1 \/ memory[first] = AllOnes
    BY <1>2, <1>5, <1>8
  <2>2. CASE p = 1
    <3>1. Cell(p - 1) = first
      BY <2>2 DEF first
    <3> QED
      BY <1>1, <1>3, <1>7, <1>8, <3>1
  <2>3. CASE memory[first] = AllOnes
    BY <1>1, <1>3, <1>7, <1>8, <2>3
  <2> QED
    BY <2>1, <2>2, <2>3
<1>9. ASSUME element = 2, shown = p - 1
      PROVE  errors' > 0
  <2>1. Missed(memory, p - 1, 0) = 1 \/ Missed(memory', p - 1, AllOnes) = 1
    <3>1. CASE fault.kind = "cell"
      <4>1. /\ Cell(p - 1) = p - 1
            /\ \/ \A cells \in [Addresses -> MemWord] : Missed(cells, p - 1, 0) = 1
               \/ \A cells \in [Addresses -> MemWord] :
                    cells[p - 1] = AllOnes => Missed(cells, p - 1, AllOnes) = 1
        BY <1>1, <1>9, <3>1, StuckBitShows DEF shown
      <4>2. memory' \in [Addresses -> MemWord] /\ memory'[p - 1] = AllOnes
        BY <1>1, <1>2, <1>3, <1>9, <4>1
      <4> QED
        BY <1>1, <4>1, <4>2
    <3>2. CASE fault.kind # "cell"
      <4>1. p - 1 # 0 /\ Cell(p - 1) = first /\ Load(memory, p - 1) = memory[Cell(p - 1)]
        BY <1>1, <1>9, <3>2, BadLineAliases DEF shown, first
      <4>2. Load(memory, p - 1) = AllOnes
        BY <1>2, <1>5, <1>9, <4>1
      <4> QED
        BY <1>2, <4>2 DEF Missed
    <3> QED
      BY <3>1, <3>2
  <2> QED
    BY <1>1, <1>3, <1>4, <1>9, <2>1
<1>10. errors' \in Nat /\ (errors > 0 => errors' > 0)
  BY <1>1, <1>2, <1>3, <1>4
<1>11. element' = 2 /\ position' > 1 => memory'[first] = AllOnes
  BY <1>2, <1>8
<1>12. element' > 2 \/ (element' = 2 /\ shown < position' - 1) => errors' > 0
  <2>1. shown \in Nat /\ shown < MemWords
    BY <1>2, <1>7 DEF Addresses
  <2>2. CASE element = 1
    BY <1>2, <2>1, <2>2
  <2>3. CASE element = 2
    <3>1. element' > 2 \/ (element' = 2 /\ shown < position' - 1) => shown < p - 1 \/ shown = p - 1
      BY <1>2, <2>1, <2>3
    <3> QED
      BY <1>5, <1>9, <1>10, <2>3, <3>1
  <2>4. CASE element = 3
    BY <1>2, <1>5, <1>10, <2>4
  <2> QED
    BY <1>2, <2>2, <2>3, <2>4
<1> QED
  BY <1>6, <1>11, <1>12 DEF FaultCaught

(* A sound memory returns each data-line pattern.                          *)
LEMMA DataLineVisit ==
  ASSUME MemInv, VisitWord, fault = NoFault, Head(tests) = "data_lines"
  PROVE  errors' = 0
<1> DEFINE a == Current[element].visits[position]
           r == Operated(Current[element].ops, a)
<1>1. /\ errors' = r.errors /\ Now \in Machine /\ a \in Addresses /\ tests # <<>>
      /\ element \in 1 .. Len(Current)
  BY VisitFacts
<1>2. Current = Elements("data_lines")
  BY DEF Current
<1>3. element \in 1 .. DataBits
  <2>1. 1 \in 1 .. DataBits
    BY MemAssumption
  <2> QED
    BY <1>1, <1>2, <2>1, DataLineElements
<1>4. PICK v \in MemWord : Current[element] = [visits |-> <<0>>, ops |-> <<Write(v), Check(v)>>]
  BY <1>2, <1>3, DataLineElements
<1>5. r = Operated(<<Write(v), Check(v)>>, a)
  BY <1>4
<1>6. errors = 0 /\ memory \in [Addresses -> MemWord]
  BY <1>1 DEF MemInv, SoundMemory, MemTyped, MemTypeOK, MemWord
<1> HIDE DEF r, a
<1>7. r.cells = [memory EXCEPT ![a] = v] /\ r.errors = errors + Missed(r.cells, a, v)
  <2>1. LET o == Operated(<<Write(v), Check(v)>>, a)
        IN /\ o.cells = [memory EXCEPT ![Cell(a)] = v]
           /\ o.errors = errors + Missed(o.cells, a, v)
    BY <1>1, DataVisit, Zenon
  <2>2. Cell(a) = a
    BY SoundCells
  <2> QED
    BY <1>5, <2>1, <2>2, Zenon
<1>8. Missed(r.cells, a, v) = 0
  <2>1. r.cells[a] = v
    BY <1>1, <1>6, <1>7
  <2> QED
    BY <2>1, SoundCells
<1> QED
  BY <1>1, <1>6, <1>7, <1>8

(* A visit keeps the invariant, whatever the test and the fault.           *)
LEMMA WordVisited == MemInv /\ VisitWord => MemInv'
<1> SUFFICES ASSUME MemInv, VisitWord PROVE MemInv'
  OBVIOUS
<1>1. /\ tests' = tests /\ fault' = fault /\ tests # <<>> /\ Head(tests) \in TestNames
      /\ element' > 0
  BY VisitFacts
<1>2. MemTyped' /\ InTest' /\ TestsExact'
  BY VisitTyped
<1>3. SoundMemory'
  <2> SUFFICES ASSUME fault = NoFault, Head(tests) # "random"
               PROVE  /\ errors' = 0
                      /\ Head(tests) \in FillTests /\ element' <= Len(Current') => Filled'
                      /\ Head(tests) = "marching" => Marched'
    BY <1>1 DEF SoundMemory
  <2>1. CASE Head(tests) \in FillTests
    BY <2>1, FillVisit DEF FillTests
  <2>2. CASE Head(tests) = "marching"
    BY <2>2, SoundMarch DEF FillTests
  <2>3. CASE Head(tests) = "data_lines"
    BY <2>3, DataLineVisit DEF FillTests
  <2> QED
    BY <1>1, <2>1, <2>2, <2>3 DEF TestNames, FillTests
<1>4. FaultCaught'
  <2>1. CASE fault # NoFault /\ Head(tests) = "marching"
    BY <2>1, FaultVisit
  <2>2. CASE ~(fault # NoFault /\ Head(tests) = "marching")
    BY <1>1, <2>2 DEF FaultCaught
  <2> QED
    BY <2>1, <2>2
<1> QED
  BY <1>2, <1>3, <1>4 DEF MemInv

(* The verdict at the end of a test is exact.                              *)
LEMMA TestEnded == MemInv /\ EndTest => MemInv'
<1> SUFFICES ASSUME MemInv, EndTest PROVE MemInv'
  OBVIOUS
<1>1. /\ tests # <<>> /\ element > Len(Current) /\ tests' = Tail(tests)
      /\ ended' = [test |-> Head(tests), errors |-> errors]
      /\ tally' = [run |-> tally.run + 1,
                   passed |-> tally.passed + (IF errors = 0 THEN 1 ELSE 0),
                   failed |-> tally.failed + (IF errors = 0 THEN 0 ELSE 1),
                   found |-> tally.found + errors]
      /\ element' = 1 /\ position' = 1 /\ errors' = 0
      /\ fault' = fault /\ memory' = memory /\ draws' = draws
  BY DEF EndTest
<1>2. /\ errors \in Nat /\ tally \in [run: Nat, passed: Nat, failed: Nat, found: Nat]
      /\ tests \in Seq(TestNames) /\ MemTypeOK
  BY DEF MemInv, MemTyped, MemTypeOK
<1>3. tests' \in Seq(TestNames)
  BY <1>1, <1>2, HeadTailProperties
<1>4. MemTyped'
  <2>1. MemTypeOK'
    <3>1. tally.run + 1 = tally.passed + (IF errors = 0 THEN 1 ELSE 0)
                            + (tally.failed + (IF errors = 0 THEN 0 ELSE 1))
      BY <1>2 DEF MemTypeOK
    <3>2. tally'.run = tally'.passed + tally'.failed
      BY <1>1, <1>2, <3>1
    <3> QED
      BY <1>1, <1>2, <3>2 DEF MemTypeOK
  <2>2. tally' \in [run: Nat, passed: Nat, failed: Nat, found: Nat]
    <3>1. /\ tally.run + 1 \in Nat /\ tally.found + errors \in Nat
          /\ tally.passed + (IF errors = 0 THEN 1 ELSE 0) \in Nat
          /\ tally.failed + (IF errors = 0 THEN 0 ELSE 1) \in Nat
      BY <1>2
    <3> QED
      BY <1>1, <3>1
  <2> QED
    BY <1>3, <2>1, <2>2 DEF MemTyped
<1>5. TestsExact'
  <2>1. ASSUME Head(tests) = "marching"
        PROVE  errors = 0 <=> fault = NoFault
    <3>1. element > 2
      <4>1. Len(Current) = 3
        BY <2>1, MarchingElements DEF Current
      <4>2. element \in Nat
        BY DEF MemInv, MemTyped, MemTypeOK
      <4> QED
        BY <1>1, <4>1, <4>2
    <3>2. fault # NoFault => errors > 0
      BY <1>1, <2>1, <3>1 DEF MemInv, FaultCaught
    <3>3. fault = NoFault => errors = 0
      BY <1>1, <2>1 DEF MemInv, SoundMemory
    <3> QED
      BY <3>2, <3>3
  <2>2. fault = NoFault /\ Head(tests) # "random" => errors = 0
    BY <1>1 DEF MemInv, SoundMemory
  <2>3. ended'.test = Head(tests) /\ ended'.errors = errors
    BY <1>1
  <2> QED
    BY <1>1, <2>1, <2>2, <2>3 DEF TestsExact
<1> QED
  BY <1>1, <1>3, <1>4, <1>5, TestStarts DEF MemInv

(* No step breaks the invariant.                                           *)
LEMMA MemSteps == MemInv /\ [MemNext]_memVars => MemInv'
<1> SUFFICES ASSUME MemInv, UNCHANGED memVars PROVE MemInv'
  BY TestsBegin, WordVisited, TestEnded DEF MemNext
<1>1. /\ fault' = fault /\ memory' = memory /\ tests' = tests /\ element' = element
      /\ position' = position /\ errors' = errors /\ draws' = draws /\ tally' = tally
      /\ ended' = ended
  BY DEF memVars
<1>2. MemTyped' /\ TestsExact'
  BY <1>1 DEF MemInv, MemTyped, MemTypeOK, TestsExact
<1>3. Current' = Current
  BY <1>1 DEF Current
<1>4. InTest'
  BY <1>1, <1>3 DEF MemInv, InTest
<1>5. Filled' <=> Filled
  BY <1>1, <1>3 DEF Filled, FilledWith
<1>6. Marched' <=> Marched
  BY <1>1 DEF Marched
<1>7. SoundMemory'
  BY <1>1, <1>3, <1>5, <1>6 DEF MemInv, SoundMemory
<1>8. ShownAt' = ShownAt /\ Cell(0)' = Cell(0)
  BY <1>1 DEF ShownAt, Cell, WithBit, BitOf
<1>9. FaultCaught'
  BY <1>1, <1>8 DEF MemInv, FaultCaught
<1> QED
  BY <1>2, <1>4, <1>7, <1>9 DEF MemInv

(* The invariant holds in every reachable state.                           *)
LEMMA MemInvariant == MemSpec => []MemInv
BY MemStarts, MemSteps, PTL DEF MemSpec

(* The marching test finds every fault of the three kinds and no test but  *)
(* the random one complains of a sound memory, for every size of the range *)
(* and width of a word.                                                    *)
THEOREM TestsAreExact == MemSpec => [](MemTypeOK /\ TestsExact)
<1>1. MemInv => MemTypeOK /\ TestsExact
  BY DEF MemInv, MemTyped
<1> QED
  BY <1>1, MemInvariant, PTL
=============================================================================
