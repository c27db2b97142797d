------------------------------- MODULE MemTest ------------------------------
(***************************************************************************)
(* The memory tests of src/src/memtest.c on a memory that may have a fault.*)
(*                                                                         *)
(* A test is a sequence of elements, as march tests are written down: an   *)
(* element visits words in an order and does a few reads and writes at     *)
(* each.  A step visits one word.  Words have a few bits, and the pseudo-  *)
(* random numbers, whose period is 2^32 - 1, are 0, 1, 2, ...              *)
(***************************************************************************)
EXTENDS Naturals, Sequences

CONSTANTS
  AddressBits,  \* the tested range has 2^AddressBits words
  DataBits,     \* 32
  Faults,       \* faults the memory may have
  Iterations    \* of the random test: 3

ASSUME MemAssumption ==
  /\ AddressBits \in Nat \ {0} /\ DataBits \in Nat \ {0} /\ Iterations \in Nat
  /\ AddressBits <= DataBits  \* an address fits in a word

VARIABLES
  fault,
  memory,      \* the cells
  tests,       \* tests of the running call still to do, the current one first
  element,     \* its element, and the position in it
  position,
  errors,      \* errors of the current test
  draws,       \* prng_state: numbers drawn so far
  tally,       \* the caller's memtest_result_t, without the last error
  ended        \* ghost: the test that ended last and its errors

memVars == <<fault, memory, tests, element, position, errors, draws, tally, ended>>

Power[n \in 0 .. DataBits] == IF n = 0 THEN 1 ELSE 2 * Power[n - 1]

MemWords == Power[AddressBits]
WordValues == Power[DataBits]
Addresses == 0 .. (MemWords - 1)
AllOnes == WordValues - 1
Bits == 0 .. (DataBits - 1)
AddressLines == 0 .. (AddressBits - 1)

-----------------------------------------------------------------------------
(* The memory, which is no part of the code: a bit of one cell is stuck,   *)
(* an address line is stuck, or two address lines are shorted and both low *)
(* unless both are driven high.                                            *)
NoFault == [kind |-> "none", at |-> 0, bit |-> 0, level |-> 0]
StuckBits == [kind: {"cell"}, at: Addresses, bit: Bits, level: {0, 1}]
StuckLines == [kind: {"line"}, at: {0}, bit: AddressLines, level: {0, 1}]
ShortedLines ==
  {f \in [kind: {"short"}, at: AddressLines, bit: AddressLines, level: {0}] : f.at < f.bit}
MemoryFaults == StuckBits \cup StuckLines \cup ShortedLines

ASSUME FaultAssumption == Faults \subseteq MemoryFaults

BitOf(n, bit) == (n \div Power[bit]) % 2
WithBit(n, bit, level) == n - BitOf(n, bit) * Power[bit] + level * Power[bit]

Cell(a) ==
  CASE fault.kind = "line" -> WithBit(a, fault.bit, fault.level)
    [] fault.kind = "short" /\ BitOf(a, fault.at) # BitOf(a, fault.bit) ->
         WithBit(WithBit(a, fault.at, 0), fault.bit, 0)
    [] OTHER -> a

Load(cells, a) ==
  IF fault.kind = "cell" /\ Cell(a) = fault.at
  THEN WithBit(cells[Cell(a)], fault.bit, fault.level) ELSE cells[Cell(a)]

-----------------------------------------------------------------------------
(* The tests.  An operation writes or checks one value, the word's address *)
(* or the next random number.                                              *)
Write(v) == [op |-> "write", data |-> "value", value |-> v]
Check(v) == [op |-> "check", data |-> "value", value |-> v]
WriteOf(source) == [op |-> "write", data |-> source, value |-> 0]
CheckOf(source) == [op |-> "check", data |-> source, value |-> 0]

Upward == [i \in 1 .. MemWords |-> i - 1]
Downward == [i \in 1 .. MemWords |-> MemWords - i]
PowersOfTwo == [i \in 1 .. AddressBits |-> Power[i - 1]]

Up(ops) == [visits |-> Upward, ops |-> ops]

memtest_pattern(v) == << Up(<<Write(v)>>), Up(<<Check(v)>>) >>

Stripes(low) ==
  LET sum[n \in 0 .. DataBits] ==
        IF n = 0 THEN 0 ELSE sum[n - 1] + ((n - 1 + low) % 2) * Power[n - 1]
  IN sum[DataBits]

ForEachBit(patterns) ==
  [i \in 1 .. 2 * DataBits |-> memtest_pattern(patterns[(i - 1) \div 2])[1 + ((i - 1) % 2)]]

memtest_walking_ones == ForEachBit([bit \in Bits |-> Power[bit]])
memtest_walking_zeros == ForEachBit([bit \in Bits |-> AllOnes - Power[bit]])

(* The first word itself is not visited.                                   *)
memtest_address_lines ==
  << [visits |-> PowersOfTwo, ops |-> <<WriteOf("address")>>],
     [visits |-> PowersOfTwo, ops |-> <<CheckOf("address")>>] >>

memtest_data_lines ==
  [i \in 1 .. DataBits |->
     [visits |-> <<0>>, ops |-> <<Write(Power[i - 1]), Check(Power[i - 1])>>]]

(* prng_seed(prng_state) between the elements changes nothing.             *)
memtest_random ==
  [i \in 1 .. 2 * Iterations |->
     Up(<<IF i % 2 = 1 THEN WriteOf("random") ELSE CheckOf("random")>>)]

(* Mutant: each pass writes or checks the whole range, as the pattern      *)
(* tests do.                                                               *)
MutMarching ==
  << Up(<<Write(0)>>), Up(<<Write(AllOnes)>>), Up(<<Check(AllOnes)>>) >>

memtest_marching ==
  << Up(<<Write(0)>>),
     Up(<<Check(0), Write(AllOnes), Check(AllOnes)>>),
     [visits |-> Downward, ops |-> <<Check(AllOnes), Write(0), Check(0)>>] >>

Elements(test) ==
  CASE test = "zeros" -> memtest_pattern(0)
    [] test = "ones" -> memtest_pattern(AllOnes)
    [] test = "odd" -> memtest_pattern(Stripes(0))
    [] test = "even" -> memtest_pattern(Stripes(1))
    [] test = "walking_ones" -> memtest_walking_ones
    [] test = "walking_zeros" -> memtest_walking_zeros
    [] test = "address_lines" -> memtest_address_lines
    [] test = "data_lines" -> memtest_data_lines
    [] test = "random" -> memtest_random
    [] test = "marching" -> memtest_marching

Patterns == <<"zeros", "ones", "odd", "even">>
memtest_quick == Patterns
memtest_comprehensive ==
  <<"data_lines", "address_lines">> \o Patterns
    \o <<"walking_ones", "walking_zeros", "marching", "random">>
Calls == {memtest_quick, memtest_comprehensive}

-----------------------------------------------------------------------------
NoTally == [run |-> 0, passed |-> 0, failed |-> 0, found |-> 0]

MemInit ==
  /\ fault \in Faults \cup {NoFault}
  /\ memory = [a \in Addresses |-> 0]
  /\ tests = <<>> /\ element = 1 /\ position = 1
  /\ errors = 0 /\ draws = 0
  /\ tally = NoTally
  /\ ended = [test |-> "none", errors |-> 0]

(* memtest_init, and a call with a cleared result.                         *)
BeginTests ==
  /\ tests = <<>>
  /\ tests' \in Calls
  /\ draws' = 0
  /\ tally' = NoTally
  /\ UNCHANGED <<fault, memory, element, position, errors, ended>>

(* One operation on the word a, in a record of the cells, the errors and   *)
(* the numbers drawn.                                                      *)
Operate(now, op, a) ==
  LET datum == CASE op.data = "value" -> op.value
                 [] op.data = "address" -> a
                 [] op.data = "random" -> now.draws % WordValues
      drawn == IF op.data = "random" THEN now.draws + 1 ELSE now.draws
  IN IF op.op = "write"
     THEN [now EXCEPT !.cells[Cell(a)] = datum, !.draws = drawn]
     ELSE [now EXCEPT !.errors = @ + (IF Load(now.cells, a) = datum THEN 0 ELSE 1), !.draws = drawn]

(* All operations of an element on the word a, in their order.             *)
Operated(ops, a) ==
  LET after[n \in 0 .. Len(ops)] ==
        IF n = 0 THEN [cells |-> memory, errors |-> errors, draws |-> draws]
        ELSE Operate(after[n - 1], ops[n], a)
  IN after[Len(ops)]

Current == Elements(Head(tests))

VisitWord ==
  /\ tests # <<>> /\ element <= Len(Current)
  /\ LET e == Current[element]
         after == Operated(e.ops, e.visits[position])
     IN /\ memory' = after.cells /\ errors' = after.errors /\ draws' = after.draws
        /\ IF position < Len(e.visits)
           THEN position' = position + 1 /\ UNCHANGED element
           ELSE position' = 1 /\ element' = element + 1
  /\ UNCHANGED <<fault, tests, tally, ended>>

(* record_error has counted on the way; the test passed without one.       *)
EndTest ==
  /\ tests # <<>> /\ element > Len(Current)
  /\ ended' = [test |-> Head(tests), errors |-> errors]
  /\ tally' = [run |-> tally.run + 1,
               passed |-> tally.passed + (IF errors = 0 THEN 1 ELSE 0),
               failed |-> tally.failed + (IF errors = 0 THEN 0 ELSE 1),
               found |-> tally.found + errors]
  /\ tests' = Tail(tests)
  /\ element' = 1 /\ position' = 1 /\ errors' = 0
  /\ UNCHANGED <<fault, memory, draws>>

MemNext == BeginTests \/ VisitWord \/ EndTest
MemSpec == MemInit /\ [][MemNext]_memVars

-----------------------------------------------------------------------------
MemTypeOK ==
  /\ fault \in Faults \cup {NoFault}
  /\ memory \in [Addresses -> 0 .. AllOnes]
  /\ element \in Nat /\ position \in Nat /\ errors \in Nat /\ draws \in Nat
  /\ tally.run = tally.passed + tally.failed

(* The marching test reports errors exactly when the memory has a stuck    *)
(* bit, a stuck address line or two that are shorted, and no other test    *)
(* finds errors in a sound memory; but for the random one, which compares  *)
(* with numbers other than those it wrote.                                 *)
TestsExact ==
  /\ ended.test = "marching" => (ended.errors = 0 <=> fault = NoFault)
  /\ fault = NoFault /\ ended.test # "random" => ended.errors = 0
=============================================================================
