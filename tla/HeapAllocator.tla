---------------------------- MODULE HeapAllocator ---------------------------
(***************************************************************************)
(* The bootloader's heap, src/src/memory.c: a first-fit allocator whose    *)
(* block headers lie inside the heap, linked in address order.  Addresses  *)
(* are offsets from HEAP_START, sizes are bytes.                           *)
(*                                                                         *)
(* The callers keep their side of the contract: they free what malloc gave *)
(* them, once.  A failing malloc returns NULL and changes nothing.         *)
(***************************************************************************)
EXTENDS Naturals

CONSTANTS
  HeapSize,      \* HEAP_SIZE
  SizeModulus,   \* 2^32 or 2^64: the width of size_t
  Requests       \* the sizes callers ask for

HeaderSize == 24    \* sizeof(mem_block_t) with 64-bit pointers

ASSUME HeapAssumption ==
  /\ HeapSize \in Nat /\ HeapSize > HeaderSize
  /\ SizeModulus \in Nat /\ SizeModulus % 8 = 0 /\ SizeModulus > HeapSize + HeaderSize + 8
  /\ Requests \subseteq 1 .. (SizeModulus - 1)

Null == HeapSize    \* no header is there

VARIABLES
  blocks,   \* the headers on the list: address -> [size, free, next]
  live      \* ghost: address of an allocated header -> the size asked for

heapVars == <<blocks, live>>

-----------------------------------------------------------------------------
(* Mutant: rounds down.                                                    *)
MutAlignDown(n) == n - (n % 8)

(* (size + 7) & ~7, in the width of size_t.                                *)
AlignUp(n) == LET s == (n + 7) % SizeModulus IN s - (s % 8)

End(a) == a + HeaderSize + blocks[a].size

(* memory_init.                                                            *)
HeapInit ==
  /\ blocks = [a \in {0} |-> [size |-> HeapSize - HeaderSize, free |-> TRUE, next |-> Null]]
  /\ live = [a \in {} |-> 0]

(* Mutant: the free mark is not looked at.                                 *)
MutFitsUsed(a, size) == blocks[a].size >= size

(* The block the walk of malloc stops at: the first that is large enough.  *)
Fits(a, size) == blocks[a].free /\ blocks[a].size >= size
FirstFit(a, size) == Fits(a, size) /\ \A b \in DOMAIN blocks : Fits(b, size) => a <= b

(* Is what is left of the block worth a header of its own?                 *)
Splits(a, size) == blocks[a].size > size + HeaderSize + 8

(* Mutant: the new header is not taken off the remainder.                  *)
MutSplitWhole(a, size) ==
  LET rest == a + HeaderSize + size
  IN [b \in DOMAIN blocks \cup {rest} |->
        IF b = rest THEN [size |-> blocks[a].size - size, free |-> TRUE,
                          next |-> blocks[a].next]
        ELSE IF b = a THEN [size |-> size, free |-> FALSE, next |-> rest]
        ELSE blocks[b]]

(* The headers after block a was cut to size bytes and taken.              *)
SplitBlocks(a, size) ==
  LET rest == a + HeaderSize + size
  IN [b \in DOMAIN blocks \cup {rest} |->
        IF b = rest THEN [size |-> blocks[a].size - size - HeaderSize, free |-> TRUE,
                          next |-> blocks[a].next]
        ELSE IF b = a THEN [size |-> size, free |-> FALSE, next |-> rest]
        ELSE blocks[b]]

(* malloc, when it succeeds.                                               *)
Malloc(n) ==
  \E a \in DOMAIN blocks :
    /\ FirstFit(a, AlignUp(n))
    /\ blocks' = IF Splits(a, AlignUp(n)) THEN SplitBlocks(a, AlignUp(n))
                 ELSE [blocks EXCEPT ![a].free = FALSE]
    /\ live' = [b \in DOMAIN live \cup {a} |-> IF b = a THEN n ELSE live[b]]

(* Mutant: a block in use is merged, too.                                  *)
MutCoalescesAny(a) == blocks[a].next # Null

(* Does free merge block a with the block after it?                        *)
Coalesces(a) == blocks[a].next # Null /\ blocks[blocks[a].next].free

(* The headers after block a absorbed the block after it.                  *)
MergedBlocks(a) ==
  LET next == blocks[a].next
  IN [b \in DOMAIN blocks \ {next} |->
        IF b = a THEN [size |-> blocks[a].size + HeaderSize + blocks[next].size, free |-> TRUE,
                       next |-> blocks[next].next]
        ELSE blocks[b]]

Free(a) ==
  /\ a \in DOMAIN live
  /\ blocks' = IF Coalesces(a) THEN MergedBlocks(a) ELSE [blocks EXCEPT ![a].free = TRUE]
  /\ live' = [b \in DOMAIN live \ {a} |-> live[b]]

HeapNext ==
  \/ \E n \in Requests : Malloc(n)
  \/ \E a \in DOMAIN live : Free(a)

HeapSpec == HeapInit /\ [][HeapNext]_heapVars

-----------------------------------------------------------------------------
Block == [size: Nat, free: BOOLEAN, next: Nat]

HeapTypeOK ==
  /\ DOMAIN blocks \subseteq Nat
  /\ \A a \in DOMAIN blocks : blocks[a] \in Block
  /\ DOMAIN live \subseteq DOMAIN blocks
  /\ \A a \in DOMAIN live : live[a] \in Requests

(* The headers tile the heap: the first is at its start, each points at    *)
(* the byte after its own block, and no two blocks share a byte.           *)
Tiling ==
  /\ 0 \in DOMAIN blocks
  /\ \A a \in DOMAIN blocks :
       /\ a + HeaderSize <= HeapSize
       /\ End(a) <= HeapSize
       /\ blocks[a].next = End(a)
       /\ End(a) # Null => End(a) \in DOMAIN blocks
  /\ \A a, b \in DOMAIN blocks : a < b => End(a) <= b

(* Every allocation a caller holds has the room it asked for, so with      *)
(* Tiling no two of them overlap and none reaches a header.  The one       *)
(* request without room is one that rounds up past the width of size_t.    *)
EnoughRoom ==
  \A a \in DOMAIN live : live[a] + 7 < SizeModulus => blocks[a].size >= live[a]

(* A block is free exactly when no caller holds it: merging and splitting  *)
(* neither lose one nor give one out twice.                                *)
FreeUnlessLive == \A a \in DOMAIN blocks : blocks[a].free <=> a \notin DOMAIN live

(* Neither malloc nor free touches a block that a caller holds, other than *)
(* the one that is given back: no block is given out twice, cut or merged  *)
(* under its owner.                                                        *)
HeldStep ==
  \A a \in DOMAIN live \cap DOMAIN live' :
    live'[a] = live[a] /\ blocks'[a].size = blocks[a].size
HeldBlocksUntouched == [][HeldStep]_heapVars
=============================================================================
