--------------------------------- MODULE Fdt --------------------------------
(***************************************************************************)
(* Lookups in a flattened device tree, src/src/fdt.c.  The structure block *)
(* is a sequence of words: tags, names, lengths and the data of the        *)
(* properties, which may look like tags.  An offset counts words from 0.   *)
(*                                                                         *)
(* A blob is given by its tokens, from which Words lays out the block; so  *)
(* what a walk over the words finds can be compared with the tokens.       *)
(***************************************************************************)
EXTENDS Integers, Sequences

CONSTANTS
  Blobs,       \* structure blocks, as sequences of tokens
  Paths,       \* paths that are looked up, as sequences of names
  PropNames,   \* properties that are asked for
  MaxDepth     \* bound on the depth the model counts to; it grows in a lookup
               \* that does not end

ASSUME FdtAssumption == MaxDepth \in Nat

(* Tokens: [tag, name, data], the data of a property in words with the     *)
(* number of bytes of the last one that count.                             *)
BeginNode(name) == [tag |-> "begin", name |-> name, data |-> <<>>, bytes |-> 0]
Prop(name, data, bytes) == [tag |-> "prop", name |-> name, data |-> data, bytes |-> bytes]
EndNode == [tag |-> "end", name |-> "", data |-> <<>>, bytes |-> 0]
Nop == [tag |-> "nop", name |-> "", data |-> <<>>, bytes |-> 0]
Fin == [tag |-> "fin", name |-> "", data |-> <<>>, bytes |-> 0]

StructureCell(text, number) == [text |-> text, number |-> number]

TokenWords(token) ==
  CASE token.tag = "begin" -> <<StructureCell("begin", 0), StructureCell(token.name, 0)>>
    [] token.tag = "prop" ->
         <<StructureCell("prop", 0), StructureCell("", token.bytes), StructureCell(token.name, 0)>>
           \o [i \in 1 .. Len(token.data) |-> StructureCell(token.data[i], 0)]
    [] OTHER -> <<StructureCell(token.tag, 0)>>

(* The words of the first n tokens, for every n.                           *)
Layout(tokens) ==
  LET words[n \in 0 .. Len(tokens)] ==
        IF n = 0 THEN <<>> ELSE words[n - 1] \o TokenWords(tokens[n])
  IN words

Words(tokens) == Layout(tokens)[Len(tokens)]
OffsetOf(tokens, i) == Len(Layout(tokens)[i - 1])

(* What a blob is: a block that begins with the root and ends with FDT_END, *)
(* the data of each property as long as its length says.                   *)
Token == [tag: {"begin", "prop", "end", "nop", "fin"}, name: STRING, data: Seq(STRING), bytes: Nat]
WellFormed(tokens) ==
  /\ tokens # <<>> /\ tokens[1] = BeginNode("") /\ tokens[Len(tokens)] = Fin
  /\ \A i \in 1 .. Len(tokens) :
       tokens[i].tag = "prop" =>
         tokens[i].name # "" /\ (tokens[i].bytes + 3) \div 4 = Len(tokens[i].data)

ASSUME BlobAssumption ==
  /\ Blobs \subseteq Seq(Token) /\ \A tokens \in Blobs : WellFormed(tokens)
  /\ Paths \subseteq Seq(STRING) /\ PropNames \subseteq STRING

VARIABLES
  blob,      \* the tree that is looked at
  path,      \* components of the running fdt_path_offset still to find
  wanted,    \* ghost: the last component of the path
  stage,     \* "idle", "walk" in fdt_next_node, "compare" its result, or
             \* "search" in fdt_getprop
  offset,    \* the offset variable of fdt_next_node
  ptr,
  depth, current_depth,
  node,      \* the result of the lookup: an offset, or -1 for any error
  name,      \* the property that is searched for
  prop_data  \* where fdt_getprop found its data, -1 for NULL

fdtVars == <<blob, path, wanted, stage, offset, ptr, depth, current_depth, node, name, prop_data>>

Structure == Words(blob)
At(p) == Structure[p + 1]

FdtInit ==
  /\ blob \in Blobs
  /\ path = <<>> /\ wanted = ""
  /\ stage = "idle" /\ offset = 0 /\ ptr = 0
  /\ depth = 0 /\ current_depth = 0
  /\ node = -1
  /\ name = "" /\ prop_data = -1

-----------------------------------------------------------------------------
(* fdt_path_offset.  The root is answered at once.                         *)
fdt_path_offset(p) ==
  /\ stage = "idle"
  /\ name' = "" /\ prop_data' = -1
  /\ depth' = 0 /\ current_depth' = 0
  /\ offset' = 0 /\ ptr' = 0
  /\ wanted' = IF p = <<>> THEN "" ELSE p[Len(p)]
  /\ IF p = <<>>
     THEN stage' = "idle" /\ node' = 0 /\ path' = <<>>
     ELSE stage' = "walk" /\ node' = -1 /\ path' = p
  /\ UNCHANGED blob

(* fdt_next_node, a turn of its loop for each tag.                         *)
WalkAt(kind) == stage = "walk" /\ ptr < Len(Structure) /\ At(ptr).text = kind

WalkOn(n) == ptr' = ptr + n /\ UNCHANGED <<stage, depth, node>>
Unfound ==
  /\ stage' = "idle" /\ node' = -1
  /\ path' = <<>>
  /\ UNCHANGED <<offset, ptr, depth, current_depth>>

WalkRoot ==
  /\ WalkAt("begin") /\ offset = 0
  /\ WalkOn(2)
  /\ offset' = ptr + 2
  /\ UNCHANGED <<blob, path, wanted, current_depth, name, prop_data>>

(* A begin tag is returned, also the one the walk started at.              *)
WalkNode ==
  /\ WalkAt("begin") /\ offset > 0
  /\ stage' = "compare"
  /\ node' = ptr
  /\ current_depth' = IF current_depth < MaxDepth THEN current_depth + 1 ELSE current_depth
  /\ depth' = current_depth'
  /\ UNCHANGED <<blob, path, wanted, offset, ptr, name, prop_data>>

WalkEnd ==
  /\ WalkAt("end")
  /\ IF current_depth = 0 THEN Unfound
     ELSE current_depth' = current_depth - 1 /\ WalkOn(1) /\ UNCHANGED <<path, offset>>
  /\ UNCHANGED <<blob, wanted, name, prop_data>>

(* The words of a property: tag, length, name and the data, rounded up.    *)
(* Mutant: the data is not rounded up.                                     *)
MutPropWords(p) == 3 + At(p + 1).number \div 4
PropWords(p) == 3 + (At(p + 1).number + 3) \div 4

WalkProp ==
  /\ WalkAt("prop")
  /\ WalkOn(PropWords(ptr))
  /\ UNCHANGED <<blob, path, wanted, offset, current_depth, name, prop_data>>

WalkNop ==
  /\ WalkAt("nop")
  /\ WalkOn(1)
  /\ UNCHANGED <<blob, path, wanted, offset, current_depth, name, prop_data>>

(* FDT_END, a tag that is none, or the end of the block.                   *)
WalkOut ==
  /\ stage = "walk"
  /\ ptr < Len(Structure) => At(ptr).text \notin {"begin", "end", "prop", "nop"}
  /\ Unfound
  /\ UNCHANGED <<blob, wanted, name, prop_data>>

(* fdt_get_name and the comparison; the next walk starts at the node.      *)
CompareName ==
  /\ stage = "compare"
  /\ offset' = node /\ ptr' = node /\ current_depth' = depth
  /\ path' = IF At(node + 1).text = Head(path) THEN Tail(path) ELSE path
  /\ stage' = IF path' = <<>> THEN "idle" ELSE "walk"
  /\ UNCHANGED <<blob, wanted, depth, node, name, prop_data>>

-----------------------------------------------------------------------------
(* fdt_getprop on the node that was found.  fdt_getprop_u32, _u64 and      *)
(* _string read the data if the length fits, fdt_get_reg three words of it.*)
fdt_getprop(n) ==
  /\ stage = "idle" /\ node >= 0
  /\ stage' = "search"
  /\ name' = n
  /\ prop_data' = -1
  /\ ptr' = node + 2
  /\ UNCHANGED <<blob, path, wanted, offset, depth, current_depth, node>>

SearchNext ==
  /\ stage = "search" /\ At(ptr).text \in {"prop", "nop"}
  /\ ~(At(ptr).text = "prop" /\ At(ptr + 2).text = name)
  /\ ptr' = ptr + (IF At(ptr).text = "nop" THEN 1 ELSE PropWords(ptr))
  /\ UNCHANGED <<blob, path, wanted, stage, offset, depth, current_depth, node, name, prop_data>>

SearchFound ==
  /\ stage = "search" /\ At(ptr).text = "prop" /\ At(ptr + 2).text = name
  /\ prop_data' = ptr + 3
  /\ stage' = "idle"
  /\ UNCHANGED <<blob, path, wanted, offset, ptr, depth, current_depth, node, name>>

SearchOut ==
  /\ stage = "search" /\ At(ptr).text \notin {"prop", "nop"}
  /\ stage' = "idle"
  /\ UNCHANGED <<blob, path, wanted, offset, ptr, depth, current_depth, node, name, prop_data>>

Walk == WalkRoot \/ WalkNode \/ WalkEnd \/ WalkProp \/ WalkNop \/ WalkOut \/ CompareName
Search == SearchNext \/ SearchFound \/ SearchOut

FdtNext ==
  \/ \E p \in Paths : fdt_path_offset(p)
  \/ \E n \in PropNames : fdt_getprop(n)
  \/ Walk \/ Search

(* A call goes on: nothing in it waits.                                    *)
FdtSpec == FdtInit /\ [][FdtNext]_fdtVars /\ WF_fdtVars(Walk \/ Search)

-----------------------------------------------------------------------------
FdtTypeOK ==
  /\ blob \in Blobs /\ name \in PropNames \cup {""}
  /\ stage \in {"idle", "walk", "compare", "search"}
  /\ {offset, ptr} \subseteq 0 .. Len(Structure)
  /\ {depth, current_depth} \subseteq 0 .. MaxDepth
  /\ {node, prop_data} \subseteq -1 .. Len(Structure)

(* The properties of the node that begins at token i: those up to the next *)
(* node or the end of this one.                                            *)
PropsOf(i) ==
  {j \in (i + 1) .. Len(blob) :
     /\ blob[j].tag = "prop"
     /\ \A k \in (i + 1) .. j : blob[k].tag \in {"prop", "nop"}}

(* What a lookup finds is a node with the name asked for, and a property   *)
(* is found exactly if that node has it, with its own data: data that      *)
(* looks like tags, lengths that are no multiple of four and empty words   *)
(* between the properties lead neither walk astray.                        *)
FoundInTree ==
  stage = "idle" /\ node >= 0 =>
    \E i \in 1 .. Len(blob) :
      /\ blob[i].tag = "begin" /\ blob[i].name = wanted
      /\ OffsetOf(blob, i) = node
      /\ LET named == {j \in PropsOf(i) : blob[j].name = name}
         IN IF named = {} THEN prop_data = -1
            ELSE \E j \in named : OffsetOf(blob, j) + 3 = prop_data

(* docs/ENHANCEMENTS_PHASE2.md:112 promises path lookup, and its example   *)
(* looks up a node two levels down: a lookup ends.                         *)
LookupEnds == (stage = "walk") ~> (stage = "idle")
=============================================================================
