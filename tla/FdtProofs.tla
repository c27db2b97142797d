------------------------------ MODULE FdtProofs -----------------------------
(***************************************************************************)
(* What fdt_path_offset and fdt_getprop return lies in the tree, for every *)
(* block that is laid out as the format says, every path and every name.   *)
(*                                                                         *)
(* The walks go over words and the promise is about tokens, so the first   *)
(* part shows what Words makes of the tokens: at the offset of a token     *)
(* stand its own words, and the next token begins behind them. It is       *)
(* proved from the recursive function Layout by the least number of tokens *)
(* for which it fails.                                                     *)
(*                                                                         *)
(* The invariant then says that every offset the code holds is the offset  *)
(* of a token; that a node that has been found is one, and has the name    *)
(* when the path is used up; and that fdt_getprop has passed only          *)
(* properties of that node, each with another name. Data that looks like   *)
(* tags cannot lead a walk astray because no walk ever looks between the   *)
(* tokens.                                                                 *)
(***************************************************************************)
EXTENDS Fdt, SequenceTheorems, WellFoundedInduction, TLAPS

(* A set of numbers that is not empty has a least one.                     *)
LEMMA LeastOf ==
  ASSUME NEW S, S \subseteq Nat, S # {}
  PROVE  \E x \in S : \A y \in S : x <= y
<1>1. PICK x \in S : \A y \in S : ~(<<y, x>> \in OpToRel(<, Nat))
  <2>1. \E x \in S : \A y \in S : ~(<<y, x>> \in OpToRel(<, Nat))
    BY NatLessThanWellFounded, WFMin
  <2> QED
    BY <2>1
<1>2. ASSUME NEW y \in S, y < x
      PROVE  FALSE
  <2>1. <<y, x>> \in Nat \X Nat /\ <<y, x>>[1] = y /\ <<y, x>>[2] = x
    OBVIOUS
  <2>2. <<y, x>> \in OpToRel(<, Nat)
    BY <1>2, <2>1, Zenon DEF OpToRel
  <2> QED
    BY <1>1, <2>2
<1> QED
  BY <1>2

-----------------------------------------------------------------------------
(* The layout of a block exists, and what a token adds to it.              *)
TagTexts == {"begin", "prop", "end", "nop", "fin", ""}
WordCell == [text: STRING \cup TagTexts, number: Nat]
IsLayout(tokens, words, n) ==
  words = [i \in 0 .. n |-> IF i = 0 THEN <<>> ELSE words[i - 1] \o TokenWords(tokens[i])]

(* There is a function that the recursion of Layout defines, for any n.    *)
LEMMA LayoutExists ==
  ASSUME NEW tokens
  PROVE  \A n \in Nat : \E words : IsLayout(tokens, words, n)
<1> DEFINE bad == {n \in Nat : ~ \E words : IsLayout(tokens, words, n)}
<1> SUFFICES ASSUME bad # {} PROVE FALSE
  OBVIOUS
<1>1. PICK n \in bad : \A m \in bad : n <= m
  BY LeastOf
<1>2. CASE n = 0
  <2>1. IsLayout(tokens, [i \in 0 .. 0 |-> <<>>], 0)
    BY DEF IsLayout
  <2> QED
    BY <1>2, <2>1
<1>3. CASE n # 0
  <2>1. n \in Nat /\ n - 1 \in Nat /\ n - 1 \notin bad
    BY <1>1, <1>3
  <2>2. PICK before : IsLayout(tokens, before, n - 1)
    BY <2>1
  <2> DEFINE words == [i \in 0 .. n |-> IF i = n THEN before[n - 1] \o TokenWords(tokens[n])
                                                 ELSE before[i]]
  <2>3. ASSUME NEW i \in 0 .. n
        PROVE  words[i] = IF i = 0 THEN <<>> ELSE words[i - 1] \o TokenWords(tokens[i])
    <3>1. CASE i = n
      BY <1>3, <2>1, <3>1
    <3>2. CASE i # n
      <4>1. i \in 0 .. (n - 1)
        BY <2>1, <3>2
      <4>2. before[i] = IF i = 0 THEN <<>> ELSE before[i - 1] \o TokenWords(tokens[i])
        BY <2>2, <4>1 DEF IsLayout
      <4>3. words[i] = before[i] /\ (i # 0 => words[i - 1] = before[i - 1])
        BY <2>1, <3>2, <4>1
      <4> QED
        BY <4>2, <4>3
    <3> QED
      BY <3>1, <3>2
  <2>4. words = [i \in 0 .. n |-> words[i]]
    OBVIOUS
  <2> HIDE DEF words
  <2>5. IsLayout(tokens, words, n)
    BY <2>3, <2>4 DEF IsLayout
  <2> QED
    BY <1>1, <2>5
<1> QED
  BY <1>2, <1>3

(* So Layout has the values its recursion gives it.                        *)
LEMMA LayoutDef ==
  ASSUME NEW tokens, Len(tokens) \in Nat
  PROVE  /\ Layout(tokens)[0] = <<>>
         /\ \A n \in 1 .. Len(tokens) :
              Layout(tokens)[n] = Layout(tokens)[n - 1] \o TokenWords(tokens[n])
<1> DEFINE chosen == CHOOSE w : w = [n \in 0 .. Len(tokens) |->
                       IF n = 0 THEN <<>> ELSE w[n - 1] \o TokenWords(tokens[n])]
<1>1. Layout(tokens) = chosen
  BY DEF Layout
<1>2. \E w : w = [n \in 0 .. Len(tokens) |->
                    IF n = 0 THEN <<>> ELSE w[n - 1] \o TokenWords(tokens[n])]
  BY LayoutExists DEF IsLayout
<1>3. chosen = [n \in 0 .. Len(tokens) |->
                  IF n = 0 THEN <<>> ELSE chosen[n - 1] \o TokenWords(tokens[n])]
  BY <1>2
<1> HIDE DEF chosen
<1> QED
  BY <1>1, <1>3

(* What a token is laid out as: how many words, and what stands in them.   *)
LEMMA TokenWordsSeq ==
  ASSUME NEW token \in Token
  PROVE  /\ TokenWords(token) \in Seq(WordCell) /\ TokenWords(token) # <<>>
         /\ TokenWords(token)[1].text = token.tag
         /\ Len(TokenWords(token)) = IF token.tag = "begin" THEN 2
                                     ELSE IF token.tag = "prop" THEN 3 + Len(token.data) ELSE 1
         /\ token.tag = "begin" => TokenWords(token)[2].text = token.name
         /\ token.tag = "prop" => /\ TokenWords(token)[2].number = token.bytes
                                  /\ TokenWords(token)[3].text = token.name
<1>1. token.tag \in {"begin", "prop", "end", "nop", "fin"} /\ token.name \in STRING /\ token.data \in Seq(STRING) /\ token.bytes \in Nat
  BY DEF Token
<1>2. \A a \in STRING \cup TagTexts, b \in Nat : StructureCell(a, b) \in WordCell /\ StructureCell(a, b).text = a
                                   /\ StructureCell(a, b).number = b
  BY DEF StructureCell, WordCell
<1>3. CASE token.tag = "begin"
  <2> DEFINE x == StructureCell("begin", 0)
             y == StructureCell(token.name, 0)
  <2>1. x \in WordCell /\ y \in WordCell /\ x.text = "begin" /\ y.text = token.name
    BY <1>1, <1>2 DEF TagTexts
  <2>2. TokenWords(token) = <<x, y>>
    BY <1>3 DEF TokenWords
  <2> HIDE DEF x, y
  <2>3. <<x, y>> \in Seq(WordCell) /\ Len(<<x, y>>) = 2 /\ <<x, y>>[1] = x /\ <<x, y>>[2] = y
    BY <2>1
  <2> QED
    BY <1>3, <2>1, <2>2, <2>3
<1>4. CASE token.tag = "prop"
  <2> DEFINE x == StructureCell("prop", 0)
             y == StructureCell("", token.bytes)
             z == StructureCell(token.name, 0)
             head == <<x, y, z>>
             data == [i \in 1 .. Len(token.data) |-> StructureCell(token.data[i], 0)]
  <2>1. /\ x \in WordCell /\ y \in WordCell /\ z \in WordCell
        /\ x.text = "prop" /\ y.number = token.bytes /\ z.text = token.name
    BY <1>1, <1>2 DEF TagTexts
  <2>2. TokenWords(token) = head \o data
    BY <1>4 DEF TokenWords
  <2> HIDE DEF x, y, z
  <2>3. head \in Seq(WordCell) /\ Len(head) = 3 /\ head[1] = x /\ head[2] = y /\ head[3] = z
    BY <2>1
  <2>4. data \in Seq(WordCell) /\ Len(data) = Len(token.data) /\ Len(token.data) \in Nat
    <3>1. \A i \in 1 .. Len(token.data) : token.data[i] \in STRING
      BY <1>1, ElementOfSeq
    <3>2. \A i \in 1 .. Len(token.data) : StructureCell(token.data[i], 0) \in WordCell
      BY <1>2, <3>1
    <3>3. Len(token.data) \in Nat
      BY <1>1
    <3> QED
      BY <3>2, <3>3
  <2> HIDE DEF head, data
  <2>5. /\ head \o data \in Seq(WordCell) /\ Len(head \o data) = Len(head) + Len(data)
        /\ \A i \in 1 .. Len(head) + Len(data) :
             (head \o data)[i] = IF i <= Len(head) THEN head[i] ELSE data[i - Len(head)]
    <3>1. head \in Seq(WordCell) /\ data \in Seq(WordCell)
      BY <2>3, <2>4
    <3> QED
      BY <3>1, ConcatProperties
  <2>6. (head \o data)[1] = x /\ (head \o data)[2] = y /\ (head \o data)[3] = z
    BY <2>3, <2>4, <2>5
  <2>7. head \o data # <<>>
    BY <2>3, <2>4, <2>5, EmptySeq
  <2> QED
    BY <1>4, <2>1, <2>2, <2>3, <2>4, <2>5, <2>6, <2>7
<1>5. CASE token.tag # "begin" /\ token.tag # "prop"
  <2> DEFINE x == StructureCell(token.tag, 0)
  <2>1. x \in WordCell /\ x.text = token.tag
    BY <1>1, <1>2 DEF TagTexts
  <2>2. TokenWords(token) = <<x>>
    BY <1>5 DEF TokenWords
  <2> HIDE DEF x
  <2>3. <<x>> \in Seq(WordCell) /\ Len(<<x>>) = 1 /\ <<x>>[1] = x
    BY <2>1
  <2> QED
    BY <1>5, <2>1, <2>2, <2>3
<1> QED
  BY <1>3, <1>4, <1>5

(* The words of the first tokens begin those of more tokens.               *)
LEMMA LayoutGrows ==
  ASSUME NEW tokens \in Seq(Token)
  PROVE  /\ \A n \in 0 .. Len(tokens) : Layout(tokens)[n] \in Seq(WordCell)
         /\ \A n \in 0 .. Len(tokens) : \A m \in 0 .. n :
              /\ Len(Layout(tokens)[m]) <= Len(Layout(tokens)[n])
              /\ \A p \in 1 .. Len(Layout(tokens)[m]) : Layout(tokens)[n][p] = Layout(tokens)[m][p]
<1> DEFINE laid(n) == Layout(tokens)[n]
           begins(m, n) == /\ Len(laid(m)) <= Len(laid(n))
                           /\ \A p \in 1 .. Len(laid(m)) : laid(n)[p] = laid(m)[p]
           bad == {n \in 0 .. Len(tokens) :
                     ~(laid(n) \in Seq(WordCell) /\ \A m \in 0 .. n : begins(m, n))}
<1>1. Len(tokens) \in Nat /\ \A i \in 1 .. Len(tokens) : tokens[i] \in Token
  BY ElementOfSeq, LenProperties
<1>2. /\ laid(0) = <<>>
      /\ \A n \in 1 .. Len(tokens) : laid(n) = laid(n - 1) \o TokenWords(tokens[n])
  BY <1>1, LayoutDef
<1> HIDE DEF laid
<1>3. bad = {}
  <2> SUFFICES ASSUME bad # {} PROVE FALSE
    OBVIOUS
  <2>1. bad \subseteq Nat
    BY <1>1
  <2>2. PICK n \in bad : \A m \in bad : n <= m
    BY <2>1, LeastOf
  <2>3. n # 0
    <3> SUFFICES ASSUME n = 0 PROVE FALSE
      OBVIOUS
    <3>1. laid(0) \in Seq(WordCell) /\ Len(laid(0)) = 0
      BY <1>2, EmptySeq
    <3>2. \A m \in 0 .. 0 : begins(m, 0)
      BY <3>1
    <3> QED
      BY <2>2, <3>1, <3>2
  <2>4. n \in 1 .. Len(tokens) /\ n - 1 \in 0 .. Len(tokens) /\ n - 1 \notin bad
    BY <1>1, <2>2, <2>3
  <2>5. laid(n - 1) \in Seq(WordCell) /\ \A m \in 0 .. (n - 1) : begins(m, n - 1)
    BY <2>4
  <2>6. TokenWords(tokens[n]) \in Seq(WordCell)
    BY <1>1, <2>4, TokenWordsSeq
  <2>7. laid(n) \in Seq(WordCell) /\ begins(n - 1, n)
    <3>1. laid(n) = laid(n - 1) \o TokenWords(tokens[n])
      BY <1>2, <2>4
    <3>2. Len(laid(n - 1)) \in Nat /\ Len(TokenWords(tokens[n])) \in Nat
      BY <2>5, <2>6, LenProperties
    <3>3. /\ laid(n) \in Seq(WordCell)
          /\ Len(laid(n)) = Len(laid(n - 1)) + Len(TokenWords(tokens[n]))
          /\ \A p \in 1 .. Len(laid(n - 1)) + Len(TokenWords(tokens[n])) :
               laid(n)[p] = IF p <= Len(laid(n - 1)) THEN laid(n - 1)[p]
                            ELSE TokenWords(tokens[n])[p - Len(laid(n - 1))]
      BY <2>5, <2>6, <3>1, ConcatProperties
    <3> QED
      BY <3>2, <3>3
  <2>8. ASSUME NEW m \in 0 .. n
        PROVE  begins(m, n)
    <3>1. CASE m = n
      BY <2>7, <3>1, LenProperties
    <3>2. CASE m # n
      <4>1. m \in 0 .. (n - 1)
        BY <2>4, <3>2
      <4>2. begins(m, n - 1)
        BY <2>5, <4>1
      <4>3. laid(m) \in Seq(WordCell)
        BY <2>2, <2>4, <4>1
      <4>4. Len(laid(m)) \in Nat /\ Len(laid(n - 1)) \in Nat /\ Len(laid(n)) \in Nat
        BY <2>5, <2>7, <4>3, LenProperties
      <4> QED
        BY <2>7, <4>2, <4>4
    <3> QED
      BY <3>1, <3>2
  <2> QED
    BY <2>2, <2>7, <2>8
<1>4. \A n \in 0 .. Len(tokens) : laid(n) \in Seq(WordCell) /\ \A m \in 0 .. n : begins(m, n)
  BY <1>3
<1> QED
  BY <1>4 DEF laid


(* Where the tokens of the tree lie, and the words there.                  *)
LEMMA BlockEnds ==
  ASSUME blob \in Blobs
  PROVE  /\ blob \in Seq(Token) /\ Len(blob) \in Nat \ {0} /\ WellFormed(blob)
         /\ Len(Structure) \in Nat
         /\ OffsetOf(blob, 1) = 0 /\ OffsetOf(blob, Len(blob) + 1) = Len(Structure)
<1>1. blob \in Seq(Token) /\ WellFormed(blob)
  BY BlobAssumption
<1>2. Len(blob) \in Nat \ {0}
  BY <1>1, EmptySeq DEF WellFormed
<1>3. Layout(blob)[0] = <<>> /\ Layout(blob)[Len(blob)] \in Seq(WordCell)
  <2>1. Layout(blob)[0] = <<>>
    BY <1>2, LayoutDef
  <2>2. \A n \in 0 .. Len(blob) : Layout(blob)[n] \in Seq(WordCell)
    BY <1>1, LayoutGrows
  <2>3. Len(blob) \in 0 .. Len(blob)
    BY <1>2
  <2> QED
    BY <2>1, <2>2, <2>3
<1>4. OffsetOf(blob, 1) = 0
  <2>1. OffsetOf(blob, 1) = Len(Layout(blob)[1 - 1]) /\ 1 - 1 = 0
    BY DEF OffsetOf
  <2> QED
    BY <1>3, <2>1, EmptySeq
<1>5. OffsetOf(blob, Len(blob) + 1) = Len(Structure)
  <2>1. (Len(blob) + 1) - 1 = Len(blob)
    BY <1>2
  <2> QED
    BY <2>1 DEF OffsetOf, Structure, Words
<1>6. Len(Structure) \in Nat
  BY <1>3, LenProperties DEF Structure, Words
<1> QED
  BY <1>1, <1>2, <1>4, <1>5, <1>6

(* At a token's offset stand its words, and behind them the next token.    *)
LEMMA TokenAt ==
  ASSUME blob \in Blobs, NEW i \in 1 .. Len(blob)
  PROVE  LET words == TokenWords(blob[i]) IN
         /\ OffsetOf(blob, i) \in Nat
         /\ OffsetOf(blob, i + 1) = OffsetOf(blob, i) + Len(words)
         /\ OffsetOf(blob, i + 1) <= Len(Structure)
         /\ \A k \in 1 .. Len(words) : At(OffsetOf(blob, i) + (k - 1)) = words[k]
<1> DEFINE words == TokenWords(blob[i])
           laid(n) == Layout(blob)[n]
<1>1. blob \in Seq(Token) /\ Len(blob) \in Nat /\ blob[i] \in Token
  BY BlockEnds, ElementOfSeq
<1>2. words \in Seq(WordCell) /\ Len(words) \in Nat
  BY <1>1, TokenWordsSeq, LenProperties
<1>3. i - 1 \in 0 .. Len(blob) /\ i \in 0 .. Len(blob) /\ Len(blob) \in 0 .. Len(blob)
      /\ i \in 0 .. Len(blob) /\ (i + 1) - 1 = i
  BY <1>1
<1>4. laid(i - 1) \in Seq(WordCell) /\ laid(i) = laid(i - 1) \o words
  BY <1>1, <1>3, LayoutDef, LayoutGrows
<1>5. /\ Len(laid(i)) <= Len(laid(Len(blob)))
      /\ \A p \in 1 .. Len(laid(i)) : laid(Len(blob))[p] = laid(i)[p]
  BY <1>1, <1>3, LayoutGrows
<1>6. /\ OffsetOf(blob, i) = Len(laid(i - 1)) /\ OffsetOf(blob, i + 1) = Len(laid(i))
      /\ Structure = laid(Len(blob))
  BY <1>3 DEF OffsetOf, Structure, Words
<1> HIDE DEF words, laid
<1>7. /\ Len(laid(i)) = Len(laid(i - 1)) + Len(words)
      /\ \A p \in 1 .. Len(laid(i - 1)) + Len(words) :
           laid(i)[p] = IF p <= Len(laid(i - 1)) THEN laid(i - 1)[p]
                        ELSE words[p - Len(laid(i - 1))]
  BY <1>2, <1>4, ConcatProperties
<1>8. Len(laid(i - 1)) \in Nat
  BY <1>4, LenProperties
<1>9. ASSUME NEW k \in 1 .. Len(words)
      PROVE  At(OffsetOf(blob, i) + (k - 1)) = words[k]
  <2> DEFINE p == Len(laid(i - 1)) + k
  <2>1. /\ p \in 1 .. Len(laid(i - 1)) + Len(words) /\ p \in 1 .. Len(laid(i))
        /\ ~(p <= Len(laid(i - 1))) /\ p - Len(laid(i - 1)) = k
        /\ (Len(laid(i - 1)) + (k - 1)) + 1 = p
    BY <1>2, <1>7, <1>8
  <2>2. Structure[p] = words[k]
    BY <1>5, <1>6, <1>7, <2>1
  <2> QED
    BY <1>6, <2>1, <2>2 DEF At
<1> QED
  BY <1>5, <1>6, <1>7, <1>8, <1>9 DEF words

(* What the walks read at a token, and how far it is to the next one.      *)
LEMMA TokenFacts ==
  ASSUME blob \in Blobs, NEW i \in 1 .. Len(blob), NEW o, OffsetOf(blob, i) = o
  PROVE  /\ o \in Nat /\ o < Len(Structure) /\ At(o).text = blob[i].tag
         /\ blob[i].tag \in {"begin", "prop", "end", "nop", "fin"}
         /\ OffsetOf(blob, i + 1) \in Nat /\ OffsetOf(blob, i + 1) <= Len(Structure)
         /\ blob[i].tag = "begin" =>
              OffsetOf(blob, i + 1) = o + 2 /\ At(o + 1).text = blob[i].name
         /\ blob[i].tag = "prop" =>
              /\ OffsetOf(blob, i + 1) = o + PropWords(o) /\ At(o + 2).text = blob[i].name
              /\ o + 3 <= Len(Structure)
         /\ blob[i].tag \in {"end", "nop", "fin"} => OffsetOf(blob, i + 1) = o + 1
<1> DEFINE words == TokenWords(blob[i])
<1>1. blob[i] \in Token /\ Len(Structure) \in Nat /\ WellFormed(blob)
  BY BlockEnds, ElementOfSeq
<1>2. /\ o \in Nat /\ OffsetOf(blob, i + 1) = o + Len(words)
      /\ OffsetOf(blob, i + 1) <= Len(Structure)
      /\ \A k \in 1 .. Len(words) : At(o + (k - 1)) = words[k]
  BY TokenAt
<1>3. /\ words[1].text = blob[i].tag
      /\ Len(words) = IF blob[i].tag = "begin" THEN 2
                      ELSE IF blob[i].tag = "prop" THEN 3 + Len(blob[i].data) ELSE 1
      /\ blob[i].tag = "begin" => words[2].text = blob[i].name
      /\ blob[i].tag = "prop" => words[2].number = blob[i].bytes /\ words[3].text = blob[i].name
  BY <1>1, TokenWordsSeq
<1>4. /\ blob[i].tag \in {"begin", "prop", "end", "nop", "fin"}
      /\ blob[i].data \in Seq(STRING) /\ blob[i].bytes \in Nat /\ Len(blob[i].data) \in Nat
  BY <1>1, LenProperties DEF Token
<1> HIDE DEF words
<1>5. Len(words) \in Nat \ {0} /\ At(o).text = blob[i].tag
  <2>1. Len(words) \in Nat \ {0}
    BY <1>3, <1>4
  <2>2. At(o + (1 - 1)) = words[1] /\ o + (1 - 1) = o
    BY <1>2, <2>1
  <2> QED
    BY <1>3, <2>1, <2>2
<1>6. CASE blob[i].tag = "begin"
  <2>1. Len(words) = 2
    BY <1>3, <1>6
  <2>2. At(o + (2 - 1)) = words[2] /\ o + (2 - 1) = o + 1
    BY <1>2, <2>1
  <2> QED
    BY <1>1, <1>2, <1>3, <1>4, <1>5, <1>6, <2>1, <2>2
<1>7. CASE blob[i].tag = "prop"
  <2>1. Len(words) = 3 + Len(blob[i].data) /\ 2 \in 1 .. Len(words) /\ 3 \in 1 .. Len(words)
    BY <1>3, <1>4, <1>7
  <2>2. At(o + (2 - 1)) = words[2] /\ o + (2 - 1) = o + 1
        /\ At(o + (3 - 1)) = words[3] /\ o + (3 - 1) = o + 2
    BY <1>2, <2>1
  <2>3. (blob[i].bytes + 3) \div 4 = Len(blob[i].data)
    BY <1>1, <1>7 DEF WellFormed
  <2>4. PropWords(o) = Len(words)
    <3>1. At(o + 1).number = blob[i].bytes
      BY <1>3, <1>7, <2>2
    <3> QED
      BY <2>1, <2>3, <3>1 DEF PropWords
  <2>5. OffsetOf(blob, i + 1) = o + PropWords(o) /\ o + 3 <= Len(Structure) /\ o < Len(Structure)
        /\ OffsetOf(blob, i + 1) \in Nat
    <3>1. /\ o \in Nat /\ Len(Structure) \in Nat /\ Len(words) \in Nat /\ 3 <= Len(words)
          /\ OffsetOf(blob, i + 1) = o + Len(words) /\ OffsetOf(blob, i + 1) <= Len(Structure)
      BY <1>1, <1>2, <1>4, <2>1
    <3> QED
      BY <2>4, <3>1
  <2>6. At(o + 2).text = blob[i].name
    BY <1>3, <1>7, <2>2
  <2> QED
    BY <1>2, <1>4, <1>5, <1>7, <2>5, <2>6
<1>8. CASE blob[i].tag \notin {"begin", "prop"}
  <2>1. Len(words) = 1
    BY <1>3, <1>8
  <2> QED
    BY <1>1, <1>2, <1>4, <1>5, <1>8, <2>1
<1> QED
  BY <1>6, <1>7, <1>8

-----------------------------------------------------------------------------
(* The walks stay on tokens of the tree; what fdt_path_offset returns is a *)
(* node with the name it looks for, and fdt_getprop has passed properties  *)
(* of that node only, each with another name.                              *)
AtToken(p) == \E i \in 1 .. (Len(blob) + 1) : OffsetOf(blob, i) = p
NodeAt(i) == blob[i].tag = "begin" /\ OffsetOf(blob, i) = node
PassedOver(i, j) ==
  \A k \in (i + 1) .. (j - 1) : blob[k].tag \in {"prop", "nop"}
                               /\ (blob[k].tag = "prop" => blob[k].name # name)

OnTokens == AtToken(ptr) /\ AtToken(offset)
NodeIsNode == node >= 0 => \E i \in 1 .. Len(blob) : NodeAt(i)
NodeIsWanted ==
  stage \in {"idle", "search"} /\ node >= 0 =>
    \E i \in 1 .. Len(blob) : NodeAt(i) /\ blob[i].name = wanted
LookupGoesOn ==
  /\ path \in Seq(STRING)
  /\ stage \in {"walk", "compare"} =>
       path # <<>> /\ path[Len(path)] = wanted /\ name = "" /\ prop_data = -1
  /\ stage = "compare" => node >= 0 /\ ptr = node
SearchGoesOn ==
  stage = "search" =>
    /\ node >= 0 /\ prop_data = -1
    /\ \E i, j \in 1 .. Len(blob) :
         NodeAt(i) /\ blob[i].name = wanted /\ i < j /\ OffsetOf(blob, j) = ptr /\ PassedOver(i, j)

FdtInv ==
  FdtTypeOK /\ OnTokens /\ NodeIsNode /\ NodeIsWanted /\ LookupGoesOn /\ SearchGoesOn /\ FoundInTree

Reported(i) ==
  LET named == {j \in PropsOf(i) : blob[j].name = name}
  IN IF named = {} THEN prop_data = -1 ELSE \E j \in named : OffsetOf(blob, j) + 3 = prop_data

(* FoundInTree in terms of the node at which the lookup ended.             *)
LEMMA FoundMeans ==
  FoundInTree <=>
    (stage = "idle" /\ node >= 0 =>
       \E i \in 1 .. Len(blob) : NodeAt(i) /\ blob[i].name = wanted /\ Reported(i))
BY Zenon DEF FoundInTree, NodeAt, Reported

(* No property has the empty name.                                         *)
LEMMA NoEmptyName ==
  ASSUME blob \in Blobs, NEW i \in 1 .. Len(blob)
  PROVE  {j \in PropsOf(i) : blob[j].name = ""} = {}
<1>1. WellFormed(blob) /\ Len(blob) \in Nat
  BY BlockEnds
<1>2. ASSUME NEW j \in PropsOf(i)
      PROVE  blob[j].name # ""
  <2>1. j \in 1 .. Len(blob) /\ blob[j].tag = "prop"
    BY <1>1 DEF PropsOf
  <2> QED
    BY <1>1, <2>1 DEF WellFormed
<1> QED
  BY <1>2

(* An offset of a token before the end of the block is that of a tag.      *)
LEMMA TokenHere ==
  ASSUME blob \in Blobs, NEW p, AtToken(p), p < Len(Structure)
  PROVE  \E i \in 1 .. Len(blob) : OffsetOf(blob, i) = p
<1>1. PICK i \in 1 .. (Len(blob) + 1) : OffsetOf(blob, i) = p
  BY DEF AtToken
<1>2. i # Len(blob) + 1
  BY <1>1, BlockEnds
<1>3. Len(blob) \in Nat
  BY BlockEnds
<1> QED
  BY <1>1, <1>2, <1>3

(* An offset of a token lies in the block.                                 *)
LEMMA TokenBounds ==
  ASSUME blob \in Blobs, NEW p, AtToken(p)
  PROVE  p \in 0 .. Len(Structure)
<1>1. CASE p < Len(Structure)
  BY <1>1, BlockEnds, TokenHere, TokenFacts
<1>2. CASE ~(p < Len(Structure))
  <2>1. PICK i \in 1 .. (Len(blob) + 1) : OffsetOf(blob, i) = p
    BY DEF AtToken
  <2>2. CASE i = Len(blob) + 1
    BY <2>1, <2>2, BlockEnds
  <2>3. CASE i # Len(blob) + 1
    <3>1. i \in 1 .. Len(blob)
      BY <2>3, BlockEnds
    <3> QED
      BY <1>2, <2>1, <3>1, TokenFacts
  <2> QED
    BY <2>2, <2>3
<1> QED
  BY <1>1, <1>2

FdtTyped ==
  /\ blob \in Blobs /\ name \in PropNames \cup {""}
  /\ stage \in {"idle", "walk", "compare", "search"}
  /\ offset \in 0 .. Len(Structure) /\ ptr \in 0 .. Len(Structure)
  /\ depth \in 0 .. MaxDepth /\ current_depth \in 0 .. MaxDepth
  /\ node \in -1 .. Len(Structure) /\ prop_data \in -1 .. Len(Structure)

(* The types, one by one.                                                  *)
LEMMA TypeParts == FdtTyped <=> FdtTypeOK
BY DEF FdtTyped, FdtTypeOK

(* The same after a step.                                                  *)
LEMMA TypePartsNext == FdtTyped' <=> FdtTypeOK'
BY DEF FdtTyped, FdtTypeOK

(* Before the first lookup there is nothing to be wrong.                   *)
LEMMA FdtStarts == FdtInit => FdtInv
<1> SUFFICES ASSUME FdtInit PROVE FdtInv
  OBVIOUS
<1>1. blob \in Blobs
  BY DEF FdtInit
<1>2. OffsetOf(blob, 1) = 0 /\ Len(blob) \in Nat \ {0} /\ Len(Structure) \in Nat
  BY <1>1, BlockEnds
<1>3. AtToken(0)
  BY <1>2 DEF AtToken
<1>4. stage = "idle" /\ node = -1 /\ path = <<>> /\ ptr = 0 /\ offset = 0
  BY DEF FdtInit
<1>5. FdtTypeOK
  <2>1. 0 \in 0 .. Len(Structure) /\ -1 \in -1 .. Len(Structure) /\ 0 \in 0 .. MaxDepth
    BY <1>2, FdtAssumption
  <2>2. FdtTyped
    BY <1>1, <2>1 DEF FdtInit, FdtTyped
  <2> QED
    BY <2>2, TypeParts
<1>6. OnTokens /\ NodeIsNode /\ NodeIsWanted /\ LookupGoesOn /\ SearchGoesOn
  BY <1>3, <1>4, EmptySeq DEF OnTokens, NodeIsNode, NodeIsWanted, LookupGoesOn, SearchGoesOn
<1>7. FoundInTree
  BY <1>4, FoundMeans
<1> QED
  BY <1>5, <1>6, <1>7 DEF FdtInv

(* A lookup starts at the root with the whole path to find.                *)
LEMMA PathLookupStarts ==
  ASSUME FdtInv, NEW p \in Paths, fdt_path_offset(p)
  PROVE  FdtInv'
<1>1. blob \in Blobs /\ blob' = blob
  BY DEF FdtInv, FdtTypeOK, fdt_path_offset
<1>2. /\ OffsetOf(blob, 1) = 0 /\ Len(blob) \in Nat \ {0} /\ Len(Structure) \in Nat
      /\ WellFormed(blob)
  BY <1>1, BlockEnds
<1>3. Structure' = Structure
  BY <1>1 DEF Structure
<1>4. AtToken(0)'
  BY <1>1, <1>2 DEF AtToken
<1>5. FdtTypeOK' /\ OnTokens'
  <2>1. 0 \in 0 .. Len(Structure) /\ -1 \in -1 .. Len(Structure) /\ 0 \in -1 .. Len(Structure)
        /\ 0 \in 0 .. MaxDepth
    BY <1>2, FdtAssumption
  <2>2. /\ name' = "" /\ prop_data' = -1 /\ depth' = 0 /\ current_depth' = 0
        /\ offset' = 0 /\ ptr' = 0 /\ node' \in {0, -1} /\ stage' \in {"idle", "walk"}
    BY DEF fdt_path_offset
  <2>3. FdtTyped'
    BY <1>1, <1>3, <2>1, <2>2 DEF FdtTyped
  <2> QED
    BY <1>4, <2>2, <2>3, TypePartsNext DEF OnTokens, AtToken
<1>6. LookupGoesOn' /\ SearchGoesOn'
  <2>1. p \in Seq(STRING) /\ <<>> \in Seq(STRING)
    BY BlobAssumption, EmptySeq
  <2> QED
    BY <2>1 DEF fdt_path_offset, LookupGoesOn, SearchGoesOn
<1>7. CASE p # <<>>
  <2>1. stage' = "walk" /\ node' = -1
    BY <1>7 DEF fdt_path_offset
  <2>2. NodeIsNode' /\ NodeIsWanted'
    BY <2>1 DEF NodeIsNode, NodeIsWanted
  <2>3. FoundInTree'
    BY <2>1 DEF FoundInTree
  <2> QED
    BY <1>5, <1>6, <2>2, <2>3 DEF FdtInv
<1>8. CASE p = <<>>
  <2>1. blob[1].tag = "begin" /\ blob[1].name = ""
    <3>1. blob[1] = BeginNode("")
      BY <1>2 DEF WellFormed
    <3>2. BeginNode("").tag = "begin" /\ BeginNode("").name = ""
      BY DEF BeginNode
    <3> QED
      BY <3>1, <3>2
  <2>2. node' = 0 /\ wanted' = "" /\ name' = "" /\ prop_data' = -1
    BY <1>8 DEF fdt_path_offset
  <2>3. NodeAt(1)' /\ 1 \in 1 .. Len(blob) /\ blob'[1].name = wanted'
    <3>1. blob'[1].tag = "begin" /\ OffsetOf(blob', 1) = node'
      BY <1>1, <1>2, <2>1, <2>2
    <3>2. NodeAt(1)'
      BY <3>1 DEF NodeAt
    <3>3. 1 \in 1 .. Len(blob)
      BY <1>2
    <3>4. blob'[1].name = wanted'
      BY <1>1, <2>1, <2>2
    <3> QED
      BY <3>2, <3>3, <3>4
  <2>4. NodeIsNode' /\ NodeIsWanted'
    BY <1>1, <2>3 DEF NodeIsNode, NodeIsWanted
  <2>5. Reported(1)'
    <3>1. {j \in PropsOf(1) : blob[j].name = ""} = {}
      BY <1>1, <2>3, NoEmptyName
    <3>2. {j \in PropsOf(1) : blob[j].name = name}' = {}
      BY <1>1, <2>2, <3>1 DEF PropsOf
    <3> QED
      BY <2>2, <3>2 DEF Reported
  <2>6. FoundInTree'
    <3>1. \E i \in 1 .. Len(blob') : NodeAt(i)' /\ blob'[i].name = wanted' /\ Reported(i)'
      BY <1>1, <2>3, <2>5
    <3> QED
      BY <3>1, Zenon DEF FoundInTree, NodeAt, Reported
  <2> QED
    BY <1>5, <1>6, <2>4, <2>6 DEF FdtInv
<1> QED
  BY <1>7, <1>8

-----------------------------------------------------------------------------
(* A turn of the walk that finds no node keeps what was found before.      *)
LEMMA WalkStays ==
  ASSUME FdtInv, stage = "walk", AtToken(ptr'), AtToken(offset'), current_depth' \in 0 .. MaxDepth,
         UNCHANGED <<blob, path, wanted, stage, depth, node, name, prop_data>>
  PROVE  FdtInv'
<1>1. blob \in Blobs /\ blob' = blob /\ Structure' = Structure /\ FdtTyped
  BY TypeParts DEF FdtInv, FdtTypeOK, Structure
<1>2. FdtTypeOK'
  <2>1. ptr' \in 0 .. Len(Structure) /\ offset' \in 0 .. Len(Structure)
    BY <1>1, TokenBounds
  <2>2. FdtTyped'
    BY <1>1, <2>1 DEF FdtTyped
  <2> QED
    BY <2>2, TypePartsNext
<1>3. OnTokens'
  BY <1>1 DEF OnTokens, AtToken
<1>4. NodeIsNode'
  BY <1>1, Zenon DEF FdtInv, NodeIsNode, NodeAt
<1>5. LookupGoesOn' /\ NodeIsWanted' /\ SearchGoesOn' /\ FoundInTree'
  <2>1. stage' = "walk" /\ path' = path /\ wanted' = wanted /\ name' = name
        /\ prop_data' = prop_data
    OBVIOUS
  <2>2. LookupGoesOn'
    BY <2>1 DEF FdtInv, LookupGoesOn
  <2> QED
    BY <2>1, <2>2 DEF NodeIsWanted, SearchGoesOn, FoundInTree
<1> QED
  BY <1>2, <1>3, <1>4, <1>5 DEF FdtInv

(* A lookup that fails leaves no node.                                     *)
LEMMA LookupFails ==
  ASSUME FdtInv, Unfound, UNCHANGED <<blob, wanted, name, prop_data>>
  PROVE  FdtInv'
<1>1. blob' = blob /\ Structure' = Structure /\ FdtTyped /\ Len(Structure) \in Nat
  BY BlockEnds, TypeParts DEF FdtInv, FdtTypeOK, Structure
<1>2. FdtTypeOK'
  <2>1. node' \in -1 .. Len(Structure) /\ stage' = "idle" /\ ptr' = ptr /\ offset' = offset
        /\ depth' = depth /\ current_depth' = current_depth
    BY <1>1 DEF Unfound
  <2>2. FdtTyped'
    BY <1>1, <2>1 DEF FdtTyped
  <2> QED
    BY <2>2, TypePartsNext
<1>3. OnTokens'
  BY <1>1 DEF FdtInv, Unfound, OnTokens, AtToken
<1>4. stage' = "idle" /\ node' = -1 /\ path' = <<>>
  BY DEF Unfound
<1>5. NodeIsNode' /\ NodeIsWanted' /\ SearchGoesOn' /\ FoundInTree'
  BY <1>4 DEF NodeIsNode, NodeIsWanted, SearchGoesOn, FoundInTree
<1>6. LookupGoesOn'
  BY <1>4, EmptySeq DEF LookupGoesOn
<1> QED
  BY <1>2, <1>3, <1>5, <1>6 DEF FdtInv

(* The turns of the walk, each at a token.                                 *)
LEMMA WalkTurns ==
  ASSUME FdtInv, WalkRoot \/ WalkEnd \/ WalkProp \/ WalkNop \/ WalkOut
  PROVE  FdtInv'
<1>1. blob \in Blobs /\ AtToken(ptr) /\ AtToken(offset) /\ FdtTyped
  BY TypeParts DEF FdtInv, FdtTypeOK, OnTokens
<1>2. ASSUME ptr < Len(Structure)
      PROVE  \E i \in 1 .. Len(blob) : OffsetOf(blob, i) = ptr /\ i + 1 \in 1 .. (Len(blob) + 1)
  BY <1>1, <1>2, TokenHere, BlockEnds
<1>3. CASE WalkRoot
  <2>1. ptr < Len(Structure) /\ At(ptr).text = "begin" /\ stage = "walk"
    BY <1>3 DEF WalkRoot, WalkAt
  <2>2. PICK i \in 1 .. Len(blob) : OffsetOf(blob, i) = ptr /\ i + 1 \in 1 .. (Len(blob) + 1)
    BY <1>2, <2>1
  <2>3. OffsetOf(blob, i + 1) = ptr + 2
    BY <1>1, <2>1, <2>2, TokenFacts
  <2>4. AtToken(ptr + 2)
    BY <2>2, <2>3 DEF AtToken
  <2>5. ptr' = ptr + 2 /\ offset' = ptr + 2 /\ current_depth' \in 0 .. MaxDepth
        /\ UNCHANGED <<blob, path, wanted, stage, depth, node, name, prop_data>>
    BY <1>1, <1>3 DEF WalkRoot, WalkOn, FdtTyped
  <2> QED
    BY <2>1, <2>4, <2>5, WalkStays
<1>4. CASE WalkProp
  <2>1. ptr < Len(Structure) /\ At(ptr).text = "prop" /\ stage = "walk"
    BY <1>4 DEF WalkProp, WalkAt
  <2>2. PICK i \in 1 .. Len(blob) : OffsetOf(blob, i) = ptr /\ i + 1 \in 1 .. (Len(blob) + 1)
    BY <1>2, <2>1
  <2>3. OffsetOf(blob, i + 1) = ptr + PropWords(ptr)
    BY <1>1, <2>1, <2>2, TokenFacts
  <2>4. AtToken(ptr + PropWords(ptr))
    BY <2>2, <2>3 DEF AtToken
  <2>5. ptr' = ptr + PropWords(ptr) /\ offset' = offset /\ current_depth' \in 0 .. MaxDepth
        /\ UNCHANGED <<blob, path, wanted, stage, depth, node, name, prop_data>>
    BY <1>1, <1>4 DEF WalkProp, WalkOn, FdtTyped
  <2> QED
    BY <1>1, <2>1, <2>4, <2>5, WalkStays
<1>5. CASE WalkNop
  <2>1. ptr < Len(Structure) /\ At(ptr).text = "nop" /\ stage = "walk"
    BY <1>5 DEF WalkNop, WalkAt
  <2>2. PICK i \in 1 .. Len(blob) : OffsetOf(blob, i) = ptr /\ i + 1 \in 1 .. (Len(blob) + 1)
    BY <1>2, <2>1
  <2>3. OffsetOf(blob, i + 1) = ptr + 1
    BY <1>1, <2>1, <2>2, TokenFacts
  <2>4. AtToken(ptr + 1)
    BY <2>2, <2>3 DEF AtToken
  <2>5. ptr' = ptr + 1 /\ offset' = offset /\ current_depth' \in 0 .. MaxDepth
        /\ UNCHANGED <<blob, path, wanted, stage, depth, node, name, prop_data>>
    BY <1>1, <1>5 DEF WalkNop, WalkOn, FdtTyped
  <2> QED
    BY <1>1, <2>1, <2>4, <2>5, WalkStays
<1>6. CASE WalkEnd /\ current_depth = 0
  BY <1>6, LookupFails DEF WalkEnd
<1>7. CASE WalkEnd /\ current_depth # 0
  <2>1. ptr < Len(Structure) /\ At(ptr).text = "end" /\ stage = "walk"
    BY <1>7 DEF WalkEnd, WalkAt
  <2>2. PICK i \in 1 .. Len(blob) : OffsetOf(blob, i) = ptr /\ i + 1 \in 1 .. (Len(blob) + 1)
    BY <1>2, <2>1
  <2>3. OffsetOf(blob, i + 1) = ptr + 1
    BY <1>1, <2>1, <2>2, TokenFacts
  <2>4. AtToken(ptr + 1)
    BY <2>2, <2>3 DEF AtToken
  <2>5. ptr' = ptr + 1 /\ offset' = offset /\ current_depth' \in 0 .. MaxDepth
        /\ UNCHANGED <<blob, path, wanted, stage, depth, node, name, prop_data>>
    <3>1. current_depth \in 0 .. MaxDepth /\ MaxDepth \in Nat
      BY <1>1, FdtAssumption DEF FdtTyped
    <3> QED
      BY <1>7, <3>1 DEF WalkEnd, WalkOn
  <2> QED
    BY <1>1, <2>1, <2>4, <2>5, WalkStays
<1>8. CASE WalkOut
  BY <1>8, LookupFails DEF WalkOut
<1> QED
  BY <1>3, <1>4, <1>5, <1>6, <1>7, <1>8

(* fdt_next_node returns the offset of a node.                             *)
LEMMA WalkFindsNode ==
  ASSUME FdtInv, WalkNode
  PROVE  FdtInv'
<1>1. blob \in Blobs /\ blob' = blob /\ Structure' = Structure /\ FdtTyped /\ AtToken(ptr)
  BY TypeParts DEF FdtInv, FdtTypeOK, OnTokens, Structure, WalkNode
<1>2. ptr < Len(Structure) /\ At(ptr).text = "begin" /\ stage = "walk"
  BY DEF WalkNode, WalkAt
<1>3. stage' = "compare" /\ node' = ptr /\ ptr' = ptr /\ offset' = offset /\ path' = path
      /\ wanted' = wanted /\ name' = name /\ prop_data' = prop_data
  BY DEF WalkNode
<1>4. PICK i \in 1 .. Len(blob) : OffsetOf(blob, i) = ptr
  BY <1>1, <1>2, TokenHere
<1>5. blob[i].tag = "begin" /\ ptr \in Nat
  BY <1>1, <1>2, <1>4, TokenFacts
<1>6. FdtTypeOK'
  <2>1. current_depth' \in 0 .. MaxDepth /\ depth' \in 0 .. MaxDepth
    <3>1. current_depth \in 0 .. MaxDepth /\ MaxDepth \in Nat
      BY <1>1, FdtAssumption DEF FdtTyped
    <3>2. /\ current_depth' = IF current_depth < MaxDepth THEN current_depth + 1 ELSE current_depth
          /\ depth' = current_depth'
      BY DEF WalkNode
    <3> QED
      BY <3>1, <3>2
  <2>2. node' \in -1 .. Len(Structure)
    <3>1. ptr \in Nat /\ ptr < Len(Structure) /\ Len(Structure) \in Nat
      BY <1>1, <1>2, <1>5, BlockEnds
    <3> QED
      BY <1>3, <3>1
  <2>3. FdtTyped'
    BY <1>1, <1>3, <2>1, <2>2 DEF FdtTyped
  <2> QED
    BY <2>3, TypePartsNext
<1>7. OnTokens'
  BY <1>1, <1>3 DEF FdtInv, OnTokens, AtToken
<1>8. NodeIsNode'
  <2>1. NodeAt(i)'
    BY <1>1, <1>3, <1>4, <1>5 DEF NodeAt
  <2> QED
    BY <1>1, <2>1 DEF NodeIsNode
<1>9. LookupGoesOn'
  <2>1. /\ path \in Seq(STRING) /\ path # <<>> /\ path[Len(path)] = wanted
        /\ name = "" /\ prop_data = -1
    BY <1>2 DEF FdtInv, LookupGoesOn
  <2>2. node' >= 0
    BY <1>3, <1>5
  <2> QED
    BY <1>3, <2>1, <2>2 DEF LookupGoesOn
<1>10. NodeIsWanted' /\ SearchGoesOn' /\ FoundInTree'
  BY <1>3 DEF NodeIsWanted, SearchGoesOn, FoundInTree
<1> QED
  BY <1>6, <1>7, <1>8, <1>9, <1>10 DEF FdtInv

(* The last name of a path is the last of its tail.                        *)
LEMMA TailLast ==
  ASSUME NEW s \in Seq(STRING), s # <<>>
  PROVE  /\ Tail(s) \in Seq(STRING) /\ Head(s) = s[1]
         /\ Tail(s) = <<>> => s[Len(s)] = Head(s)
         /\ Tail(s) # <<>> => Tail(s)[Len(Tail(s))] = s[Len(s)]
<1>1. Len(s) \in Nat \ {0}
  BY EmptySeq
<1>2. Tail(s) \in Seq(STRING) /\ Len(Tail(s)) = Len(s) - 1
  BY HeadTailProperties
<1>3. \A k \in 1 .. Len(Tail(s)) : Tail(s)[k] = s[k + 1]
  BY HeadTailProperties
<1>4. Head(s) = s[1]
  BY <1>1
<1>5. ASSUME Tail(s) = <<>>
      PROVE  s[Len(s)] = Head(s)
  <2>1. Len(Tail(s)) = 0
    BY <1>5, EmptySeq
  <2>2. Len(s) = 1
    <3>1. \A n \in Nat : 0 = n - 1 => n = 1
      OBVIOUS
    <3> QED
      BY <1>1, <1>2, <2>1, <3>1
  <2> QED
    BY <1>4, <2>2
<1>6. ASSUME Tail(s) # <<>>
      PROVE  Tail(s)[Len(Tail(s))] = s[Len(s)]
  <2>1. Len(Tail(s)) \in Nat \ {0}
    BY <1>2, <1>6, EmptySeq
  <2>2. Len(Tail(s)) \in 1 .. Len(Tail(s)) /\ Len(Tail(s)) + 1 = Len(s)
    BY <1>1, <1>2, <2>1
  <2> QED
    BY <1>3, <2>2
<1> QED
  BY <1>2, <1>4, <1>5, <1>6

(* A node with the right name ends the lookup if the path ends with it.    *)
LEMMA NameCompared ==
  ASSUME FdtInv, CompareName
  PROVE  FdtInv'
<1>1. blob \in Blobs /\ blob' = blob /\ Structure' = Structure /\ FdtTyped
  BY TypeParts DEF FdtInv, FdtTypeOK, Structure, CompareName
<1>2. /\ stage = "compare" /\ path \in Seq(STRING) /\ path # <<>> /\ path[Len(path)] = wanted
      /\ name = "" /\ prop_data = -1 /\ node >= 0 /\ ptr = node /\ AtToken(node)
  BY DEF FdtInv, LookupGoesOn, OnTokens, CompareName
<1>3. /\ offset' = node /\ ptr' = node /\ current_depth' = depth /\ wanted' = wanted
      /\ depth' = depth /\ node' = node /\ name' = "" /\ prop_data' = -1
  BY <1>2 DEF CompareName
<1>4. PICK i \in 1 .. Len(blob) : NodeAt(i)
  BY <1>2 DEF FdtInv, NodeIsNode
<1>5. At(node + 1).text = blob[i].name
  <2>1. blob[i].tag = "begin" /\ OffsetOf(blob, i) = node
    BY <1>4 DEF NodeAt
  <2> QED
    BY <1>1, <2>1, TokenFacts
<1>6. /\ path' = IF blob[i].name = Head(path) THEN Tail(path) ELSE path
      /\ stage' = IF path' = <<>> THEN "idle" ELSE "walk"
  BY <1>5 DEF CompareName
<1>7. FdtTypeOK'
  <2>1. node \in 0 .. Len(Structure)
    BY <1>1, <1>2, TokenBounds
  <2>2. stage' \in {"idle", "walk"}
    BY <1>6
  <2>3. FdtTyped'
    BY <1>1, <1>2, <1>3, <2>1, <2>2 DEF FdtTyped
  <2> QED
    BY <2>3, TypePartsNext
<1>8. OnTokens'
  BY <1>1, <1>2, <1>3 DEF OnTokens, AtToken
<1>9. NodeAt(i)'
  BY <1>1, <1>3, <1>4 DEF NodeAt
<1>10. NodeIsNode'
  BY <1>1, <1>9 DEF NodeIsNode
<1>11. /\ path' \in Seq(STRING)
       /\ path' # <<>> => path'[Len(path')] = wanted
       /\ path' = <<>> => blob[i].name = wanted
  <2>1. CASE path' = path
    BY <1>2, <2>1
  <2>2. CASE blob[i].name = Head(path) /\ path' = Tail(path)
    BY <1>2, <2>2, TailLast
  <2> QED
    BY <1>6, <2>1, <2>2
<1>12. LookupGoesOn'
  <2>1. stage' # "compare" /\ (stage' = "walk" => path' # <<>>)
    BY <1>6
  <2>2. path' # <<>> => path'[Len(path')] = wanted'
    BY <1>3, <1>11
  <2>3. path' \in Seq(STRING) /\ name' = "" /\ prop_data' = -1
    BY <1>3, <1>11
  <2> QED
    BY <2>1, <2>2, <2>3, Zenon DEF LookupGoesOn
<1>13. SearchGoesOn'
  BY <1>6 DEF SearchGoesOn
<1>14. CASE path' # <<>>
  <2>1. stage' = "walk"
    BY <1>6, <1>14
  <2>2. NodeIsWanted' /\ FoundInTree'
    BY <2>1 DEF NodeIsWanted, FoundInTree
  <2> QED
    BY <1>7, <1>8, <1>10, <1>12, <1>13, <2>2 DEF FdtInv
<1>15. CASE path' = <<>>
  <2>1. blob'[i].name = wanted' /\ i \in 1 .. Len(blob')
    BY <1>1, <1>3, <1>11, <1>15
  <2>2. Reported(i)'
    <3>1. {j \in PropsOf(i) : blob[j].name = ""} = {}
      BY <1>1, NoEmptyName
    <3>2. {j \in PropsOf(i) : blob[j].name = name}' = {}
      BY <1>1, <1>3, <3>1 DEF PropsOf
    <3> QED
      BY <1>3, <3>2 DEF Reported
  <2>3. NodeIsWanted'
    BY <1>9, <2>1 DEF NodeIsWanted
  <2>4. FoundInTree'
    <3>1. \E k \in 1 .. Len(blob') : NodeAt(k)' /\ blob'[k].name = wanted' /\ Reported(k)'
      BY <1>9, <2>1, <2>2
    <3> QED
      BY <3>1, Zenon DEF FoundInTree, NodeAt, Reported
  <2> QED
    BY <1>7, <1>8, <1>10, <1>12, <1>13, <2>3, <2>4 DEF FdtInv
<1> QED
  BY <1>14, <1>15

-----------------------------------------------------------------------------
(* fdt_getprop starts at the token behind the name of the node.            *)
LEMMA SearchStarts ==
  ASSUME FdtInv, NEW n \in PropNames, fdt_getprop(n)
  PROVE  FdtInv'
<1>1. blob \in Blobs /\ blob' = blob /\ Structure' = Structure /\ FdtTyped /\ WellFormed(blob)
      /\ Len(blob) \in Nat
  BY TypeParts, BlockEnds DEF FdtInv, FdtTypeOK, Structure, fdt_getprop
<1>2. /\ stage = "idle" /\ node >= 0 /\ stage' = "search" /\ name' = n /\ prop_data' = -1
      /\ ptr' = node + 2 /\ path' = path /\ wanted' = wanted /\ offset' = offset
      /\ depth' = depth /\ current_depth' = current_depth /\ node' = node
  BY DEF fdt_getprop
<1>3. PICK i \in 1 .. Len(blob) : NodeAt(i) /\ blob[i].name = wanted
  BY <1>2 DEF FdtInv, NodeIsWanted
<1>4. OffsetOf(blob, i + 1) = node + 2 /\ blob[i].tag = "begin"
  BY <1>1, <1>3, TokenFacts DEF NodeAt
<1>5. i + 1 \in 1 .. Len(blob)
  <2>1. Fin.tag = "fin"
    BY DEF Fin
  <2>2. i # Len(blob)
    BY <1>1, <1>4, <2>1 DEF WellFormed
  <2> QED
    BY <1>1, <2>2
<1>6. AtToken(node + 2)
  BY <1>1, <1>4, <1>5 DEF AtToken
<1>7. FdtTypeOK'
  <2>1. node + 2 \in 0 .. Len(Structure)
    BY <1>1, <1>6, TokenBounds
  <2>2. -1 \in -1 .. Len(Structure)
    BY <1>1, BlockEnds
  <2>3. FdtTyped'
    BY <1>1, <1>2, <2>1, <2>2 DEF FdtTyped
  <2> QED
    BY <2>3, TypePartsNext
<1>8. OnTokens'
  BY <1>1, <1>2, <1>6 DEF FdtInv, OnTokens, AtToken
<1>9. NodeAt(i)' /\ blob'[i].name = wanted'
  BY <1>1, <1>2, <1>3 DEF NodeAt
<1>10. NodeIsNode' /\ NodeIsWanted'
  BY <1>1, <1>9 DEF NodeIsNode, NodeIsWanted
<1>11. LookupGoesOn' /\ FoundInTree'
  BY <1>2 DEF FdtInv, LookupGoesOn, FoundInTree
<1>12. SearchGoesOn'
  <2>1. PassedOver(i, i + 1)'
    BY <1>1, <1>5 DEF PassedOver
  <2>2. OffsetOf(blob', i + 1) = ptr' /\ i < i + 1 /\ node' >= 0
    BY <1>1, <1>2, <1>4
  <2> QED
    BY <1>1, <1>2, <1>5, <1>9, <2>1, <2>2 DEF SearchGoesOn
<1> QED
  BY <1>7, <1>8, <1>10, <1>11, <1>12 DEF FdtInv

(* The search is at a token of the node that was found.                    *)
LEMMA SearchAt ==
  ASSUME FdtInv, stage = "search"
  PROVE  \E i, j \in 1 .. Len(blob) :
           /\ NodeAt(i) /\ blob[i].name = wanted /\ i < j /\ PassedOver(i, j)
           /\ OffsetOf(blob, j) = ptr /\ At(ptr).text = blob[j].tag
           /\ blob[j].tag = "prop" => At(ptr + 2).text = blob[j].name
<1>1. blob \in Blobs
  BY DEF FdtInv, FdtTypeOK
<1>2. PICK i, j \in 1 .. Len(blob) :
        NodeAt(i) /\ blob[i].name = wanted /\ i < j /\ OffsetOf(blob, j) = ptr /\ PassedOver(i, j)
  BY DEF FdtInv, SearchGoesOn
<1>3. /\ At(ptr).text = blob[j].tag
      /\ blob[j].tag = "prop" => At(ptr + 2).text = blob[j].name
  BY <1>1, <1>2, TokenFacts
<1> QED
  BY <1>2, <1>3

(* The search passes a property with another name, or an empty word.       *)
LEMMA SearchPasses ==
  ASSUME FdtInv, SearchNext
  PROVE  FdtInv'
<1>1. blob \in Blobs /\ blob' = blob /\ Structure' = Structure /\ FdtTyped /\ WellFormed(blob)
      /\ Len(blob) \in Nat
  BY TypeParts, BlockEnds DEF FdtInv, FdtTypeOK, Structure, SearchNext
<1>2. /\ stage = "search" /\ stage' = "search" /\ name' = name /\ prop_data' = prop_data
      /\ path' = path /\ wanted' = wanted /\ offset' = offset
      /\ depth' = depth /\ current_depth' = current_depth /\ node' = node
      /\ At(ptr).text \in {"prop", "nop"}
      /\ ~(At(ptr).text = "prop" /\ At(ptr + 2).text = name)
      /\ ptr' = ptr + (IF At(ptr).text = "nop" THEN 1 ELSE PropWords(ptr))
  BY DEF SearchNext
<1>3. PICK i, j \in 1 .. Len(blob) :
        /\ NodeAt(i) /\ blob[i].name = wanted /\ i < j /\ PassedOver(i, j)
        /\ OffsetOf(blob, j) = ptr /\ At(ptr).text = blob[j].tag
        /\ blob[j].tag = "prop" => At(ptr + 2).text = blob[j].name
  BY <1>2, SearchAt
<1>4. blob[j].tag \in {"prop", "nop"} /\ (blob[j].tag = "prop" => blob[j].name # name)
  BY <1>2, <1>3
<1>5. OffsetOf(blob, j + 1) = ptr'
  BY <1>1, <1>2, <1>3, <1>4, TokenFacts
<1>6. j + 1 \in 1 .. Len(blob)
  <2>1. Fin.tag = "fin"
    BY DEF Fin
  <2>2. j # Len(blob)
    BY <1>1, <1>4, <2>1 DEF WellFormed
  <2> QED
    BY <1>1, <2>2
<1>7. AtToken(ptr')
  BY <1>1, <1>5, <1>6 DEF AtToken
<1>8. FdtTypeOK'
  <2>1. ptr' \in 0 .. Len(Structure)
    BY <1>1, <1>7, TokenBounds
  <2>2. FdtTyped'
    BY <1>1, <1>2, <2>1 DEF FdtTyped
  <2> QED
    BY <2>2, TypePartsNext
<1>9. OnTokens'
  BY <1>1, <1>2, <1>7 DEF FdtInv, OnTokens, AtToken
<1>10. NodeAt(i)' /\ blob'[i].name = wanted'
  BY <1>1, <1>2, <1>3 DEF NodeAt
<1>11. NodeIsNode' /\ NodeIsWanted'
  BY <1>1, <1>10 DEF NodeIsNode, NodeIsWanted
<1>12. LookupGoesOn' /\ FoundInTree'
  BY <1>2 DEF FdtInv, LookupGoesOn, FoundInTree
<1>13. SearchGoesOn'
  <2>1. PassedOver(i, j + 1)'
    <3> SUFFICES ASSUME NEW k \in (i + 1) .. ((j + 1) - 1)
                 PROVE  blob[k].tag \in {"prop", "nop"} /\ (blob[k].tag = "prop" => blob[k].name # name)
      BY <1>1, <1>2 DEF PassedOver
    <3>1. k = j \/ k \in (i + 1) .. (j - 1)
      OBVIOUS
    <3> QED
      BY <1>3, <1>4, <3>1 DEF PassedOver
  <2>2. OffsetOf(blob', j + 1) = ptr' /\ i < j + 1 /\ node' >= 0 /\ prop_data' = -1
    BY <1>1, <1>2, <1>3, <1>5 DEF FdtInv, SearchGoesOn
  <2> QED
    BY <1>1, <1>6, <1>10, <2>1, <2>2 DEF SearchGoesOn
<1> QED
  BY <1>8, <1>9, <1>11, <1>12, <1>13 DEF FdtInv

(* The search ends with the property that has the name, or beyond the last *)
(* property of the node.                                                   *)
LEMMA SearchEnds ==
  ASSUME FdtInv, SearchFound \/ SearchOut
  PROVE  FdtInv'
<1>1. blob \in Blobs /\ blob' = blob /\ Structure' = Structure /\ FdtTyped /\ Len(blob) \in Nat
  BY TypeParts, BlockEnds DEF FdtInv, FdtTypeOK, Structure, SearchFound, SearchOut
<1>2. /\ stage = "search" /\ stage' = "idle" /\ name' = name
      /\ path' = path /\ wanted' = wanted /\ offset' = offset /\ ptr' = ptr
      /\ depth' = depth /\ current_depth' = current_depth /\ node' = node
  BY DEF SearchFound, SearchOut
<1>3. PICK i, j \in 1 .. Len(blob) :
        /\ NodeAt(i) /\ blob[i].name = wanted /\ i < j /\ PassedOver(i, j)
        /\ OffsetOf(blob, j) = ptr /\ At(ptr).text = blob[j].tag
        /\ blob[j].tag = "prop" => At(ptr + 2).text = blob[j].name
  BY <1>2, SearchAt
<1>4. prop_data' \in -1 .. Len(Structure) /\ Reported(i)'
  <2>1. PropsOf(i)' = PropsOf(i)
    BY <1>1 DEF PropsOf
  <2>2. CASE SearchFound
    <3>1. blob[j].tag = "prop" /\ blob[j].name = name /\ prop_data' = ptr + 3
      BY <1>3, <2>2 DEF SearchFound
    <3>2. ptr + 3 <= Len(Structure) /\ ptr \in Nat /\ Len(Structure) \in Nat
      BY <1>1, <1>3, <3>1, BlockEnds, TokenFacts
    <3>3. j \in PropsOf(i)
      <4>1. ASSUME NEW k \in (i + 1) .. j
            PROVE  blob[k].tag \in {"prop", "nop"}
        <5>1. k = j \/ k \in (i + 1) .. (j - 1)
          OBVIOUS
        <5> QED
          BY <1>3, <3>1, <5>1 DEF PassedOver
      <4>2. j \in (i + 1) .. Len(blob)
        BY <1>1, <1>3
      <4> QED
        BY <3>1, <4>1, <4>2 DEF PropsOf
    <3>4. j \in {k \in PropsOf(i) : blob[k].name = name} /\ OffsetOf(blob, j) + 3 = prop_data'
      BY <1>3, <3>1, <3>3
    <3>5. Reported(i)'
      BY <1>1, <1>2, <2>1, <3>4 DEF Reported
    <3> QED
      BY <3>1, <3>2, <3>5
  <2>3. CASE SearchOut
    <3>1. prop_data' = -1 /\ blob[j].tag \notin {"prop", "nop"}
      BY <1>2, <1>3, <2>3 DEF SearchOut, FdtInv, SearchGoesOn
    <3>2. ASSUME NEW k \in PropsOf(i)
          PROVE  blob[k].name # name
      <4>1. /\ k \in (i + 1) .. Len(blob) /\ blob[k].tag = "prop"
            /\ \A l \in (i + 1) .. k : blob[l].tag \in {"prop", "nop"}
        BY DEF PropsOf
      <4>2. ~(j \in (i + 1) .. k)
        BY <3>1, <4>1
      <4>3. k \in (i + 1) .. (j - 1)
        BY <1>1, <1>3, <4>1, <4>2
      <4> QED
        BY <1>3, <4>1, <4>3 DEF PassedOver
    <3>3. {k \in PropsOf(i) : blob[k].name = name}' = {}
      BY <1>1, <1>2, <2>1, <3>2
    <3>4. -1 \in -1 .. Len(Structure)
      BY <1>1, BlockEnds
    <3> QED
      BY <3>1, <3>3, <3>4 DEF Reported
  <2> QED
    BY <2>2, <2>3
<1>5. FdtTypeOK'
  <2>1. FdtTyped'
    BY <1>1, <1>2, <1>4 DEF FdtTyped
  <2> QED
    BY <2>1, TypePartsNext
<1>6. OnTokens'
  BY <1>1, <1>2 DEF FdtInv, OnTokens, AtToken
<1>7. NodeAt(i)' /\ blob'[i].name = wanted' /\ i \in 1 .. Len(blob')
  BY <1>1, <1>2, <1>3 DEF NodeAt
<1>8. NodeIsNode' /\ NodeIsWanted'
  BY <1>7 DEF NodeIsNode, NodeIsWanted
<1>9. LookupGoesOn' /\ SearchGoesOn'
  BY <1>2 DEF FdtInv, LookupGoesOn, SearchGoesOn
<1>10. FoundInTree'
  <2>1. \E k \in 1 .. Len(blob') : NodeAt(k)' /\ blob'[k].name = wanted' /\ Reported(k)'
    BY <1>4, <1>7
  <2> QED
    BY <2>1, Zenon DEF FoundInTree, NodeAt, Reported
<1> QED
  BY <1>5, <1>6, <1>8, <1>9, <1>10 DEF FdtInv

(* No step breaks the invariant.                                           *)
LEMMA FdtSteps == FdtInv /\ [FdtNext]_fdtVars => FdtInv'
<1> SUFFICES ASSUME FdtInv, [FdtNext]_fdtVars PROVE FdtInv'
  OBVIOUS
<1>1. ASSUME NEW p \in Paths, fdt_path_offset(p)
      PROVE  FdtInv'
  BY <1>1, PathLookupStarts
<1>2. ASSUME NEW n \in PropNames, fdt_getprop(n)
      PROVE  FdtInv'
  BY <1>2, SearchStarts
<1>3. CASE Walk
  BY <1>3, WalkTurns, WalkFindsNode, NameCompared DEF Walk
<1>4. CASE Search
  BY <1>4, SearchPasses, SearchEnds DEF Search
<1>5. CASE UNCHANGED fdtVars
  <2>1. /\ blob' = blob /\ path' = path /\ wanted' = wanted /\ stage' = stage
        /\ offset' = offset /\ ptr' = ptr /\ depth' = depth /\ current_depth' = current_depth
        /\ node' = node /\ name' = name /\ prop_data' = prop_data
    BY <1>5 DEF fdtVars
  <2>2. FdtTypeOK'
    BY <2>1 DEF FdtInv, FdtTypeOK, Structure
  <2>3. OnTokens'
    BY <2>1, Zenon DEF FdtInv, OnTokens, AtToken
  <2>4. NodeIsNode' /\ NodeIsWanted'
    BY <2>1, Zenon DEF FdtInv, NodeIsNode, NodeIsWanted, NodeAt
  <2>5. LookupGoesOn'
    BY <2>1, Zenon DEF FdtInv, LookupGoesOn
  <2>6. SearchGoesOn'
    BY <2>1, Zenon DEF FdtInv, SearchGoesOn, NodeAt, PassedOver
  <2>7. FoundInTree'
    <3>1. FoundInTree
      BY DEF FdtInv
    <3>2. \A i : PropsOf(i)' = PropsOf(i)
      BY <2>1 DEF PropsOf
    <3>3. \A i : OffsetOf(blob, i)' = OffsetOf(blob, i)
      BY <2>1
    <3> QED
      BY <2>1, <3>1, <3>2, <3>3 DEF FoundInTree
  <2> QED
    BY <2>2, <2>3, <2>4, <2>5, <2>6, <2>7 DEF FdtInv
<1> QED
  BY <1>1, <1>2, <1>3, <1>4, <1>5 DEF FdtNext

(* What fdt_path_offset and fdt_getprop return is in the tree, for every   *)
(* block that is laid out as the format says and every path and name.      *)
THEOREM TreeLookup == FdtSpec => [](FdtTypeOK /\ FoundInTree)
<1>1. FdtInv => FdtTypeOK /\ FoundInTree
  BY DEF FdtInv
<1> QED
  BY <1>1, FdtStarts, FdtSteps, PTL DEF FdtSpec

=============================================================================
