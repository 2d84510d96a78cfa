----------------------------- MODULE MCHuffman -----------------------------
(***************************************************************************)
(* Huffman compared with what it is for, for every tree that the sort may  *)
(* lead to: files of up to three symbols in any order, and files of four   *)
(* to seven in the order of the symbols, on which the tree does not        *)
(* depend.  Seven are enough for the deepest tree of four symbols.         *)
(***************************************************************************)
EXTENDS Huffman

Symbols == 0 .. 3

Times(n, symbol) == [i \in 1 .. n |-> symbol]
Ordered == {Times(n[0], 0) \o Times(n[1], 1) \o Times(n[2], 2) \o Times(n[3], 3) :
              n \in [Symbols -> 0 .. 4]}
ArchiveFiles == UNION {[1 .. n -> Symbols] : n \in 1 .. 3}
                \cup {f \in Ordered : Len(f) \in 4 .. 7}
Mixed == {f \in ArchiveFiles : Cardinality(ToSet(f)) > 1}

TreesOf(file) == Trees(Frequencies(file))

\* What was compressed comes back, bytes that are not full included.
ASSUME FilesComeBack ==
    \A file \in Mixed : \A tree \in TreesOf(file) : Decoded(Encoded(file, tree)) = file

\* A file of one symbol only, however often, has a code of no bits and comes
\* back empty.
ASSUME OneSymbolIsLost ==
    \A file \in ArchiveFiles \ Mixed : \A tree \in TreesOf(file) :
        /\ Encoded(file, tree).data = <<>>
        /\ Decoded(Encoded(file, tree)) = <<>>

\* No code begins another one.
ASSUME CodesArePrefixFree ==
    \A file \in Mixed : \A tree \in TreesOf(file) :
        \A c, d \in Codes(tree) : c # d => ~IsPrefix(c.bits, d.bits)

\* Lengths that some prefix code has (Kraft), and the bits a file takes then.
Lengths(symbols) ==
    LET deepest == Cardinality(symbols) - 1
    IN  {l \in [symbols -> 1 .. deepest] :
            FoldLeft(LAMBDA sum, s : sum + 2 ^ (deepest - l[s]), 0, SetToSeq(symbols)) <= 2 ^ deepest}
Cost(file, lengths) == FoldLeft(LAMBDA sum, s : sum + lengths[s], 0, file)

\* No prefix code of single symbols makes the data shorter.
ASSUME CodesAreShortest ==
    \A file \in Mixed : \A tree \in TreesOf(file) :
        \A lengths \in Lengths(ToSet(file)) :
            Len(Bits(file, Codes(tree))) <= Cost(file, lengths)
=============================================================================
