------------------------------ MODULE Huffman ------------------------------
(***************************************************************************)
(* The archiver of coursedesign/zip/program (huffman.c): a file of symbols *)
(* is written as a table of codes and a string of bits, and read back.     *)
(*                                                                         *)
(* qsort may leave trees of the same count in any order, so a file has     *)
(* several trees.  A tree is a record; the way up to the root that         *)
(* new_code takes is the way down, reversed.                               *)
(***************************************************************************)
EXTENDS Integers, FiniteSets, SequencesExt

CONSTANT ByteBits  \* the bits of a byte (8)

ASSUME ByteAssumption == ByteBits \in Nat \ {0}

-----------------------------------------------------------------------------
(* Bits. *)

\* bit_len_byte
ByteLength(len) == len \div ByteBits + (IF len % ByteBits = 0 THEN 0 ELSE 1)

\* get_bit, of bytes that begin with their lowest bit.
GetBit(bytes, i) == (bytes[i \div ByteBits + 1] \div 2 ^ (i % ByteBits)) % 2

\* The bytes of a string of bits, the last one filled with zeros.
Packed(bits) ==
    [b \in 1 .. ByteLength(Len(bits)) |->
        LET first == (b - 1) * ByteBits
            used == {k \in 0 .. ByteBits - 1 : first + k < Len(bits) /\ bits[first + k + 1] = 1}
        IN  FoldLeft(LAMBDA sum, k : sum + 2 ^ k, 0, SetToSeq(used))]

Unpacked(bytes, len) == [i \in 1 .. len |-> GetBit(bytes, i - 1)]

-----------------------------------------------------------------------------
(* The tree. *)

Leaf(symbol, count) == [leaf |-> TRUE, count |-> count, symbol |-> symbol]
Join(zero, one) == [leaf |-> FALSE, count |-> zero.count + one.count, zero |-> zero, one |-> one]

\* get_symfreq: a leaf for each symbol of the file.
Frequencies(file) ==
    {Leaf(s, Cardinality({i \in DOMAIN file : file[i] = s})) : s \in ToSet(file)}

\* The first two trees after a sort.
Lowest(forest) ==
    {pair \in forest \X forest :
        /\ pair[1] # pair[2]
        /\ pair[1].count <= pair[2].count
        /\ \A t \in forest \ {pair[1], pair[2]} : pair[2].count <= t.count}

\* calc_code: the trees that the two smallest are joined to, one after another.
\* There is at least one tree: with none, n - 1 is the largest number.
RECURSIVE Trees(_)
Trees(forest) ==
    IF Cardinality(forest) = 1 THEN forest
    ELSE UNION {Trees((forest \ {p[1], p[2]}) \cup {Join(p[1], p[2])}) : p \in Lowest(forest)}

\* build_symcode and new_code: the code of each symbol.
RECURSIVE Codes(_)
Codes(tree) ==
    IF tree.leaf THEN {[symbol |-> tree.symbol, bits |-> <<>>]}
    ELSE {[c EXCEPT !.bits = <<0>> \o @] : c \in Codes(tree.zero)}
         \cup {[c EXCEPT !.bits = <<1>> \o @] : c \in Codes(tree.one)}

CodeOf(codes, symbol) == (CHOOSE c \in codes : c.symbol = symbol).bits

-----------------------------------------------------------------------------
(* Writing. *)

\* write_code_table: in the order of the symbols.  A length is one byte.
CodeTable(codes) ==
    LET sorted == SetToSortSeq(codes, LAMBDA c, d : c.symbol < d.symbol)
    IN  [i \in DOMAIN sorted |->
            [symbol |-> sorted[i].symbol,
             len |-> Len(sorted[i].bits) % 2 ^ ByteBits,
             bytes |-> Packed(sorted[i].bits)]]

\* do_file_encode
Bits(file, codes) == FoldLeft(LAMBDA bits, s : bits \o CodeOf(codes, s), <<>>, file)

\* huffman_encode_file, of a file with at least one symbol.
Encoded(file, tree) ==
    LET codes == Codes(tree)
    IN  [syms |-> Len(file), table |-> CodeTable(codes), data |-> Packed(Bits(file, codes))]

-----------------------------------------------------------------------------
(* Reading.  The tree that is built from the table is a function from the  *)
(* way to a node to the symbol there, or to Inner.                         *)

Inner == -1

Root == [path \in {<<>>} |-> Inner]

\* One code of the table: the nodes that are missing on its way are made.
Added(nodes, entry) ==
    LET bits == Unpacked(entry.bytes, entry.len)
        way == {SubSeq(bits, 1, k) : k \in 1 .. entry.len}
    IN  [path \in DOMAIN nodes \cup way |->
            IF path \in DOMAIN nodes THEN nodes[path]
            ELSE IF path = bits THEN entry.symbol ELSE Inner]

\* read_code_table
ReadTable(table) == FoldLeft(Added, Root, table)

\* One bit of the data, until all symbols have been read.
Stepped(nodes, state, bit) ==
    LET path == Append(state.path, bit)
    IN  IF state.left = 0 THEN state
        ELSE IF nodes[path] = Inner THEN [state EXCEPT !.path = path]
        ELSE [path |-> <<>>, left |-> state.left - 1, out |-> Append(state.out, nodes[path])]

\* huffman_decode_file
Decoded(archive) ==
    LET nodes == ReadTable(archive.table)
        bits == Unpacked(archive.data, ByteBits * Len(archive.data))
        start == [path |-> <<>>, left |-> archive.syms, out |-> <<>>]
    IN  FoldLeft(LAMBDA state, bit : Stepped(nodes, state, bit), start, bits).out
=============================================================================
