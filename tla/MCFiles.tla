------------------------------- MODULE MCFiles -------------------------------
(***************************************************************************)
(* Files compared with what the operators are for: clusters of two bytes,  *)
(* a table of six entries, four-bit words.                                 *)
(***************************************************************************)
EXTENDS Files

-----------------------------------------------------------------------------
(* The table of clusters. *)

\* file_readfat undoes the packing, at the boundaries of the three bytes.
ASSUME FatIsUnpacked ==
    \A a, b, c, d \in {0, 1, 15, 16, 255, 256, 4080, 4095} :
        LET fat == [i \in 0 .. FatSize - 1 |-> CASE i = 0 -> a [] i = 1 -> b
                                                 [] i = FatSize - 1 -> c [] OTHER -> d]
        IN  ReadFat(PackedFat(fat)) = fat

\* Two or three clusters in any order, with any bytes.
Clusters == 2 .. 4
Chains == {c \in UNION {[1 .. n -> Clusters] : n \in 2 .. 3} :
              \A i, j \in DOMAIN c : c[i] = c[j] => i = j}
MaxLength == 3 * Cluster
Content == [i \in 1 .. MaxLength |-> i]

\* A disk that holds the content along the chain, and nothing elsewhere: what
\* is read beside it, on the disk or in the table, cannot be evaluated.
Disk(chain, size) ==
    LET place == [i \in 1 .. size |->
                    chain[1 + (i - 1) \div Cluster] * Cluster + ((i - 1) % Cluster)]
    IN  [a \in {place[i] : i \in 1 .. size} |->
            Content[CHOOSE i \in 1 .. size : place[i] = a]]
Table(chain, size) ==
    LET links == {i \in 1 .. Len(chain) - 1 : i * Cluster < size}
    IN  [c \in {chain[i] : i \in links} |->
            chain[1 + CHOOSE i \in links : chain[i] = c]]

\* file_loadfile gathers a file from wherever its clusters are, and reads
\* nothing behind its end, not the table for its last cluster either.
ASSUME FileIsLoaded ==
    \A chain \in Chains : \A size \in 0 .. Len(chain) * Cluster :
        LoadFile(chain[1], size, Table(chain, size), Disk(chain, size))
            = SubSeq(Content, 1, size)

-----------------------------------------------------------------------------
(* Names. *)

Strings(chars, n) == UNION {[1 .. k -> chars] : k \in 0 .. n}

Letters == {97, 66}  \* a, B

\* What DOS takes as the name of an entry.
Filled(s, n) == [i \in 1 .. n |-> IF i <= Len(s) THEN Upper(s[i]) ELSE Blank]
Entry(base, ext, type) ==
    [name |-> Filled(base, BaseLength) \o Filled(ext, NameLength - BaseLength), type |-> type]

\* A base of up to eight letters and an extension of up to three name the entry
\* with these, in capitals and filled with blanks; nothing else matches.
Long == [i \in 1 .. BaseLength |-> 97]
ASSUME NameIsFound ==
    \A base, other \in (Strings(Letters, 2) \ {<<>>}) \cup {Long} :
      \A ext, ext2 \in Strings(Letters, 1) \cup {<<97, 97, 97>>} :
        LET dir == <<Entry(other, ext2, 32), Entry(base, ext, 32)>>
            name == base \o (IF ext = <<>> THEN <<>> ELSE <<Dot>> \o ext)
        IN  FileSearch(name, dir) = IF dir[1] = dir[2] THEN 1 ELSE 2

\* Directories, and what is behind the end of the list, are no files.
ASSUME OnlyFilesAreFound ==
    \A type \in {0, 1, 8, 16, 24, 32} :
        LET entry == Entry(<<97>>, <<>>, type)
            end == [name |-> [i \in 1 .. NameLength |-> 0], type |-> 0]
        IN  /\ FileSearch(<<97>>, <<entry>>) = IF type \in {0, 1, 32} THEN 1 ELSE 0
            /\ FileSearch(<<97>>, <<end, entry>>) = 0

\* A name of more than eight letters without a dot runs on into the extension,
\* and one of more than eleven is no name.
ASSUME LongNames ==
    \A n \in 9 .. 14 :
        LET name == [i \in 1 .. n |-> 97]
            dir == <<[name |-> [i \in 1 .. NameLength |-> IF i <= n THEN 65 ELSE Blank],
                      type |-> 32]>>
            found == IF n <= NameLength THEN 1 ELSE 0
        IN  FileSearch(name, dir) = found /\ FindProgram(name, dir) = found

\* A command line runs the file it names or, unless its name ends with a dot,
\* the one with the extension; what is behind the first blank is not looked at.
ASSUME ProgramIsFound ==
    \A name \in Strings(Letters, 2) \ {<<>>}, rest \in {<<>>, <<Blank, 97>>, <<9>>} :
        LET plain == Entry(name, <<>>, 32)
            hrb == Entry(name, Tail(Extension), 32)
        IN  /\ FindProgram(name \o rest, <<hrb, plain>>) = 2
            /\ FindProgram(name \o rest, <<hrb>>) = 1
            /\ FindProgram(name \o <<Dot>> \o rest, <<hrb>>) = 0
            /\ FindProgram(name \o Extension \o rest, <<plain, hrb>>) = 2
            /\ FindProgram(<<Blank>> \o name, <<plain, hrb>>) = 0

-----------------------------------------------------------------------------
(* Positions. *)

OpenFiles == {[buf |-> SubSeq(Content, 1, n), size |-> n, pos |-> p] :
                n \in 0 .. MaxLength, p \in 0 .. MaxLength}
Files == {f \in OpenFiles : f.pos <= f.size}

Words == -Half .. Half - 1

\* A position stays in the file; it is the one asked for, or the nearest, as
\* long as the sum fits into a word.  A sum beyond the largest is negative: such
\* a step forward ends at the beginning.
ASSUME SeekStays ==
    \A f \in Files, origin \in 0 .. 3, offset \in Words :
        LET start == CASE origin = 0 -> 0 [] origin = 1 -> f.pos [] origin = 2 -> f.size
                       [] OTHER -> f.pos - offset
            g == Seek(f, origin, offset)
        IN  /\ g.pos \in 0 .. g.size
            /\ start + offset \in Words =>
                 \A p \in 0 .. f.size :
                    (start + offset - g.pos) * (start + offset - g.pos)
                        <= (start + offset - p) * (start + offset - p)
            /\ start + offset >= Half => g.pos = 0

\* Reading in two pieces is reading at once; what was read is what the file
\* holds there, and API 24 tells how far it went.
ASSUME ReadInPieces ==
    \A f \in Files, m, n \in 0 .. MaxLength + 1 :
        LET g == AfterRead(f, m)
        IN  /\ Read(f, m) \o Read(g, n) = Read(f, m + n)
            /\ AfterRead(g, n) = AfterRead(f, m + n)
            /\ Tell(g, 1) - Tell(f, 1) = Len(Read(f, m))
            /\ Seek(f, 2, Tell(f, 2)) = f
=============================================================================
