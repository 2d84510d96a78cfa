-------------------------------- MODULE Files --------------------------------
(***************************************************************************)
(* Files on the disk image: the table of clusters, loading and searching   *)
(* (file.c), the search for a program (cmd_app in console.c), and the      *)
(* system calls that move about in an open file.  All of it computes       *)
(* without waiting, so the module has operators and no behaviour.          *)
(***************************************************************************)
EXTENDS Integers, Sequences, SequencesExt

CONSTANTS Cluster,   \* the bytes of a cluster (512)
          FatSize,   \* the entries of the table of clusters (2880)
          Half       \* an int is from -Half to Half - 1 (2^31)

ASSUME FilesAssumption ==
    /\ Cluster \in Nat \ {0}
    /\ FatSize \in Nat /\ FatSize % 2 = 0
    /\ Half \in Nat \ {0}

-----------------------------------------------------------------------------
(* The table of clusters. *)

Entries == 0 .. 4095

\* file_readfat: three bytes hold two entries of 12 bits.
EvenEntry(low, middle) == (low + middle * 256) % 4096
OddEntry(middle, high) == (middle \div 16 + high * 16) % 4096

ReadFat(img) ==
    [i \in 0 .. FatSize - 1 |->
        LET j == 3 * (i \div 2)
        IN  IF i % 2 = 0 THEN EvenEntry(img[j], img[j + 1]) ELSE OddEntry(img[j + 1], img[j + 2])]

\* How FAT12 lays two entries out: what ReadFat has to undo.
LowByte(even) == even % 256
MiddleByte(even, odd) == even \div 256 + (odd % 16) * 16
HighByte(odd) == odd \div 16

PackedFat(fat) ==
    [k \in 0 .. 3 * (FatSize \div 2) - 1 |->
        LET even == fat[2 * (k \div 3)]
            odd == fat[2 * (k \div 3) + 1]
        IN  CASE k % 3 = 0 -> LowByte(even)
              [] k % 3 = 1 -> MiddleByte(even, odd)
              [] k % 3 = 2 -> HighByte(odd)]

\* The bytes of a cluster.
Bytes(img, clustno, count) == [i \in 1 .. count |-> img[clustno * Cluster + i - 1]]

\* file_loadfile: the table is not looked at for the last cluster.
LoadFile(clustno, size, fat, img) ==
    LET load[c \in Nat, left \in Nat] ==
            IF left <= Cluster THEN Bytes(img, c, left)
            ELSE Bytes(img, c, Cluster) \o load[fat[c], left - Cluster]
    IN  load[clustno, size]

-----------------------------------------------------------------------------
(* Names.  A character is its code, a name a sequence of characters.       *)

Blank == 32
Dot == 46

BaseLength == 8
NameLength == 11

Upper(ch) == IF ch \in 97 .. 122 THEN ch - 32 ELSE ch

\* The name as directories write it: at is where the next character goes.
Blanks == [at |-> 0, text |-> [i \in 1 .. NameLength |-> Blank], long |-> FALSE]

Spelled(entry, ch) ==
    IF entry.at >= NameLength THEN [entry EXCEPT !.long = TRUE]
    ELSE IF ch = Dot /\ entry.at <= BaseLength THEN [entry EXCEPT !.at = BaseLength]
    ELSE [entry EXCEPT !.text[entry.at + 1] = Upper(ch), !.at = entry.at + 1]

DirectoryName(name) == FoldLeft(Spelled, Blanks, name)

\* (type & 0x18) == 0: neither a directory nor the name of the disk.
IsFile(entry) == (entry.type \div 8) % 4 = 0

\* file_search: the number of the first file of that name, 0 if there is none.
\* A name that begins with 0 ends the directory.
FileSearch(name, dir) ==
    LET wanted == DirectoryName(name)
        listed == {i \in DOMAIN dir : \A k \in 1 .. i : dir[k].name[1] # 0}
        found == {i \in listed : IsFile(dir[i]) /\ dir[i].name = wanted.text}
    IN  IF wanted.long \/ found = {} THEN 0
        ELSE CHOOSE i \in found : \A k \in found : i <= k

\* The name at the beginning of a command line: not more than 13 characters.
ProgramName(line) ==
    LET n == CHOOSE n \in 0 .. 13 :
                /\ n = 13 \/ n = Len(line) \/ line[n + 1] <= Blank
                /\ \A i \in 1 .. n : i <= Len(line) /\ line[i] > Blank
    IN  SubSeq(line, 1, n)

\* .HRB
Extension == <<Dot, 72, 82, 66>>

\* cmd_app: the file a command line names, with or without the extension.  Of
\* a line that begins with a blank, which has no last character, it looks at
\* the one in front of the name: whatever that is, no file has an empty name.
FindProgram(line, dir) ==
    LET name == ProgramName(line)
        plain == FileSearch(name, dir)
    IN  IF plain # 0 \/ (name # <<>> /\ Last(name) = Dot) THEN plain
        ELSE FileSearch(name \o Extension, dir)

-----------------------------------------------------------------------------
(* Open files: system calls 22 to 25.                                      *)

\* A sum as an int holds it.
Wrapped(n) == ((n + Half) % (2 * Half)) - Half

InFile(file, pos) == IF pos < 0 THEN 0 ELSE IF pos > file.size THEN file.size ELSE pos

\* API 23: the position from the beginning, from here, from the end; any other
\* origin leaves it.
Seek(file, origin, offset) ==
    [file EXCEPT !.pos = InFile(file, CASE origin = 0 -> offset
                                        [] origin = 1 -> Wrapped(file.pos + offset)
                                        [] origin = 2 -> Wrapped(file.size + offset)
                                        [] OTHER -> file.pos)]

\* API 24, for the three origins.
Tell(file, origin) ==
    CASE origin = 0 -> file.size
      [] origin = 1 -> file.pos
      [] origin = 2 -> file.pos - file.size

\* API 25: the bytes that the loop copies, and the file after it.
Count(file, count) ==
    LET left == file.size - file.pos
    IN  IF count <= 0 THEN 0 ELSE IF count < left THEN count ELSE left
Read(file, count) == SubSeq(file.buf, file.pos + 1, file.pos + Count(file, count))
AfterRead(file, count) == [file EXCEPT !.pos = file.pos + Count(file, count)]
=============================================================================
