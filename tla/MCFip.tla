------------------------------- MODULE MCFip -------------------------------
EXTENDS Fip

\* Images of two versions and of lengths below, at and above multiples of Align = 3; the
\* loader's first cell is its header.
Data(n, v, len) == [i \in 1..len |-> [k |-> "data", of |-> n, version |-> v, at |-> i]]
Header == [k |-> "hdr", magic |-> "BL33", cksum |-> <<>>, size |-> 0]
Length(n, v) ==
    CASE n = "BLCP" -> v - 1  [] n = "BL2" -> 5 - 2 * v  [] n = "DDR_PARAM" -> 1 + v
      [] n = "BLCP_2ND" -> v  [] n = "MONITOR" -> 5 - 2 * v
      [] n = "LOADER_2ND" -> 6 - 2 * v
Image(n, v) ==
    IF n = "LOADER_2ND" THEN <<Header>> \o Data(n, v, Length(n, v)) ELSE Data(n, v, Length(n, v))

\* The chip configuration of the second line is shorter and comes with a header, its NAND_INFO
\* has no byte.
Field(n, v) ==
    IF n = "CHIP_CONF" /\ v = 2 THEN <<[k |-> "APLB"]>> \o Data(n, v, 1)
    ELSE Data(n, v, IF n = "NAND_INFO" THEN 4 - 2 * v ELSE 3 - v)

Line(old, names, v, fill, compress) ==
    [old |-> old, fill |-> fill,
     images |-> [n \in names |-> IF n \in Infos THEN Field(n, v) ELSE Image(n, v)],
     compress |-> compress, runaddr |-> v]

All == Body1 \cup Body2 \cup {"LOADER_2ND"}

\* From nothing, always with DDR parameters as the Makefile has it; or on the file before.
MCWhole ==
    {Line(FALSE, names \cup {"DDR_PARAM"}, 1, 5, c) :
        names \in SUBSET All, c \in {"none", "lzma"}}
    \cup {Line(FALSE, All \cup Infos, 1, 5, c) : c \in {"none", "lzma"}}
    \cup {Line(TRUE, names \cup infos, 2, 0, c) :
            names \in SUBSET All, infos \in {{}, {"CHIP_CONF", "NOR_INFO"}, {"NAND_INFO"}},
            c \in {"none", "lz4"}}

\* What the theorems about the file rest on holds of these lines.
ASSUME LinesGiveDdr == DdrGiven
ASSUME LinesGiveImages == NothingEmpty
=============================================================================
