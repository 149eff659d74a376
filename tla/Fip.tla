-------------------------------- MODULE Fip --------------------------------
(***************************************************************************)
(* scripts/fiptool.py: genfip packs the images of a boot file, fip.bin,     *)
(* behind two parameter blocks that say where each image is, how long it is *)
(* and what its checksum is, starting from nothing or from an earlier file. *)
(*                                                                         *)
(* A file and an image are sequences of cells, every cell a record with a   *)
(* field k; sizes and addresses count cells.  A parameter block and the     *)
(* header of the second loader are one cell that holds their fields.  The   *)
(* checksum of a sequence is the sequence itself, so two checksums are      *)
(* equal only if the same cells are covered.                                *)
(***************************************************************************)
EXTENDS Naturals, SequencesExt

CONSTANTS
    Align,              \* IMAGE_ALIGN
    ParamSize,          \* PARAM1_SIZE and PARAM2_SIZE
    InfoSize,           \* the sizes of the fields CHIP_CONF, NOR_INFO and NAND_INFO
    Args,               \* the command lines: see Arguments
    MaxRuns             \* bound on the runs of genfip, each on the last one's file

Body1 == {"BLCP", "BL2"}
Body2 == {"DDR_PARAM", "BLCP_2ND", "MONITOR"}
Infos == {"CHIP_CONF", "NOR_INFO", "NAND_INFO"}
Methods == Infos \cup Body1 \cup Body2 \cup {"LOADER_2ND"}
Magics == {"BL33", "B3MA", "B3Z4"}

IsSeq(cells) == cells \in Seq(Range(cells))

\* The header of the second loader
IsHeader(cell) ==
    cell = [k |-> "hdr", magic |-> cell.magic, cksum |-> cell.cksum, size |-> cell.size]

\* --OLD_FIP, the images and fields given by name, --BL2_FILL, --compress, and one value for
\* the three RUNADDRs.  Left out is what ends the program without a file: a value too long for
\* its field, a loader without the header of one that is not compressed, and --compress "".
Arguments(a) ==
    /\ a.old \in BOOLEAN /\ DOMAIN a.images \subseteq Methods
    /\ \A n \in DOMAIN a.images : IsSeq(a.images[n])
    /\ \A n \in DOMAIN a.images \cap Infos : Len(a.images[n]) <= InfoSize
    /\ "LOADER_2ND" \in DOMAIN a.images =>
          LET image == a.images["LOADER_2ND"]
          IN image # <<>> /\ IsHeader(image[1]) /\ image[1].magic = "BL33"
    /\ a.fill \in Nat /\ a.compress \in {"none", "lzma", "lz4"} /\ a.runaddr \in Nat

ASSUME FipAssumption ==
    /\ {Align, ParamSize, InfoSize, MaxRuns} \subseteq Nat
    /\ Align > 0 /\ ParamSize > 0 /\ ParamSize % Align = 0
    /\ \A a \in Args : Arguments(a)

\* A file that begins with nothing gets DDR parameters, and none of its images of them is empty.
DdrGiven ==
    \A a \in Args :
        /\ ~a.old => "DDR_PARAM" \in DOMAIN a.images
        /\ "DDR_PARAM" \in DOMAIN a.images => a.images["DDR_PARAM"] # <<>>

\* No image of the second part that is given is empty, and none of their run addresses is 0.
NothingEmpty ==
    \A a \in Args : \A n \in DOMAIN a.images \cap Body2 :
        a.images[n] # <<>> /\ (n # "DDR_PARAM" => a.runaddr # 0)

VARIABLES
    stage, args, runs,
    param1, body1, param2, body2, loader,    \* the FIP object; loader is body2["LOADER_2ND"]
    fip_bin, file,                           \* what make() has so far; what is on the disk
    given                                    \* the images given last, as they were given

object == <<param1, body1, param2, body2, loader>>
fipVars == <<stage, args, runs, object, fip_bin, file, given>>

Zero == [k |-> "zero"]
Zeros(n) == [i \in 1..n |-> Zero]
FillByte == [k |-> "0xA9"]

Crc(cells) == cells

\* Python's slice [addr : addr + size], which ends with the file.
Slice(cells, addr, size) ==
    SubSeq(cells, addr + 1, IF addr + size < Len(cells) THEN addr + size ELSE Len(cells))

\* pad() to IMAGE_ALIGN
Pad(data) ==
    data \o Zeros(IF Len(data) % Align = 0 THEN 0 ELSE Align - (Len(data) % Align))

EmptyParam1 ==
    [k |-> "param1", magic |-> "CVBL01", cksum |-> <<>>, param2_loadaddr |-> 0,
     info |-> [n \in Infos |-> Zeros(InfoSize)], conf_size |-> 0, blcp_runaddr |-> 0,
     img |-> [n \in Body1 |-> [cksum |-> <<>>, size |-> 0]]]
EmptyParam2 ==
    [k |-> "param2", magic |-> "CVLD02", cksum |-> <<>>, loader_2nd |-> 0,
     img |-> [n \in Body2 |-> [cksum |-> <<>>, loadaddr |-> 0, size |-> 0, runaddr |-> 0]]]

FipInit ==
    /\ stage = "start" /\ args \in {a \in Args : ~a.old} /\ runs = 0
    /\ param1 = EmptyParam1 /\ body1 = [n \in Body1 |-> <<>>]
    /\ param2 = EmptyParam2 /\ body2 = [n \in Body2 |-> <<>>] /\ loader = <<>>
    /\ fip_bin = <<>> /\ file = <<>>
    /\ given = [n \in Methods |-> <<>>]

Step(from, to) == stage = from /\ stage' = to

-----------------------------------------------------------------------------
\* read_fip2(): what is at PARAM2_LOADADDR.  This is 0 in a file without a second block, and
\* then the first is taken for one: where the second has its sizes and addresses, the first has
\* NAND_INFO, zeros or any bytes.
Addresses == [Body2 -> [cksum : {<<>>}, loadaddr : Nat, size : Nat, runaddr : Nat]]
ReadParam2(cell) ==
    LET zeros == [EmptyParam2 EXCEPT !.magic = cell.magic]
    IN IF cell.k = "param2" THEN {cell}
       ELSE IF cell.info["NAND_INFO"] = Zeros(InfoSize) THEN {zeros}
       ELSE {[zeros EXCEPT !.loader_2nd = l, !.img = img] : l \in Nat, img \in Addresses}

ReadLoader(p2) ==
    IF p2.loader_2nd = 0 THEN loader
    ELSE Slice(file, p2.loader_2nd, file[p2.loader_2nd + 1].size)

\* read_fip(): the first block, its two images one behind the other, then the rest.
ReadFip ==
    /\ Step("start", "add") /\ args.old
    /\ param1' = file[1]
    /\ body1' = [n \in Body1 |->
                    LET start == IF n = "BL2" THEN ParamSize + file[1].img["BLCP"].size ELSE ParamSize
                    IN Slice(file, start, file[1].img[n].size)]
    /\ param2' \in ReadParam2(file[file[1].param2_loadaddr + 1])
    /\ body2' = [n \in Body2 |-> Slice(file, param2'.img[n].loadaddr, param2'.img[n].size)]
    /\ loader' = ReadLoader(param2')
    /\ UNCHANGED <<args, runs, fip_bin, file, given>>

NewFip == Step("start", "add") /\ ~args.old /\ UNCHANGED <<args, runs, object, fip_bin, file, given>>

\* if getattr(args, m): a NOR_INFO or NAND_INFO without a byte counts as not given.
Images == {n \in DOMAIN args.images : n \in {"NOR_INFO", "NAND_INFO"} => args.images[n] # <<>>}

\* add_bl2() fills its image before it pads it; add_blcp() only pads.
Filled(n) ==
    LET image == args.images[n]
    IN IF n = "BL2" /\ Len(image) < args.fill
       THEN image \o [i \in 1..(args.fill - Len(image)) |-> FillByte]
       ELSE image

\* add_chip_conf() takes off the header of an earlier loader.
Stripped(n) ==
    LET image == args.images[n]
    IN IF n = "CHIP_CONF" /\ image # <<>> /\ image[1].k = "APLB" THEN Tail(image) ELSE image

\* The setter of Entry.content fills a field to its size with zeros.
Filling(field, content) == content \o Zeros(Len(field) - Len(content))

\* add_chip_conf(), add_nor_info(), add_nand_info(); add_blcp() also sets a run address.
WithFields(block) ==
    [block EXCEPT
        !.info = [n \in Infos |-> IF n \in Images THEN Filling(@[n], Stripped(n)) ELSE @[n]],
        !.blcp_runaddr = IF "BLCP" \in Images THEN args.runaddr ELSE @]

\* add_ddr_param(), add_blcp_2nd(), add_monitor(), add_loader_2nd(): kept as they are.
Kept(n, before) == IF n \in Images THEN args.images[n] ELSE before

\* The add_*() of everything given
AddImages ==
    /\ Step("add", "fip1")
    /\ param1' = WithFields(param1)
    /\ body1' = [n \in Body1 |-> IF n \in Images THEN Pad(Filled(n)) ELSE body1[n]]
    /\ body2' = [n \in Body2 |-> Kept(n, body2[n])]
    /\ loader' = Kept("LOADER_2ND", loader)
    /\ given' = [n \in Methods |-> IF n \in Images \cap Infos THEN Stripped(n)
                                   ELSE Kept(n, given[n])]
    /\ UNCHANGED <<args, runs, param2, fip_bin, file>>

-----------------------------------------------------------------------------
Block(cell) == <<cell>> \o Zeros(ParamSize - 1)
\* A checksum leaves out itself and the magic number before it, which no longer changes when it
\* is made.
Sealed(cell) == [cell EXCEPT !.cksum = Crc(<<[cell EXCEPT !.cksum = <<>>]>>)]

\* make_fip1(), with update_param1_cksum().  CHIP_CONF_SIZE becomes the size of the whole
\* field, whatever of it was given.
MakeFip1 ==
    /\ Step("fip1", IF body2["DDR_PARAM"] = <<>> THEN "write" ELSE "insert")
    /\ param1' = Sealed([param1 EXCEPT !.conf_size = Len(param1.info["CHIP_CONF"]), !.img =
                    [n \in Body1 |-> [cksum |-> Crc(body1[n]), size |-> Len(body1[n])]]])
    /\ fip_bin' = Block(param1') \o body1["BLCP"] \o body1["BL2"]
    /\ UNCHANGED <<args, runs, body1, param2, body2, loader, file, given>>

FaultNotSealed ==
    /\ Step("insert", "ddr")
    /\ param1' = [param1 EXCEPT !.param2_loadaddr = Len(fip_bin)]
    /\ fip_bin' = [fip_bin EXCEPT ![1] = param1'] \o Zeros(ParamSize)
    /\ UNCHANGED <<args, runs, body1, param2, body2, loader, file, given>>

\* append_fip2() begins: insert_param1() changes the block, so it is sealed once more; room
\* for the second block.
InsertParam2 ==
    /\ Step("insert", "ddr")
    /\ param1' = Sealed([param1 EXCEPT !.param2_loadaddr = Len(fip_bin)])
    /\ fip_bin' = [fip_bin EXCEPT ![1] = param1'] \o Zeros(ParamSize)
    /\ UNCHANGED <<args, runs, body1, param2, body2, loader, file, given>>

\* pack_ddr_param(), pack_blcp_2nd(), pack_monitor(): an empty image is left out.  A run
\* address read from an earlier file goes before the argument.
Pack(n, from, to) ==
    /\ Step(from, to)
    /\ LET padded == Pad(body2[n])
           start == Pad(fip_bin)
           old == param2.img[n].runaddr
       IN IF body2[n] = <<>> THEN UNCHANGED <<param2, fip_bin>>
          ELSE /\ param2' = [param2 EXCEPT !.img[n] =
                    [cksum |-> Crc(padded), loadaddr |-> Len(start), size |-> Len(padded),
                     runaddr |-> IF n = "DDR_PARAM" THEN 0 ELSE IF old # 0 THEN old ELSE args.runaddr]]
               /\ fip_bin' = start \o padded
    /\ UNCHANGED <<args, runs, param1, body1, body2, loader, file, given>>

PackDdrParam == Pack("DDR_PARAM", "ddr", "blcp_2nd")
PackBlcp2nd == Pack("BLCP_2ND", "blcp_2nd", "monitor")
PackMonitor == Pack("MONITOR", "monitor", "loader")

FaultCompressAgain(image) ==
    IF args.compress = "none" THEN image
    ELSE <<[image[1] EXCEPT !.magic = IF args.compress = "lzma" THEN "B3MA" ELSE "B3Z4"],
           [k |-> args.compress, of |-> Tail(image)]>>

\* _compress_ldr_2nd(): a loader that is not compressed yet becomes its header and one
\* compressed cell, if compression was asked for together with a new loader.
Compressed(image) ==
    IF image[1].magic # "BL33" \/ "LOADER_2ND" \notin Images \/ args.compress = "none" THEN image
    ELSE <<[image[1] EXCEPT !.magic = IF args.compress = "lzma" THEN "B3MA" ELSE "B3Z4"],
           [k |-> args.compress, of |-> Tail(image)]>>

FaultSizeLast(image) ==
    <<[Sealed([image[1] EXCEPT !.cksum = <<>>]) EXCEPT !.size = Len(image)]>> \o Tail(image)

\* _update_ldr_2nd_hdr(): first the size, then the checksum of all that follows it.
Updated(image) ==
    LET sized == <<[image[1] EXCEPT !.size = Len(image), !.cksum = <<>>]>> \o Tail(image)
    IN <<[sized[1] EXCEPT !.cksum = Crc(sized)]>> \o Tail(image)

\* pack_loader_2nd()
PackLoader2nd ==
    /\ Step("loader", "param2")
    /\ IF loader = <<>> THEN UNCHANGED <<loader, param2, fip_bin>>
       ELSE /\ loader' = Updated(Pad(Compressed(loader)))
            /\ param2' = [param2 EXCEPT !.loader_2nd = Len(Pad(fip_bin))]
            /\ fip_bin' = Pad(fip_bin) \o loader'
    /\ UNCHANGED <<args, runs, param1, body1, body2, file, given>>

\* append_fip2() ends: the second block, with its checksum, in the room left for it.
PackParam2 ==
    /\ Step("param2", "write")
    /\ param2' = Sealed(param2)
    /\ fip_bin' = [fip_bin EXCEPT ![param1.param2_loadaddr + 1] = param2']
    /\ UNCHANGED <<args, runs, param1, body1, body2, loader, file, given>>

\* generate_fip() writes the file.
Write ==
    /\ Step("write", "written")
    /\ file' = fip_bin /\ runs' = runs + 1
    /\ UNCHANGED <<args, object, fip_bin, given>>

\* genfip is run again, on the file just written.
Again ==
    /\ Step("written", "start") /\ runs < MaxRuns
    /\ args' \in {a \in Args : a.old}
    /\ param1' = EmptyParam1 /\ body1' = [n \in Body1 |-> <<>>]
    /\ param2' = EmptyParam2 /\ body2' = [n \in Body2 |-> <<>>] /\ loader' = <<>>
    /\ UNCHANGED <<runs, fip_bin, file, given>>

Over == stage = "written" /\ runs = MaxRuns /\ UNCHANGED fipVars

FipNext ==
    \/ NewFip \/ ReadFip \/ AddImages \/ MakeFip1 \/ InsertParam2
    \/ PackDdrParam \/ PackBlcp2nd \/ PackMonitor \/ PackLoader2nd \/ PackParam2
    \/ Write \/ Again \/ Over

FipSpec == FipInit /\ [][FipNext]_fipVars

-----------------------------------------------------------------------------
\* A parameter block whose checksum is that of the block as it now is.
IsSealed(cell) == cell = Sealed(cell)

\* The image n is in the file at addr: size cells, whole blocks, with this checksum, and they
\* begin with the image that was given.
Found(n, addr, size, cksum) ==
    LET cells == Slice(file, addr, size)
    IN /\ addr % Align = 0 /\ size % Align = 0
       /\ cksum = Crc(cells)
       /\ SubSeq(cells, 1, Len(given[n])) = given[n]

Bl2Start == ParamSize + file[1].img["BLCP"].size
Second == file[file[1].param2_loadaddr + 1]

LoaderFound(addr) ==
    LET hdr == file[addr + 1]
        cells == Slice(file, addr, hdr.size)
        body == IF hdr.magic = "BL33" THEN Tail(cells) ELSE cells[2].of
    IN /\ addr % Align = 0
       /\ hdr.k = "hdr" /\ hdr.magic \in Magics /\ hdr.size % Align = 0
       /\ hdr.cksum = Crc(<<[hdr EXCEPT !.cksum = <<>>]>> \o Tail(cells))
       /\ SubSeq(body, 1, Len(given["LOADER_2ND"]) - 1) = Tail(given["LOADER_2ND"])

FipTypeOK ==
    /\ stage \in {"start", "add", "fip1", "insert", "ddr", "blcp_2nd", "monitor", "loader", "param2",
              "write", "written"}
    /\ args \in Args /\ runs \in 0..MaxRuns
    /\ param1.k = "param1" /\ param2.k = "param2"
    /\ \A n \in Body1 : Len(body1[n]) % Align = 0
    /\ stage \in {"insert", "ddr"} => Len(fip_bin) % Align = 0

\* Whoever loads the file finds in each of its parameter blocks a checksum that is right for
\* the block as it was written, after every field that was changed late.
ParamsSealed ==
    stage = "written" =>
        /\ IsSealed(file[1])
        /\ file[1].param2_loadaddr # 0 => IsSealed(Second)

\* The help of every image's option, line 723: "Add <image> into FIP".  Each image that was
\* given, in this run or in the one whose file was read, is where the parameter blocks say,
\* with the size and the checksum they say, the second loader unpacks to what was given, and
\* each field that was given is in the first block, with nothing of an earlier value behind it.
ImagesFound ==
    stage = "written" =>
        /\ Found("BLCP", ParamSize, file[1].img["BLCP"].size, file[1].img["BLCP"].cksum)
        /\ Found("BL2", Bl2Start, file[1].img["BL2"].size, file[1].img["BL2"].cksum)
        /\ \A n \in Infos : file[1].info[n] = given[n] \o Zeros(InfoSize - Len(given[n]))
        /\ (\E n \in Body2 \cup {"LOADER_2ND"} : given[n] # <<>>) =>
                Second.k = "param2" /\ Second.magic = "CVLD02"
        /\ \A n \in Body2 : given[n] # <<>> =>
                LET img == Second.img[n] IN Found(n, img.loadaddr, img.size, img.cksum)
        /\ given["LOADER_2ND"] # <<>> => LoaderFound(Second.loader_2nd)

\* A run that reads a file and is given no image writes the same file: nothing is compressed,
\* padded or moved a second time.
SameAgain ==
    stage = "write" /\ args.old /\ Images = {} => fip_bin = file
=============================================================================
