------------------------------- MODULE MkImage -------------------------------
(***************************************************************************)
(* tools/mkimage builds an image and lists it; the boot loader checks it   *)
(* before a ramdisk is used (do_bootm_linux) or listed (image_info), with  *)
(* the parts of a multi-file image. A file is a sequence of cells. A       *)
(* checksum is as good as what it covers: whether crc32 tells two texts    *)
(* apart is a question to Formats. (The kernel itself comes in another     *)
(* format, which bootm reads as BootLinux says.)                           *)
(***************************************************************************)
EXTENDS Integers, SequencesExt

CONSTANTS
    Parts,              \* sets of data files, sequences of cells
    WordSize,           \* cells of a length word
    HeaderSize,         \* sizeof(image_header_t)
    MaxParts

ASSUME MkImageAssumption == WordSize \in Nat \ {0} /\ HeaderSize \in Nat \ {0} /\ MaxParts \in Nat

VARIABLES
    phase_,             \* "options", "built", "sent"
    options,            \* type, XIP, addresses
    files,              \* the data files
    image               \* the image file: header and data

mkimageVars == <<phase_, options, files, image>>

Types == {"kernel", "ramdisk", "multi", "script"}
NoImage == [magic |-> FALSE, hcrc |-> 0, dcrc |-> <<>>, size |-> 0, ep |-> 0, type |-> "none", data |-> <<>>]
Ff == 255
Pad == 0

(* What a checksum of the header covers.                                   *)
HeaderCrc(h) == <<h.magic, h.dcrc, h.size, h.ep, h.type>>

Word(n) == <<n>> \o [i \in 1 .. WordSize - 1 |-> 300]

Padding(f) == [i \in 1 .. (WordSize - (Len(f) % WordSize)) % WordSize |-> Pad]

(* copy_file: for XIP the file begins with room for the header.            *)
CopyFile(f, pad, xip) ==
    LET body == IF xip THEN SubSeq(f, HeaderSize + 1, Len(f)) ELSE f IN
    IF pad THEN body \o Padding(body) ELSE body

HasTable(type) == type \in {"multi", "script"}

(* The lengths, a zero, and the files, all but the last padded.            *)
LengthTable(fs) == FoldLeft(LAMBDA t, f : t \o Word(Len(f)), <<>>, fs) \o Word(0)

ImageData(type, fs, xip) ==
    IF ~HasTable(type) THEN CopyFile(fs[1], FALSE, xip)
    ELSE LengthTable(fs) \o FoldLeftDomain(LAMBDA d, i : d \o CopyFile(fs[i], i < Len(fs), xip), <<>>, fs)

(* Mutant: the checksum is that of the first file.                         *)
DataCrcFirst(data) == files[1]

DataCrc(data) == data

(* The entry point of an image that runs in place is behind its header.    *)
EntryPoint == IF options.ep # 0 THEN options.ep ELSE IF options.xip THEN options.addr + HeaderSize ELSE options.addr

OptionsAccepted ==
    /\ options.xip => EntryPoint = options.addr + HeaderSize
    /\ options.xip => \A i \in DOMAIN files : Len(files[i]) >= HeaderSize /\ \A j \in 1 .. HeaderSize : files[i][j] = Ff

(* Everything is written, then the header is filled in.                    *)
Build ==
    /\ phase_ = "options" /\ OptionsAccepted
    /\ LET data == ImageData(options.type, files, options.xip)
           h == [magic |-> TRUE, hcrc |-> 0, dcrc |-> DataCrc(data), size |-> Len(data), ep |-> EntryPoint,
                 type |-> options.type, data |-> data]
       IN  image' = [h EXCEPT !.hcrc = HeaderCrc(h)]
    /\ phase_' = "built"
    /\ UNCHANGED <<options, files>>

(* The image on its way to the board, where one thing may change.          *)
Send ==
    /\ phase_ = "built"
    /\ \/ image' = image
       \/ image' = [image EXCEPT !.magic = FALSE]
       \/ image' = [image EXCEPT !.ep = @ + 1]
       \/ image' = [image EXCEPT !.type = "other"]
       \/ \E i \in DOMAIN image.data : image' = [image EXCEPT !.data[i] = 999]
       \/ Len(image.data) > 1 /\ image' = [image EXCEPT !.data = Front(@)]
    /\ phase_' = "sent"
    /\ UNCHANGED <<options, files>>

AnotherImage ==
    /\ phase_ = "sent"
    /\ phase_' = "done" /\ UNCHANGED <<options, files, image>>

MkImageInit ==
    /\ phase_ = "options" /\ image = NoImage
    /\ options \in [type : Types, xip : BOOLEAN, addr : {16}, ep : {0, 16, 16 + HeaderSize}]
    /\ \E n \in 1 .. MaxParts : files \in [1 .. n -> Parts]
    /\ ~HasTable(options.type) => Len(files) = 1

MkImageNext == Build \/ Send \/ AnotherImage

MkImageSpec == MkImageInit /\ [][MkImageNext]_mkimageVars

-----------------------------------------------------------------------------
(* What the boot loader does with the image.                               *)
HeaderIsGood(im) == im.magic /\ im.hcrc = HeaderCrc(im)

(* The data as long as the header says; what follows a shorter file in     *)
(* memory is not its last cell.                                            *)
DataInMemory(im) == SubSeq(im.data \o [i \in 1 .. im.size |-> 998], 1, im.size)

image_info(im) == HeaderIsGood(im) /\ im.dcrc = DataInMemory(im)

(* mkimage -l: with the length of the file.                                *)
Listed(im) == HeaderIsGood(im) /\ im.dcrc = im.data

(* do_bootm_linux: verify is 0 for a ramdisk.                              *)
RamdiskAccepted(im) == HeaderIsGood(im) /\ im.type = "ramdisk"

(* print_image_hdr: the sizes of the parts, up to a zero.                  *)
LengthAt(im, i) == im.data[i * WordSize + 1]
RECURSIVE Lengths(_, _)
Lengths(im, i) == IF LengthAt(im, i) = 0 THEN <<>> ELSE <<LengthAt(im, i)>> \o Lengths(im, i + 1)

-----------------------------------------------------------------------------
(* An image is accepted everywhere when nothing changed, and image_info    *)
(* refuses every change.                                                   *)
IntactIsAccepted ==
    phase_ = "built" => image_info(image) /\ Listed(image) /\ (image.type = "ramdisk" => RamdiskAccepted(image))
ChangedIsRefused ==
    phase_ = "sent" /\ image_info(image) =>
        image.data = ImageData(options.type, files, options.xip) /\ image.ep = EntryPoint /\ image.type = options.type

(* The sizes that are shown are those of the files that were put in.       *)
PartsAreListed ==
    phase_ = "built" /\ image.type = "multi" => Lengths(image, 0) = [i \in DOMAIN files |-> Len(files[i])]

(* What mkimage builds is judged rightly on the board: header and data are *)
(* checked as they were summed up, and the table of sizes is read as it    *)
(* was written (mkimage.c, cmd_bootm.c image_info).                        *)
ImageIsJudged == IntactIsAccepted /\ ChangedIsRefused /\ PartsAreListed
=============================================================================
