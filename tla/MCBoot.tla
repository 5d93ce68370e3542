------------------------------- MODULE MCBoot -------------------------------
(***************************************************************************)
(* From an image on the host to a running kernel: one step of the way is   *)
(* chosen at the start, the others keep their first state. mkimage builds  *)
(* the image, the board starts, malloc and the library serve it, the range *)
(* coder and LzmaDecode above it unpack, bootm starts Linux.               *)
(***************************************************************************)
EXTENDS MkImage, BootLinux, Lzma, StartUp, Heap, Lists, Strings, Headers,
        BitOps, TLC

VARIABLE step

MCParts == {<<101>>, <<101, 102>>, <<255, 255, 102, 103>>, <<255, 255, 101>>}

MCBootArgs ==
    (UNION {[1 .. n -> {"x", " ", "quote"}] : n \in 0 .. 3}) \cup
    {<<"x", "quote", " ", "quote", "x", " ", "x">>, <<"mem=", " ", "x">>, <<"x", " ", "REVISIONID">>,
     <<"quote", " ", "quote", " ", "x">>, <<"x", " ", "x", " ", "x", " ", "x">>}

MCTargets ==
    {<<1, 1, 1, 1, 1, 1>>, <<1, 2, 1, 2, 2, 1>>, <<1, 2, 1, 1, 2, 1, 1>>, <<2, 1, 2, 1, 1, 2, 1, 2, 2>>}

Formatting(flags, width, precision) ==
    [flags |-> flags, width |-> width, precision |-> precision, conversion |-> "x"]
MCFormattings ==
    {Formatting({}, -1, -1), Formatting({"ZEROPAD"}, 5, -1), Formatting({"LEFT"}, 4, -1),
     Formatting({"SPECIAL"}, -1, 3), Formatting({"PLUS", "ZEROPAD"}, 4, 2), Formatting({"SPACE"}, 3, -1),
     Formatting({"SPECIAL", "ZEROPAD"}, 6, -1)}
MCChunks == {<<1>>, <<255, 128>>, <<7, 0, 3>>}

AnyHolder == Permutations(Holders)

libraryVars == <<listsVars, stringsVars, formatsVars, headersVars, bitOpsVars>>
decoderVars == <<lzmaVars, coderVars>>
boardVars == <<startVars, heapVars>>
bootVars == <<step, mkimageVars, bootLinuxVars, decoderVars, boardVars, libraryVars>>

(* A step that was not chosen: one of its initial states.                  *)
NoBuild ==
    /\ phase_ = "options" /\ image = NoImage /\ files = <<<<101>>>>
    /\ options = [type |-> "kernel", xip |-> FALSE, addr |-> 16, ep |-> 0]
NoBootm ==
    /\ bootArgs = NoArgs /\ rpos = 0 /\ bootState = "prompt" /\ bootms = 0
    /\ kernelImage = CHOOSE im \in KernelImages : GoodImage(im)
    /\ passed = [argv |-> <<>>, env |-> <<>>]
NoInflate ==
    /\ target = <<1, 1, 1, 1, 1, 1>> /\ damaged = FALSE /\ outSize = 5
    /\ result = "decoding" /\ out = <<>>
    /\ state = 0 /\ rep0 = 1 /\ rep1 = 1 /\ rep2 = 1 /\ rep3 = 1 /\ previousByte = 0
    /\ packets = <<"literal", "literal", "literal", "literal">> /\ dists = <<1, 1, 1, 1>>
NoStart ==
    /\ stage = "bootstrap_board_init_f" /\ ramSize = 0 /\ layout = NoLayout /\ inUse = {}
    /\ memory = 16777216 /\ lens = [bootstrap |-> 30000, uboot |-> 131071]
    /\ flashImage = [magic |-> TRUE, hcrc |-> TRUE, decodes |-> TRUE]

NoFormats == subject = "numbers" /\ num = 0 /\ data = <<>> /\ crc = {} /\ tim = 0
NoBitOps ==
    /\ machine = "cli" /\ start = [w \in 0 .. RegionWords - 1 |-> {}] /\ region = start
    /\ actor = [a \in Actors |-> Resting] /\ interrupts = TRUE /\ log = <<>>

BootInit ==
    /\ step \in {"mkimage", "start", "malloc", "lists", "strings", "formats", "headers", "bits", "range", "lzma", "bootm"}
    /\ IF step = "mkimage" THEN MkImageInit ELSE NoBuild
    /\ IF step = "start" THEN StartInit ELSE NoStart
    /\ IF step = "lzma" THEN LzmaInit ELSE NoInflate
    /\ IF step = "bootm" THEN BootLinuxInit ELSE NoBootm
    /\ IF step = "formats" THEN FormatsInit ELSE NoFormats
    /\ IF step = "bits" THEN BitOpsInit ELSE NoBitOps
    /\ RangeInit /\ HeapInit /\ ListsInit /\ StringsInit /\ HeadersInit

Images == UNCHANGED <<step, decoderVars, boardVars, libraryVars>>
Building == step = "mkimage" /\ Images /\ UNCHANGED bootLinuxVars
Booting == step = "bootm" /\ Images /\ UNCHANGED mkimageVars

Board == UNCHANGED <<step, mkimageVars, bootLinuxVars, decoderVars, libraryVars>>
Starting == step = "start" /\ Board /\ UNCHANGED heapVars
Allocating == step = "malloc" /\ Board /\ UNCHANGED startVars

Decoder == UNCHANGED <<step, mkimageVars, bootLinuxVars, boardVars, libraryVars>>
Coding == step = "range" /\ Decoder /\ UNCHANGED lzmaVars
Inflating == step = "lzma" /\ Decoder /\ UNCHANGED coderVars

Library == UNCHANGED <<step, mkimageVars, bootLinuxVars, decoderVars, boardVars>>
Listing == step = "lists" /\ Library /\ UNCHANGED <<stringsVars, formatsVars, headersVars, bitOpsVars>>
Copying == step = "strings" /\ Library /\ UNCHANGED <<listsVars, formatsVars, headersVars, bitOpsVars>>
Showing == step = "formats" /\ Library /\ UNCHANGED <<listsVars, stringsVars, headersVars, bitOpsVars>>
Sending == step = "headers" /\ Library /\ UNCHANGED <<listsVars, stringsVars, formatsVars, bitOpsVars>>
Changing == step = "bits" /\ Library /\ UNCHANGED <<listsVars, stringsVars, formatsVars, headersVars>>

BootNext ==
    \/ Building /\ MkImageNext
    \/ Starting /\ StartNext
    \/ Coding /\ EncodeBit
    \/ Allocating /\ HeapNext
    \/ Listing /\ ListsNext
    \/ Copying /\ StringsNext
    \/ Showing /\ FormatsNext
    \/ Sending /\ HeadersNext
    \/ Changing /\ BitOpsNext
    \/ Inflating /\ LzmaNext
    \/ Booting /\ BootLinuxNext

BootSpec == BootInit /\ [][BootNext]_bootVars

(* What the decoder delivers is what was compressed, bit by bit and byte   *)
(* by byte (LzmaDecode.c).                                                 *)
DecodedIsEncoded == BitsAreExact /\ FollowsEncoder

(* What the library does: a list is a sequence, unless two items went at   *)
(* once where one had room; a copy is what its source was, overlaps        *)
(* included; a number, a sum and a date mean what they meant; a header is  *)
(* accepted where it was not changed; and no change of a bit is lost       *)
(* (lists.c, string.c, vsprintf.c, crc32.c, date.c, net.c, uip.c,          *)
(* bitops.h; some of it this board does not compile or call).              *)
LibraryIsExact ==
    /\ (step = "lists" => ListIsSequence)
    /\ (step = "strings" => CopiesAreExact /\ ComparesAgree)
    /\ (step = "formats" => TextsAreExact /\ SumsAreExact /\ DatesAreExact)
    /\ (step = "headers" => HeadersAreExact)
    /\ (step = "bits" => NoBitIsLost /\ SearchesAreExact)
=============================================================================
