----------------------------- MODULE BootLinux -----------------------------
(***************************************************************************)
(* lzma_inflate in the first program, then do_bootm, lzma_inflate and      *)
(* do_bootm_linux: from an image in memory to the arguments and the        *)
(* environment of the kernel. Several bootm of one run of the boot loader  *)
(* follow each other when they fail.                                       *)
(***************************************************************************)
EXTENDS Integers, SequencesExt

CONSTANTS
    KernelLens,         \* kernelLen of the images; the streams have this length
    BootArgs,           \* values of bootargs: "x", " ", "quote", "mem=", "REVISIONID"
    LinuxMaxArgs,       \* LINUX_MAX_ARGS
    UintMax,            \* 2^32 - 1
    MaxBootm            \* bound on the commands of one run

ASSUME BootLinuxAssumption == UintMax \in Nat /\ LinuxMaxArgs \in Nat \ {0, 1}

VARIABLES
    bootArgs,           \* bootargs
    kernelImage,        \* the image that is unpacked
    rpos,               \* static in the second program's LzmaWrapper.c
    bootState,          \* "first_stage", "returned", "prompt", "kernel",
                        \* "reset", "exception"
    passed,             \* what the kernel gets
    bootms

bootLinuxVars == <<bootArgs, kernelImage, rpos, bootState, passed, bootms>>

NoArgs == <<"undefined">>
PropertiesSize == 5
StreamHeader == PropertiesSize + 8

(* An image: its length, what its stream header says, whether the stream   *)
(* decodes. props: they are valid and malloc has room for the              *)
(* probabilities. high stands for sizes from 2^32 on, too_big for those    *)
(* beyond the address of unc_len, with which outSizeFull is compared.      *)
KernelImages ==
    [len : KernelLens, props : BOOLEAN, size : {"eos", "high", "too_big", "fits", "zero"}, decodes : BOOLEAN]
GoodImage(im) == im.len > StreamHeader /\ im.props /\ im.size = "fits" /\ im.decodes

(* LZMA properties and size: from the image, or from within its stream.    *)
HeaderRead(im, at) ==
    IF at = 0 THEN {[props |-> im.props, size |-> im.size]}
    ELSE [props : BOOLEAN, size : {"eos", "high", "too_big", "fits", "zero"}]

(* rpos after the properties and the size.                                 *)
ReadPos(at) == at + StreamHeader

CompressedSize(im) == (im.len - StreamHeader) % (UintMax + 1)

(* Mutant: the end of the stream is not compared.                          *)
BuffersFitAnywhere(im, h, at) == h.size # "too_big"

BuffersFit(im, h, at) ==
    /\ h.size # "too_big"
    /\ CompressedSize(im) # 0 => (CompressedSize(im) + at) % (UintMax + 1) <= im.len

(* The results lzma_inflate may have: LZMA_RESULT_OK or not. Nothing is    *)
(* decoded when the size is 0, but five bytes are read.                    *)
InflateResults(im, at) ==
    UNION {IF h.size \in {"eos", "high"} \/ ~h.props \/ ~BuffersFit(im, h, ReadPos(at)) THEN {FALSE}
           ELSE IF at = 0 /\ im.len > StreamHeader
                THEN {im.decodes}
                ELSE BOOLEAN : h \in HeaderRead(im, at)}

(* linux_params_init: the end of the first argument, from i on.            *)
NextOf(s, c, i) == IF \E j \in i .. Len(s) : s[j] = c THEN CHOOSE j \in i .. Len(s) : s[j] = c /\ \A k \in i .. j - 1 : s[k] # c ELSE 0

BlankAfter(s, close) == NextOf(s, " ", close + 1)

RECURSIVE ArgEnd(_, _, _)
ArgEnd(s, quote, next) ==
    IF next = 0 THEN Len(s) + 1
    ELSE IF quote = 0 \/ quote > next THEN next
    ELSE LET close == NextOf(s, "quote", quote + 1) IN
         IF close = 0 THEN Len(s) + 1
         ELSE ArgEnd(s, NextOf(s, "quote", close + 1), BlankAfter(s, close))

(* The chip is an ar7240: python.                                          *)
ArgText(w) == IF w = <<"REVISIONID">> THEN <<"python">> ELSE w

RECURSIVE ArgsFrom(_, _)
ArgsFrom(s, argv) ==
    IF s = <<>> \/ Len(argv) = LinuxMaxArgs THEN argv
    ELSE LET e == ArgEnd(s, NextOf(s, "quote", 1), NextOf(s, " ", 1))
         IN  ArgsFrom(SubSeq(s, e + 1, Len(s)), Append(argv, ArgText(SubSeq(s, 1, e - 1))))

(* argv[LinuxMaxArgs] is where the text of argv[1] begins.                 *)
linux_argv(s) ==
    LET argv == ArgsFrom(s, <<<<"0">>>>)
        all == IF Contains(s, "mem=") THEN argv ELSE Append(argv, <<"mem=", "ram">>)
    IN  IF Len(all) > LinuxMaxArgs THEN [all EXCEPT ![2] = <<"pointer">>] ELSE all

(* linux_env_set, in order.                                                *)
linux_env(initrd) ==
    <<<<"memsize", "ram">>, <<"initrd_start", initrd.start>>, <<"initrd_size", initrd.size>>,
      <<"flash_start", "flash">>, <<"flash_size", "flash">>>>

NoInitrd == [start |-> "0", size |-> "0", good |-> TRUE]
Ramdisks == [start : {"data"}, size : {"size"}, good : BOOLEAN]

BootsLinux(argv, initrd) ==
    /\ bootState' = "kernel"
    /\ passed' = [argv |-> argv, env |-> linux_env(initrd)]

(* The first program unpacks the second; its rpos is used only once.       *)
BootstrapInflate ==
    /\ bootState = "first_stage"
    /\ \E ok \in InflateResults(kernelImage, 0) : bootState' = IF ok THEN "prompt" ELSE "returned"
    /\ UNCHANGED <<bootArgs, kernelImage, rpos, passed, bootms>>

(* do_bootm with an address or a default one, and perhaps a ramdisk, whose *)
(* magic, header checksum and type must be right. strstr reads bootargs    *)
(* even when it is not defined.                                            *)
Bootm ==
    /\ bootState = "prompt" /\ bootms < MaxBootm
    /\ bootms' = bootms + 1
    /\ rpos' = ReadPos(rpos)
    /\ \E ok \in InflateResults(kernelImage, rpos), initrd \in {NoInitrd} \cup Ramdisks :
           IF ~ok THEN UNCHANGED <<bootState, passed>>
           ELSE IF ~initrd.good
           THEN bootState' = "reset" /\ UNCHANGED passed
           ELSE IF bootArgs = NoArgs
           THEN bootState' = "exception" /\ UNCHANGED passed
           ELSE BootsLinux(linux_argv(bootArgs), initrd)
    /\ UNCHANGED <<bootArgs, kernelImage>>

LoadImage ==
    /\ bootState = "prompt"
    /\ kernelImage' \in KernelImages
    /\ UNCHANGED <<bootArgs, rpos, bootState, passed, bootms>>

(* A new start: all variables are initialised again, and the image in      *)
(* flash may be another.                                                   *)
Restart ==
    /\ bootState \in {"reset", "exception", "kernel"}
    /\ bootState' = "first_stage" /\ rpos' = 0 /\ bootms' = 0 /\ passed' = [argv |-> <<>>, env |-> <<>>]
    /\ kernelImage' \in KernelImages
    /\ UNCHANGED bootArgs

BootLinuxInit ==
    /\ bootArgs \in BootArgs \cup {NoArgs} /\ kernelImage \in KernelImages
    /\ rpos = 0 /\ bootState = "first_stage" /\ bootms = 0 /\ passed = [argv |-> <<>>, env |-> <<>>]

BootLinuxNext == BootstrapInflate \/ Bootm \/ LoadImage \/ Restart

BootLinuxSpec == BootLinuxInit /\ [][BootLinuxNext]_bootLinuxVars
-----------------------------------------------------------------------------
(* The words of bootargs: it is split at the blanks with an even number of *)
(* quotes before them, and an empty word at the end does not count.        *)
Separating(s) == {i \in DOMAIN s : s[i] = " " /\ Cardinality({j \in 1 .. i : s[j] = "quote"}) % 2 = 0}
WordsOf(s) ==
    LET ends == SetToSortSeq(Separating(s) \cup {0, Len(s) + 1}, <)
        words == [k \in 1 .. Len(ends) - 1 |-> SubSeq(s, ends[k] + 1, ends[k + 1] - 1)]
    IN  IF words # <<>> /\ Last(words) = <<>> THEN Front(words) ELSE words

(* The kernel gets the words of bootargs, each as one argument, and once   *)
(* the size of the memory; as many arguments as fit are not damaged.       *)
WordsPassed ==
    bootState = "kernel" /\ Len(WordsOf(bootArgs)) + 2 <= LinuxMaxArgs =>
        LET args == Tail(passed.argv)  words == WordsOf(bootArgs) IN
        /\ \A k \in DOMAIN words : args[k] = ArgText(words[k])
        /\ Cardinality({k \in DOMAIN args : Contains(args[k], "mem=")}) >= 1
        /\ ~Contains(bootArgs, "mem=") => Last(args) = <<"mem=", "ram">> /\ Len(args) = Len(words) + 1

(* What is started is the image that was loaded, decoded from its          *)
(* beginning, however many images were refused before; it gets its words.  *)
(* The first program only stops for an image that is not good              *)
(* (LzmaWrapper.c, mips_linux.c).                                          *)
KernelIsImage ==
    /\ bootState = "returned" => ~GoodImage(kernelImage)
    /\ bootState = "kernel" /\ kernelImage.len > StreamHeader =>
           rpos = ReadPos(0) /\ kernelImage.decodes /\ kernelImage.props
    /\ WordsPassed

(* "boot application image from memory" (cmd_bootm.c:230): a good image    *)
(* starts a kernel, or the board is reset.                                 *)
GoodImageBoots ==
    [][bootms' > bootms /\ GoodImage(kernelImage) => bootState' # "prompt"]_bootLinuxVars
=============================================================================
