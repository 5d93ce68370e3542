------------------------------- MODULE StartUp -------------------------------
(***************************************************************************)
(* From reset to main_loop. Two programs follow each other: the bootstrap  *)
(* in flash sizes the memory, moves itself to the top of it and unpacks    *)
(* the boot loader, which then moves itself to the top of memory as well.  *)
(* Addresses count from CFG_SDRAM_BASE; a region is [from, to).            *)
(***************************************************************************)
EXTENDS Integers, FiniteSets

CONSTANTS
    RamSizes,               \* memory the board may have
    SizeIncrement,          \* AR7240_DDR_SIZE_INCR
    BootstrapLens, UbootLens,   \* lengths with data and bss
    TotalMallocLen,         \* CFG_MALLOC_LEN + CFG_ENV_SIZE
    BdSize, GdSize, BootParamsLen,
    TextBase,               \* TEXT_BASE, where the boot loader is unpacked
    InitSp,                 \* CFG_INIT_SP_OFFSET
    StackUse                \* bound on the stack of either program

ASSUME StartUpAssumption ==
    /\ SizeIncrement \in Nat \ {0}
    /\ \A ram \in RamSizes : ram \in Nat \ {0} /\ ram % SizeIncrement = 0
    /\ BootstrapLens \subseteq Nat \ {0} /\ UbootLens \subseteq Nat \ {0}
    /\ TotalMallocLen \in Nat \ {0} /\ BdSize \in Nat \ {0} /\ GdSize \in Nat \ {0}
    /\ BootParamsLen \in Nat \ {0}
    /\ TextBase \in Nat /\ InitSp \in Nat /\ StackUse \in Nat

VARIABLES
    stage,          \* the function that runs
    memory,         \* the size of the memory of this board
    lens,           \* lengths of the two programs
    flashImage,     \* the compressed boot loader: magic, checksum, decodes
    ramSize,        \* gd->ram_size
    layout,         \* what the running program has reserved
    inUse           \* regions the next step must not write

startVars == <<stage, memory, lens, flashImage, ramSize, layout, inUse>>

Page == 4096
Block == 16384

(* ar7240_ddr_find_size: a byte at 0 changes when an address wraps to it.  *)
Wraps(i) == (i * SizeIncrement) % memory = 0

FirstWrap == CHOOSE i \in 1 .. memory \div SizeIncrement : Wraps(i) /\ \A j \in 1 .. i - 1 : ~Wraps(j)

(* Mutant: the size is returned in kilobytes.                              *)
FoundSizeKilobytes == FirstWrap * (SizeIncrement \div 1024)

FoundSize == FirstWrap * SizeIncrement

Down(x, unit) == x - (x % unit)

CodeStart(ram, len) == Down(Down(ram, Page) - len, Block)

(* board_init_f and bootstrap_board_init_f: code, malloc arena, board      *)
(* info, global data, boot parameters, and the stack below them.           *)
MallocStart(ram, len) == CodeStart(ram, len) - TotalMallocLen
BdStart(ram, len) == MallocStart(ram, len) - BdSize
GdStart(ram, len) == BdStart(ram, len) - GdSize
ParamsStart(ram, len) == GdStart(ram, len) - BootParamsLen
StackTop(ram, len) == Down(ParamsStart(ram, len) - 16, 16) - 8

(* Nothing in the code checks that the memory has room for a program and   *)
(* its stack above the place where the boot loader is unpacked, and that   *)
(* above the first stack.                                                  *)
ASSUME EnoughMemory ==
    /\ InitSp <= TextBase
    /\ \A ram \in RamSizes, len \in BootstrapLens \cup UbootLens, unpacked \in UbootLens :
           StackTop(ram, len) - StackUse >= TextBase + unpacked

Region(from, to) == [from |-> from, to |-> to]

Layout(ram, len) ==
    [code |-> Region(CodeStart(ram, len), CodeStart(ram, len) + len),
     malloc |-> Region(MallocStart(ram, len), CodeStart(ram, len)),
     bd |-> Region(BdStart(ram, len), MallocStart(ram, len)),
     gd |-> Region(GdStart(ram, len), BdStart(ram, len)),
     params |-> Region(ParamsStart(ram, len), GdStart(ram, len)),
     stack |-> Region(StackTop(ram, len) - StackUse, StackTop(ram, len))]

NoLayout == [code |-> Region(0, 0), malloc |-> Region(0, 0), bd |-> Region(0, 0),
             gd |-> Region(0, 0), params |-> Region(0, 0), stack |-> Region(0, 0)]

FirstStack == Region(InitSp - StackUse, InitSp)
UnpackedAt(len) == Region(TextBase, TextBase + len)
Apart(a, b) == a.to <= b.from \/ b.to <= a.from

(* bootstrap_board_init_f; initdram returns the size.                      *)
BootstrapInitF ==
    /\ stage = "bootstrap_board_init_f"
    /\ ramSize' = FoundSize
    /\ layout' = Layout(FoundSize, lens.bootstrap)
    /\ inUse' = {FirstStack}
    /\ stage' = "bootstrap_board_init_r"
    /\ UNCHANGED <<memory, lens, flashImage>>

(* bootstrap_board_init_r: the magic and the checksum of the header, but   *)
(* not of the data; a failure returns to nowhere.                          *)
HeaderIsRight == flashImage.magic /\ flashImage.hcrc

BootstrapInitR ==
    /\ stage = "bootstrap_board_init_r"
    /\ stage' = IF HeaderIsRight /\ flashImage.decodes THEN "board_init_f" ELSE "returned"
    /\ inUse' = IF HeaderIsRight THEN {layout.code, layout.stack, layout.gd, layout.malloc} ELSE inUse
    /\ UNCHANGED <<memory, lens, flashImage, ramSize, layout>>

(* board_init_f(bootflag) on the first stack again, in the unpacked        *)
(* program; relocate_code copies it.                                       *)
BoardInitF ==
    /\ stage = "board_init_f"
    /\ layout' = Layout(ramSize, lens.uboot)
    /\ inUse' = {FirstStack, UnpackedAt(lens.uboot)}
    /\ stage' = "board_init_r"
    /\ UNCHANGED <<memory, lens, flashImage, ramSize>>

BoardInitR ==
    /\ stage = "board_init_r"
    /\ stage' = "main_loop"
    /\ inUse' = {layout[r] : r \in DOMAIN layout}
    /\ UNCHANGED <<memory, lens, flashImage, ramSize, layout>>

StartInit ==
    /\ stage = "bootstrap_board_init_f" /\ memory \in RamSizes
    /\ lens \in [bootstrap : BootstrapLens, uboot : UbootLens]
    /\ flashImage \in [magic : BOOLEAN, hcrc : BOOLEAN, decodes : BOOLEAN]
    /\ ramSize = 0 /\ layout = NoLayout /\ inUse = {}

StartNext == BootstrapInitF \/ BootstrapInitR \/ BoardInitF \/ BoardInitR

StartSpec == StartInit /\ [][StartNext]_startVars

-----------------------------------------------------------------------------
(* What a program reserves lies in the memory that the board has, in       *)
(* regions that do not touch each other, the code and the stack aligned.   *)
SoundLayout(l) ==
    /\ l.code.to <= memory /\ l.stack.from >= 0
    /\ \A r, s \in DOMAIN l : r # s => Apart(l[r], l[s])
    /\ l.code.from % 16 = 0 /\ l.stack.to % 8 = 0

(* A program that moves itself or unpacks another writes over nothing that *)
(* is still needed: the stack it runs on, the program it copies; and the   *)
(* boot loader is unpacked below all that the bootstrap still uses.        *)
NothingOverwritten ==
    /\ stage \in {"bootstrap_board_init_r", "board_init_r"} =>
           \A r \in DOMAIN layout, u \in inUse : Apart(layout[r], u)
    /\ stage = "board_init_f" => \A u \in inUse : Apart(UnpackedAt(lens.uboot), u)

(* Both in every state of a start (board.c, bootstrap_board.c).            *)
LayoutIsSound == (layout # NoLayout => SoundLayout(layout)) /\ NothingOverwritten
=============================================================================
