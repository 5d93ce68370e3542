------------------------------ MODULE Updater ------------------------------
(***************************************************************************)
(* tools/updater: a program that replaces the boot loader in a parallel    *)
(* flash with a bus of its own (XD), which the processor is switched to    *)
(* for every access (update.c, flash.c, cmd_flash.c, flash_hw.c).          *)
(* A byte is the set of its bits that read one; erased, it is all of Bits. *)
(***************************************************************************)
EXTENDS Integers, FiniteSets

CONSTANTS
    SectorCount, SectorSize, WordSize,
    FlashBase, AddrSpace,       \* addresses wrap at AddrSpace
    Bits, D7,                   \* D7: the bit that is polled
    ImageAt, OldCells,          \* bytes by their place in the flash
    MonitorSectors              \* protected by flash_init

FlashSize == SectorCount * SectorSize
Places == 0 .. FlashSize - 1
SectorIds == 0 .. SectorCount - 1
SectorOf(p) == p \div SectorSize

ASSUME UpdaterAssumption ==
    /\ {SectorCount, SectorSize, WordSize, FlashBase} \subseteq Nat \ {0}
    /\ FlashSize % WordSize = 0 /\ FlashBase + FlashSize <= AddrSpace /\ FlashBase > FlashSize
    /\ D7 \in Bits /\ MonitorSectors \subseteq SectorIds
    /\ {ImageAt, OldCells} \subseteq [Places -> SUBSET Bits]

VARIABLES
    chip,       \* what it answers to auto select, and its locked sectors
    info,       \* flash_info[0]
    cells,
    nest,       \* flash_xd_nest
    updater     \* do_updater: where it is, the next place to write, flash_write's result

updaterVars == <<chip, info, cells, nest, updater>>

NoFlash == [known |-> FALSE, count |-> 0, size |-> 0, start |-> [s \in SectorIds |-> 0], protect |-> {}]

(* do_updater's constants: 0xFFF00000, 0xFFF7FFFF and 0x7FFFF bytes.       *)
first == FlashBase
last == FlashBase + FlashSize - 1
count == FlashSize - 1

-----------------------------------------------------------------------------
(* flash_get_size: only the 29F040 has its offsets computed; the others    *)
(* keep what was known before that failed.                                 *)
flash_get_size ==
    CASE chip.kind = "F040B" ->
            [known |-> TRUE, count |-> SectorCount, size |-> FlashSize,
             start |-> [s \in SectorIds |-> FlashBase + s * (FlashSize \div SectorCount)],
             protect |-> chip.locked \cup MonitorSectors]
      [] chip.kind = "LV160T" ->
            [NoFlash EXCEPT !.known = TRUE, !.count = SectorCount, !.size = FlashSize]
      [] OTHER -> NoFlash

(* What a call leaves of the nesting; the return for an unknown            *)
(* manufacturer does not give the bus back.                                *)
GetSizeNest == IF chip.kind = "no manufacturer" THEN 1 ELSE 0

flash_init ==
    /\ updater.at = "init"
    /\ info' = flash_get_size
    /\ nest' = GetSizeNest
    /\ updater' = [updater EXCEPT !.at = "unprotect"]
    /\ UNCHANGED <<chip, cells>>

SectorEnd(s) ==
    IF s = info.count - 1 THEN info.start[0] + info.size - 1
    ELSE (info.start[s + 1] - 1) % AddrSpace

(* flash_sect_protect, flash_sect_erase: the sectors from the last one     *)
(* that starts at the first address to the last one that ends at the last. *)
InRange(s) == first <= SectorEnd(s) /\ last >= info.start[s]
Greatest(S) == CHOOSE s \in S \cup {-1} : \A t \in S : t <= s
Bounds ==
    LET known == IF info.known THEN 0 .. info.count - 1 ELSE {}
        s_first == Greatest({s \in known : InRange(s) /\ info.start[s] = first})
        s_last == Greatest({s \in known : InRange(s) /\ SectorEnd(s) = last})
    IN  <<s_first, s_last>>

SectorRange == IF Bounds[1] >= 0 THEN Bounds[1] .. Bounds[2] ELSE {}

(* flash_sect_protect; do_updater does not look at the result.             *)
flash_sect_protect(on) ==
    info' = [info EXCEPT !.protect = IF on THEN @ \cup SectorRange ELSE @ \ SectorRange]

Unprotect ==
    /\ updater.at = "unprotect"
    /\ flash_sect_protect(FALSE)
    /\ updater' = [updater EXCEPT !.at = "erase"]
    /\ UNCHANGED <<chip, cells, nest>>

-----------------------------------------------------------------------------
ErasedCells(S) == [p \in Places |-> IF SectorOf(p) \in S THEN Bits ELSE cells[p]]

(* The last sector that was started is polled, by its first byte.          *)
LastReady(S, c) == D7 \in c[SectorSize * Greatest(S)]

EraseNest(done) == nest

(* flash_erase: protected sectors are passed over; the chip does not erase *)
(* the ones that are locked.  Before it is ready, the time may run out.    *)
flash_erase ==
    /\ updater.at = "erase"
    /\ LET started == SectorRange \ info.protect IN
       \E S \in SUBSET (started \ chip.locked) :
          \E done \in BOOLEAN :
            /\ done => S = started \ chip.locked /\ (started # {} => LastReady(started, ErasedCells(S)))
            /\ ~done => started # {}
            /\ cells' = ErasedCells(S)
            /\ nest' = EraseNest(done)
    /\ updater' = [updater EXCEPT !.at = "write"]
    /\ UNCHANGED <<chip, info>>

-----------------------------------------------------------------------------
(* addr2info; the last address is compared, as the next one may wrap.      *)
InBank(a) == info.known /\ a >= info.start[0] /\ a <= info.start[0] + info.size - 1

(* flash_write's tests: ERR_INVAL, ERR_PROTECTED.                          *)
WriteRefused ==
    IF ~InBank(first) \/ ~InBank(first + count - 1) THEN 8
    ELSE IF \E s \in info.protect : s * SectorSize < count THEN 4
    ELSE 0

Finish(rc) == updater' = [updater EXCEPT !.at = "protect", !.rc = rc]

RefuseWrite ==
    /\ updater.at = "write" /\ updater.wp = 0 /\ WriteRefused # 0
    /\ Finish(WriteRefused)
    /\ UNCHANGED <<chip, info, cells, nest>>

(* write_buff: the bytes of a word, completed from the flash.              *)
WordData(p) == IF p < count THEN ImageAt[p] ELSE cells[p]

Word == updater.wp .. updater.wp + WordSize - 1

ErasedEnough(p) == WordData(p) \subseteq cells[p]

Programmed(p) == IF SectorOf(p) \in chip.locked THEN cells[p] ELSE cells[p] \cap WordData(p)

(* Data polling: only D7 is compared.                                      *)
Polled(p) == (D7 \in Programmed(p)) <=> (D7 \in WordData(p))


NextWord == updater.wp + WordSize

(* write_word: each byte is programmed and polled.                         *)
WriteWord ==
    /\ updater.at = "write" /\ updater.wp < count /\ WriteRefused = 0
    /\ \A p \in Word : ErasedEnough(p) /\ Polled(p)
    /\ cells' = [p \in Places |-> IF p \in Word THEN Programmed(p) ELSE cells[p]]
    /\ updater' = [updater EXCEPT !.wp = NextWord]
    /\ UNCHANGED <<chip, info, nest>>

NotErased ==
    /\ updater.at = "write" /\ updater.wp < count /\ WriteRefused = 0
    /\ \E p \in Word : ~ErasedEnough(p)
    /\ Finish(2)
    /\ UNCHANGED <<chip, info, cells, nest>>

(* The byte at p is not ready in time; it may have been programmed.        *)
WriteTimeout ==
    /\ updater.at = "write" /\ updater.wp < count /\ WriteRefused = 0
    /\ \A p \in Word : ErasedEnough(p)
    /\ \E p \in Word : \E b \in {cells[p], Programmed(p)} :
          /\ \A q \in Word : q < p => Polled(q)
          /\ cells' = [q \in Places |-> IF q \in Word /\ q < p THEN Programmed(q) ELSE IF q = p THEN b ELSE cells[q]]
    /\ Finish(1)
    /\ UNCHANGED <<chip, info, nest>>

WriteEnds ==
    /\ updater.at = "write" /\ updater.wp >= count
    /\ Finish(0)
    /\ UNCHANGED <<chip, info, cells, nest>>

Protect ==
    /\ updater.at = "protect"
    /\ flash_sect_protect(TRUE)
    /\ updater' = [updater EXCEPT !.at = "done"]
    /\ UNCHANGED <<chip, cells, nest>>

UpdaterInit ==
    /\ chip \in [kind : {"F040B", "LV160T", "no device", "no manufacturer"}, locked : SUBSET SectorIds]
    /\ info = NoFlash
    /\ cells = OldCells /\ nest = 0
    /\ updater = [at |-> "init", wp |-> 0, rc |-> 0]

UpdaterNext ==
    \/ flash_init \/ Unprotect \/ flash_erase \/ RefuseWrite \/ WriteWord \/ NotErased
    \/ WriteTimeout \/ WriteEnds \/ Protect

UpdaterSpec == UpdaterInit /\ [][UpdaterNext]_updaterVars /\ WF_updaterVars(UpdaterNext)

-----------------------------------------------------------------------------
UpdaterTypeOK ==
    /\ cells \in [Places -> SUBSET Bits] /\ info.protect \subseteq SectorIds
    /\ updater.wp \in 0 .. FlashSize /\ updater.rc \in {0, 1, 2, 4, 8}
    /\ updater.at \in {"init", "unprotect", "erase", "write", "protect", "done"}

(* A write that is reported as done has put the image into the flash, with *)
(* sectors left unerased by a time-out nobody looks at; in a sector that   *)
(* is locked in the chip, polling one bit cannot tell.                     *)
ReportedIsWritten ==
    updater.at = "done" /\ updater.rc = 0 =>
        \A p \in 0 .. count - 1 : cells[p] = ImageAt[p] \/ SectorOf(p) \in chip.locked

(* What follows the last byte of the image in its word is not touched.     *)
TailUntouched == updater.wp >= count => \A p \in count .. FlashSize - 1 : cells[p] \in {Bits, OldCells[p]}

(* Every way out of the driver gives the flash back to the memory bus;     *)
(* except for a chip of an unknown manufacturer (flash_hw.c:170).          *)
XdGivenBack == chip.kind # "no manufacturer" => nest = 0

(* What the updater leaves behind when it reports success.                 *)
FlashIsReported == UpdaterTypeOK /\ ReportedIsWritten /\ TailUntouched /\ XdGivenBack

(* Once started, the updater comes to its end, as each wait has a limit.   *)
UpdateEnds == (updater.at = "unprotect") ~> (updater.at = "done")
=============================================================================
