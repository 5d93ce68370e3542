------------------------------ MODULE SpiFlash ------------------------------
(***************************************************************************)
(* The SPI flash and the commands that change it: erase (cmd_flash.c), cp  *)
(* to flash (cmd_mem.c, flash.c), setmac (cmd_tplink.c) and the web        *)
(* upgrade (do_http_upgrade), run one after the other by run_command, down *)
(* to the sector erases and page programs of ar7240_flash.c.               *)
(*                                                                         *)
(* Addresses are offsets in the flash.  Programming an erased cell stores  *)
(* a value, programming any other only clears more bits (Mixed); a program *)
(* that runs past the end of a page goes on at the start of the same page. *)
(***************************************************************************)
EXTENDS Integers, Sequences

CONSTANTS
    PageSize,       \* AR7240_SPI_PAGE_SIZE
    SectorSize,
    Geometry,       \* chips flash_init knows: JEDEC id -> sector count
    UnknownCount,   \* sector count of any other chip
    JedecId,
    Contents,       \* what memory may hold at the upload address
    Erased, Mixed, Torn,
    TplinkSector, MacCells, Macs,
    Typed,          \* command lines the user enters
    Sizes,          \* sizes of firmware uploads
    MaxLines        \* bound on the command lines run

(* flash_init, flash_set_geom.                                             *)
SectorCount == IF JedecId \in DOMAIN Geometry THEN Geometry[JedecId] ELSE UnknownCount

(* A command, its numbers parsed.                                          *)
Commands ==
    [cmd : {"erase"}, form : {"all", "sectors", "end", "length"}, from : Nat, to : Nat]
    \cup [cmd : {"cp"}, to : Nat, length : Nat]

ASSUME SpiFlashAssumption ==
    /\ PageSize \in Nat \ {0} /\ SectorSize \in Nat \ {0, 1} /\ SectorCount \in Nat \ {0}
    /\ SectorSize % PageSize = 0
    /\ TplinkSector \in 0..(SectorCount - 2) /\ MacCells \subseteq 0..(SectorSize - 1)
    /\ Typed \subseteq Seq(Commands) /\ Sizes \subseteq Nat /\ MaxLines \in Nat

Size == SectorCount * SectorSize
Cells == 0..(Size - 1)
Sectors == 0..(SectorCount - 1)
SectorOf(a) == a \div SectorSize
Start(s) == s * SectorSize
End(s) == Start(s) + SectorSize - 1

ASSUME ContentsAssumption == \A c \in Contents : DOMAIN c = Cells

(* A copy to an address outside the flash is a copy to memory.             *)
ASSUME CopyAssumption ==
    \A l \in Typed : \A i \in 1..Len(l) : l[i].cmd = "cp" => l[i].to \in Cells

VARIABLES
    flash,
    ram,      \* memory at WEBFAILSAFE_UPLOAD_RAM_ADDRESS
    line,     \* the command line being run, or run last: its commands
    next,     \* the one that is next
    op,       \* the flash_erase or write_buff in progress
    rc,       \* run_command's rc
    lines,    \* how many lines have been run
    before    \* flash when the line was entered (auxiliary)

vars == <<flash, ram, line, next, op, rc, lines, before>>

Idle == [kind |-> "idle"]

Finished == next > Len(line) /\ op = Idle

-----------------------------------------------------------------------------
(* The erase command                                                       *)

(* flash_fill_sect_ranges: the sectors from one that starts at first to    *)
(* one that ends at last, or to the end of the flash; none is an error.    *)
FillRanges(first, last) ==
    LET from == {s \in Sectors : first = Start(s) /\ last >= Start(s)}
        to   == {s \in Sectors : \/ last = End(s) /\ first <= End(s)
                                 \/ s = SectorCount - 1 /\ last > End(s)}
    IN  {r \in from \X to : r[1] <= r[2]}

(* addr_spec, "start +length": rounded up to the end of its sector.        *)
RoundUpNot(last) == {last} \cap Cells

RoundUp(last) == {End(s) : s \in {t \in Sectors : Start(t) <= last /\ last <= End(t)}}

(* abbrev_spec, "N:SF-SL".                                                 *)
SectorSpec(from, to) == {r \in {<<from, to>>} \cap (Sectors \X Sectors) : r[1] <= r[2]}

(* do_flerase: the sectors to erase, {} when it is an error.               *)
EraseRange(c) ==
    CASE c.form = "all" -> {<<0, SectorCount - 1>>}
      [] c.form = "sectors" -> SectorSpec(c.from, c.to)
      [] c.form = "end" -> IF c.from < c.to THEN FillRanges(c.from, c.to) ELSE {}
      [] c.form = "length" ->
           UNION {FillRanges(c.from, last) : last \in {l \in RoundUp(c.from + c.to - 1) : c.from < l}}

(* A command ends; run_command goes on with the next one in any case.      *)
Return(result) ==
    /\ next' = next + 1 /\ op' = Idle
    /\ rc' = IF result = "ok" THEN rc ELSE "failed"

Command == next <= Len(line) /\ op = Idle

EraseStarts ==
    /\ Command /\ line[next].cmd = "erase"
    /\ \E r \in EraseRange(line[next]) : op' = [kind |-> "erase", sect |-> r[1], last |-> r[2]]
    /\ UNCHANGED <<flash, ram, line, next, rc, lines, before>>

EraseRefused ==
    /\ Command /\ line[next].cmd = "erase" /\ EraseRange(line[next]) = {}
    /\ Return("error")
    /\ UNCHANGED <<flash, ram, line, lines, before>>

(* One turn of flash_erase.                                                *)
EraseSector ==
    /\ op.kind = "erase"
    /\ flash' = [a \in Cells |-> IF SectorOf(a) = op.sect THEN Erased ELSE flash[a]]
    /\ IF op.sect < op.last
       THEN op' = [op EXCEPT !.sect = @ + 1] /\ UNCHANGED <<next, rc>>
       ELSE Return("ok")
    /\ UNCHANGED <<ram, line, lines, before>>

-----------------------------------------------------------------------------
(* The cp command, to flash                                                *)

(* do_mem_cp refuses a length of zero, flash_write what ends outside.      *)
CopyStarts ==
    /\ Command /\ line[next].cmd = "cp"
    /\ LET c == line[next] IN
         /\ c.length > 0 /\ c.to + c.length - 1 \in Cells
         /\ op' = [kind |-> "write", addr |-> c.to, length |-> c.length, total |-> 0]
    /\ UNCHANGED <<flash, ram, line, next, rc, lines, before>>

CopyRefused ==
    /\ Command /\ line[next].cmd = "cp"
    /\ line[next].length = 0 \/ line[next].to + line[next].length - 1 \notin Cells
    /\ Return("error")
    /\ UNCHANGED <<flash, ram, line, lines, before>>

(* write_buff: how much the next page program writes ...                   *)
ChunkRest(o) == o.length - o.total
ChunkPage(o) == PageSize - (o.addr % PageSize)

Chunk(o) ==
    LET bytes_this_page == PageSize - (o.addr % PageSize)
    IN  IF o.length - o.total > bytes_this_page THEN bytes_this_page ELSE o.length - o.total

Programmed(old, new) ==
    CASE old = Erased -> new
      [] new \in {Erased, old} -> old
      [] OTHER -> Mixed

(* ... and where it goes: n cells from at on, around the page.             *)
Distance(at, a) == ((a % PageSize) + PageSize - (at % PageSize)) % PageSize

Hit(at, n) ==
    {a \in Cells : a \div PageSize = at \div PageSize /\ Distance(at, a) < n}

WritePage ==
    /\ op.kind = "write"
    /\ LET at == op.addr + op.total
           n == Chunk(op)
       IN /\ flash' = [a \in Cells |->
                         IF a \in Hit(at, n)
                         THEN Programmed(flash[a], ram[op.total + Distance(at, a)])
                         ELSE flash[a]]
          /\ IF op.total + n < op.length
             THEN op' = [op EXCEPT !.total = @ + n] /\ UNCHANGED <<next, rc>>
             ELSE Return("ok")
    /\ UNCHANGED <<ram, line, lines, before>>

-----------------------------------------------------------------------------
(* Where command lines come from                                           *)

Run(l) ==
    /\ Finished /\ lines < MaxLines
    /\ line' = l /\ next' = 1 /\ rc' = "ok" /\ lines' = lines + 1 /\ before' = flash
    /\ UNCHANGED <<flash, op>>

(* TFTP or an upload fills memory.                                         *)
Load(c) ==
    /\ Finished
    /\ ram' = c
    /\ line' = <<>> /\ next' = 1 /\ rc' = "ok" /\ before' = flash
    /\ UNCHANGED <<flash, op, lines>>

UserLine(l) == Run(l) /\ UNCHANGED ram

EraseAndCopy(at, erase, length) ==
    << [cmd |-> "erase", form |-> "length", from |-> at, to |-> erase],
       [cmd |-> "cp", to |-> at, length |-> length] >>

(* do_http_upgrade: U-Boot (one sector), the firmware behind it, ART (the  *)
(* last sector).                                                           *)
Upgrades ==
    {EraseAndCopy(0, SectorSize, SectorSize),
     EraseAndCopy(Size - SectorSize, SectorSize, SectorSize)}
    \cup {EraseAndCopy(Start(TplinkSector + 1), size, size) : size \in Sizes}

do_http_upgrade == \E l \in Upgrades : Run(l) /\ UNCHANGED ram

(* do_set_mac: the block that holds the address is copied to memory,       *)
(* changed there and written back.                                         *)
SetMacLine == EraseAndCopy(Start(TplinkSector), SectorSize, SectorSize)

WithMac(f, mac) ==
    [i \in Cells |->
        IF i \in MacCells THEN mac
        ELSE IF i < SectorSize THEN f[Start(TplinkSector) + i]
        ELSE ram[i]]

do_set_mac(mac) == Run(SetMacLine) /\ ram' = WithMac(flash, mac)

(* Power is lost, perhaps in the middle of an erase or a program.          *)
Working ==
    CASE op.kind = "erase" -> {a \in Cells : SectorOf(a) = op.sect}
      [] op.kind = "write" -> Hit(op.addr + op.total, Chunk(op))
      [] OTHER -> {}

PowerLoss ==
    /\ ~Finished
    /\ \E torn \in {{}, Working} :
           flash' = [a \in Cells |-> IF a \in torn THEN Torn ELSE flash[a]]
    /\ ram' \in Contents
    /\ line' = <<>> /\ next' = 1 /\ op' = Idle /\ rc' = "ok"
    /\ before' = flash' /\ UNCHANGED lines

Init ==
    /\ flash = [a \in Cells |-> <<"factory", a>>]
    /\ ram \in Contents
    /\ line = <<>> /\ next = 1 /\ op = Idle /\ rc = "ok" /\ lines = 0
    /\ before = flash

Next ==
    \/ EraseStarts \/ EraseRefused \/ EraseSector
    \/ CopyStarts \/ CopyRefused \/ WritePage
    \/ (\E c \in Contents : Load(c))
    \/ (\E l \in Typed : UserLine(l))
    \/ do_http_upgrade
    \/ (\E mac \in Macs : do_set_mac(mac))
    \/ PowerLoss

Spec == Init /\ [][Next]_vars

-----------------------------------------------------------------------------
(* Properties                                                              *)

TypeOK ==
    /\ DOMAIN flash = Cells /\ DOMAIN ram = Cells /\ DOMAIN before = Cells
    /\ line \in Seq(Commands) /\ next \in 1..(Len(line) + 1)
    /\ rc \in {"ok", "failed"} /\ lines \in 0..MaxLines
    /\ op \in {Idle} \cup [kind : {"erase"}, sect : Sectors, last : Sectors]
              \cup [kind : {"write"}, addr : Cells, length : Nat, total : Nat]
    /\ op.kind = "erase" => op.sect <= op.last
    /\ op.kind = "write" => op.total < op.length /\ op.addr + op.length - 1 \in Cells

(* What a command is said to change: "erase FLASH from addr 'start' to     *)
(* addr 'end'", "to the end of sect w/addr 'start'+'len'-1", "sectors      *)
(* SF-SL", "all"; "copy memory".                                           *)
NamedByErase(c) ==
    CASE c.form = "all" -> Cells
      [] c.form = "sectors" -> {a \in Cells : c.from <= SectorOf(a) /\ SectorOf(a) <= c.to}
      [] c.form = "end" -> {a \in Cells : c.from <= a /\ a <= c.to}
      [] c.form = "length" ->
           {a \in Cells : c.from <= a /\ SectorOf(a) <= SectorOf(c.from + c.to - 1)}

NamedByCopy(c) == {a \in Cells : c.to <= a /\ a < c.to + c.length}

Named(c) == IF c.cmd = "cp" THEN NamedByCopy(c) ELSE NamedByErase(c)

Meant(f, c) ==
    [a \in Cells |-> IF a \notin Named(c) THEN f[a]
                     ELSE IF c.cmd = "erase" THEN Erased ELSE ram[a - c.to]]

MeantUpTo(i) ==
    LET after[k \in 0..Len(line)] == IF k = 0 THEN before ELSE Meant(after[k - 1], line[k])
    IN  after[i]

(* "Assumption: Caller has already erased the appropriate sectors."        *)
ErasedFirst ==
    \A i \in 1..Len(line) :
        line[i].cmd = "cp" => \A a \in Named(line[i]) : MeantUpTo(i - 1)[a] = Erased

(* A command line that reports no error has done to the flash what its     *)
(* commands say, all of it and nothing else; setmac has changed the        *)
(* address and nothing else.                                               *)
LineExact ==
    Finished /\ rc = "ok" =>
        /\ ErasedFirst => flash = MeantUpTo(Len(line))
        /\ line = SetMacLine =>
               \A a \in Cells : a \in {Start(TplinkSector) + i : i \in MacCells} \/ flash[a] = before[a]

(* No step, not even one cut short by a loss of power, changes a cell that *)
(* no command of the line names; a refused command changes none.           *)
OthersKept ==
    [][\A a \in Cells :
          (flash'[a] # flash[a]) => \E i \in 1..Len(line) : a \in Named(line[i])]_vars

(* The upgrade and setmac program erased cells only: what the erase does   *)
(* not cover, or refuses, the copy does not touch.                         *)
ProgramsErased ==
    [][(op.kind = "write" /\ line \in Upgrades \cup {SetMacLine})
        => \A a \in Cells : flash'[a] \in {flash[a], Torn} \/ flash[a] = Erased]_vars
=============================================================================
