----------------------------- MODULE BoardProofs -----------------------------
(***************************************************************************)
(* Theorems about what the commands find on the board: SpiFlash, for every *)
(* geometry, page size, command line and upload, and Memory, for every     *)
(* size of memory, command and fault.                                      *)
(***************************************************************************)
EXTENDS MCBoard, SequenceTheorems, WellFoundedInduction, TLAPS

-----------------------------------------------------------------------------
(* Sectors and pages                                                       *)

LEMMA Sizes1 ==
    /\ PageSize \in Nat \ {0} /\ SectorSize \in Nat \ {0} /\ SectorCount \in Nat \ {0}
    /\ Size \in Nat \ {0} /\ Cells \subseteq Nat
  <1>1. Size \in Nat \ {0}
    BY SpiFlashAssumption DEF Size
  <1> QED
    BY <1>1, SpiFlashAssumption DEF Cells

(* Sectors follow each other.                                              *)
LEMMA Ordered ==
    ASSUME NEW s \in Sectors, NEW t \in Sectors, s < t
    PROVE  End(s) < Start(t)
  <1>1. (t - s - 1) * SectorSize >= 0
    BY Sizes1 DEF Sectors
  <1>2. t * SectorSize = s * SectorSize + SectorSize + (t - s - 1) * SectorSize
    BY Sizes1 DEF Sectors
  <1> QED
    BY <1>1, <1>2, Sizes1 DEF Sectors, Start, End

LEMMA SectorBounds ==
    ASSUME NEW a \in Cells
    PROVE  /\ SectorOf(a) \in Sectors
           /\ Start(SectorOf(a)) <= a /\ a <= End(SectorOf(a))
  BY Sizes1 DEF Cells, Sectors, SectorOf, Start, End, Size

LEMMA Monotone ==
    ASSUME NEW s \in Sectors, NEW t \in Sectors, s <= t
    PROVE  Start(s) <= Start(t) /\ End(s) <= End(t) /\ Start(s) <= End(t)
  <1>1. CASE s = t
    BY <1>1, Sizes1 DEF Sectors, Start, End
  <1>2. CASE s < t
    BY <1>2, Ordered, Sizes1 DEF Sectors, Start, End
  <1> QED
    BY <1>1, <1>2 DEF Sectors

LEMMA SectorOfIn ==
    ASSUME NEW a \in Cells, NEW s \in Sectors, Start(s) <= a, a <= End(s)
    PROVE  SectorOf(a) = s
  <1>a. /\ a \in Int /\ SectorOf(a) \in Sectors
        /\ Start(SectorOf(a)) <= a /\ a <= End(SectorOf(a))
    BY SectorBounds, Sizes1
  <1>b. \A t \in Sectors : Start(t) \in Int /\ End(t) \in Int
    BY Sizes1 DEF Sectors, Start, End
  <1>1. ~(SectorOf(a) < s)
    <2> SUFFICES ASSUME SectorOf(a) < s PROVE FALSE
      OBVIOUS
    <2>1. End(SectorOf(a)) < Start(s)
      BY <1>a, Ordered
    <2> QED
      BY <1>a, <1>b, <2>1
  <1>2. ~(s < SectorOf(a))
    <2> SUFFICES ASSUME s < SectorOf(a) PROVE FALSE
      OBVIOUS
    <2>1. End(s) < Start(SectorOf(a))
      BY <1>a, Ordered
    <2> QED
      BY <1>a, <1>b, <2>1
  <1> QED
    BY <1>a, <1>1, <1>2 DEF Sectors

-----------------------------------------------------------------------------
(* What an erase command erases                                            *)

SectorCells(r) == {a \in Cells : r[1] <= SectorOf(a) /\ SectorOf(a) <= r[2]}

LEMMA FilledRange ==
    ASSUME NEW lo \in Nat, NEW hi \in Int, NEW r \in FillRanges(lo, hi)
    PROVE  /\ r \in Sectors \X Sectors /\ r[1] <= r[2] /\ lo = Start(r[1])
           /\ hi = End(r[2]) \/ (r[2] = SectorCount - 1 /\ hi > End(r[2]))
  BY DEF FillRanges

LEMMA FilledCells ==
    ASSUME NEW lo \in Nat, NEW hi \in Int, NEW r \in FillRanges(lo, hi),
           NEW a \in SectorCells(r)
    PROVE  lo <= a /\ a <= hi
  <1>1. /\ r[1] \in Sectors /\ r[2] \in Sectors /\ SectorOf(a) \in Sectors /\ a \in Cells
        /\ r[1] <= SectorOf(a) /\ SectorOf(a) <= r[2]
    BY FilledRange, SectorBounds DEF SectorCells
  <1>2. Start(r[1]) <= Start(SectorOf(a)) /\ End(SectorOf(a)) <= End(r[2])
    BY <1>1, Monotone
  <1>3. Start(SectorOf(a)) <= a /\ a <= End(SectorOf(a))
    BY <1>1, SectorBounds
  <1>4. \A s \in Sectors : Start(s) \in Int /\ End(s) \in Int
    BY Sizes1 DEF Sectors, Start, End
  <1> QED
    BY <1>1, <1>2, <1>3, <1>4, FilledRange, Sizes1

LEMMA LastSector ==
    ASSUME NEW hi \in Int, NEW l \in RoundUp(hi)
    PROVE  /\ hi \in Cells /\ SectorOf(hi) \in Sectors
           /\ l = End(SectorOf(hi)) /\ l \in Cells
  <1>1. PICK t \in Sectors : l = End(t) /\ Start(t) <= hi /\ hi <= End(t)
    BY DEF RoundUp
  <1>2. End(t) \in Cells /\ 0 <= Start(t)
    <2>1. End(t) <= End(SectorCount - 1) /\ SectorCount - 1 \in Sectors
      BY Monotone, Sizes1 DEF Sectors
    <2>2. End(SectorCount - 1) = Size - 1
      BY Sizes1 DEF Size, Start, End
    <2>3. 0 <= t * SectorSize
      BY Sizes1 DEF Sectors
    <2> QED
      BY <2>1, <2>2, <2>3, Sizes1 DEF Cells, Sectors, Start, End
  <1>3. hi \in Cells
    BY <1>1, <1>2, Sizes1 DEF Cells, Start, Sectors
  <1> QED
    BY <1>1, <1>2, <1>3, SectorOfIn, SectorBounds

(* An erase stays within what its command line names.                      *)
LEMMA EraseWithin ==
    ASSUME NEW c \in Commands, c.cmd = "erase", NEW r \in EraseRange(c)
    PROVE  /\ r[1] \in Sectors /\ r[2] \in Sectors /\ r[1] <= r[2]
           /\ SectorCells(r) \subseteq NamedByErase(c)
  <1>1. c.from \in Nat /\ c.to \in Nat
    BY DEF Commands
  <1>2. CASE c.form = "all"
    <2>1. r = <<0, SectorCount - 1>>
      BY <1>2 DEF EraseRange
    <2>2. NamedByErase(c) = Cells
      BY <1>2 DEF NamedByErase
    <2> QED
      BY <2>1, <2>2, Sizes1 DEF Sectors, SectorCells
  <1>3. CASE c.form = "sectors"
    <2>1. r = <<c.from, c.to>> /\ r \in Sectors \X Sectors /\ r[1] <= r[2]
      BY <1>3 DEF EraseRange, SectorSpec
    <2>2. NamedByErase(c) = {a \in Cells : c.from <= SectorOf(a) /\ SectorOf(a) <= c.to}
      BY <1>3 DEF NamedByErase
    <2> QED
      BY <2>1, <2>2 DEF SectorCells
  <1>4. CASE c.form = "end"
    <2>1. r \in FillRanges(c.from, c.to)
      BY <1>4 DEF EraseRange
    <2>2. NamedByErase(c) = {a \in Cells : c.from <= a /\ a <= c.to}
      BY <1>4 DEF NamedByErase
    <2>3. \A a \in SectorCells(r) : a \in Cells /\ c.from <= a /\ a <= c.to
      BY <1>1, <2>1, FilledCells DEF SectorCells
    <2> QED
      BY <1>1, <2>1, <2>2, <2>3, FilledRange
  <1>5. CASE c.form = "length"
    <2>1. PICK hi \in RoundUp(c.from + c.to - 1) : r \in FillRanges(c.from, hi)
      BY <1>5 DEF EraseRange
    <2> DEFINE t == SectorOf(c.from + c.to - 1)
    <2>2. t \in Sectors /\ hi = End(t) /\ hi \in Cells
      BY <1>1, <2>1, LastSector
    <2>3. NamedByErase(c) = {a \in Cells : c.from <= a /\ SectorOf(a) <= t}
      BY <1>5 DEF NamedByErase
    <2>4. hi \in Int /\ r[2] \in Sectors /\ r[1] \in Sectors /\ r[1] <= r[2]
      BY <1>1, <2>1, <2>2, FilledRange, Sizes1 DEF Cells
    <2>5. \A a \in SectorCells(r) : a \in Cells /\ c.from <= a /\ SectorOf(a) <= t
      <3> SUFFICES ASSUME NEW a \in SectorCells(r)
                   PROVE  a \in Cells /\ c.from <= a /\ SectorOf(a) <= t
        OBVIOUS
      <3>1. a \in Cells /\ c.from <= a /\ a <= End(t) /\ a \in Int
        BY <1>1, <2>1, <2>2, <2>4, FilledCells, Sizes1 DEF SectorCells
      <3>2. SectorOf(a) \in Sectors /\ Start(SectorOf(a)) <= a
        BY <3>1, SectorBounds
      <3>3. ~(t < SectorOf(a))
        BY <2>2, <3>1, <3>2, Ordered, Sizes1 DEF Sectors, Start, End
      <3> QED
        BY <2>2, <3>1, <3>2, <3>3 DEF Sectors
    <2> QED
      BY <2>3, <2>4, <2>5
  <1> QED
    BY <1>2, <1>3, <1>4, <1>5 DEF Commands

-----------------------------------------------------------------------------
(* What a page program writes                                              *)

LEMMA InPage ==
    ASSUME NEW a \in Nat
    PROVE  /\ a % PageSize \in 0..(PageSize - 1) /\ a \div PageSize \in Nat
           /\ a = PageSize * (a \div PageSize) + (a % PageSize)
  BY Sizes1

LEMMA DistanceIs ==
    ASSUME NEW at \in Nat, NEW a \in Nat, a \div PageSize = at \div PageSize
    PROVE  Distance(at, a) = IF a >= at THEN a - at ELSE a - at + PageSize
  <1> DEFINE x == a % PageSize
             y == at % PageSize
  <1>a. /\ x \in 0..(PageSize - 1) /\ y \in 0..(PageSize - 1) /\ PageSize \in Nat
    BY InPage, Sizes1
  <1>b. PICK p \in Nat : a = p + x /\ at = p + y
    <2>1. PageSize * (a \div PageSize) \in Nat
      BY InPage, Sizes1
    <2> QED
      BY <2>1, InPage
  <1>1. /\ x \in 0..(PageSize - 1) /\ y \in 0..(PageSize - 1) /\ PageSize \in Nat
        /\ a - at = x - y
    BY <1>a, <1>b
  <1>2. CASE x >= y
    <2>1. x + PageSize - y = (x - y) + PageSize /\ x - y \in 0..(PageSize - 1)
      BY <1>1, <1>2
    <2>2. \A z \in 0..(PageSize - 1) : (z + PageSize) % PageSize = z
      BY Sizes1
    <2> QED
      BY <1>1, <1>2, <2>1, <2>2 DEF Distance
  <1>3. CASE x < y
    <2>1. x + PageSize - y \in 0..(PageSize - 1)
      BY <1>1, <1>3
    <2>2. \A z \in 0..(PageSize - 1) : z % PageSize = z
      BY Sizes1
    <2> QED
      BY <1>1, <1>3, <2>1, <2>2 DEF Distance
  <1> QED
    BY <1>1, <1>2, <1>3

LEMMA NextPage ==
    ASSUME NEW p \in Nat, NEW q \in Nat, NEW y \in 0..(PageSize - 1),
           PageSize * (p + 1) <= PageSize * q + y
    PROVE  PageSize * (p + 1) <= PageSize * q
  <1>1. ~(q <= p)
    <2> SUFFICES ASSUME q <= p PROVE FALSE
      OBVIOUS
    <2>1. PageSize * (p - q) >= 0
      BY Sizes1
    <2>2. PageSize * (p + 1) = PageSize * q + PageSize * (p - q) + PageSize
      BY Sizes1
    <2>3. PageSize * q \in Int /\ PageSize * (p - q) \in Int
      BY Sizes1
    <2> QED
      BY <2>1, <2>2, <2>3, Sizes1
  <1>2. PageSize * (q - (p + 1)) >= 0
    BY <1>1, Sizes1
  <1>3. PageSize * q = PageSize * (p + 1) + PageSize * (q - (p + 1))
    BY Sizes1
  <1>4. PageSize * (p + 1) \in Int /\ PageSize * (q - (p + 1)) \in Int
    BY Sizes1
  <1> QED
    BY <1>2, <1>3, <1>4

(* bytes_this_page                                                         *)
Room(o) == PageSize - (o.addr % PageSize)

Writes == [kind : {"write"}, addr : Cells, length : Nat, total : Nat]

LEMMA ChunkIs ==
    ASSUME NEW o \in Writes, o.total < o.length
    PROVE  /\ Room(o) \in 1..PageSize /\ Chunk(o) \in 1..(o.length - o.total)
           /\ Chunk(o) <= Room(o)
           /\ o.total + Chunk(o) < o.length => Chunk(o) = Room(o)
  <1>1. o.addr \in Nat /\ o.length \in Nat /\ o.total \in Nat
    BY Sizes1 DEF Writes
  <1>2. Room(o) \in 1..PageSize
    BY <1>1, InPage, Sizes1 DEF Room
  <1> QED
    BY <1>1, <1>2, Sizes1 DEF Chunk, Room

(* A program that goes around its page still stays within the copy: what   *)
(* it overwrites at the start of the page belongs to the copy, too.        *)
LEMMA HitWithin ==
    ASSUME NEW o \in Writes, o.total < o.length,
           o.total = 0 \/ o.total >= Room(o),
           NEW a \in Hit(o.addr + o.total, Chunk(o))
    PROVE  o.addr <= a /\ a < o.addr + o.length
  <1> DEFINE at == o.addr + o.total
             n == Chunk(o)
  <1>a. o.addr \in Nat /\ o.length \in Nat /\ o.total \in Nat
    BY Sizes1 DEF Writes
  <1>b. a \in Cells
    BY DEF Hit
  <1>1. /\ o.addr \in Nat /\ o.length \in Nat /\ o.total \in Nat /\ at \in Nat /\ a \in Nat
        /\ PageSize \in Nat
    BY <1>a, <1>b, Sizes1
  <1>2. /\ Room(o) \in 1..PageSize /\ n \in 1..(o.length - o.total) /\ n <= Room(o)
    BY ChunkIs
  <1>3. a \div PageSize = at \div PageSize /\ Distance(at, a) < n
    BY DEF Hit
  <1>4. CASE a >= at
    BY <1>1, <1>2, <1>3, <1>4, DistanceIs
  <1>5. CASE a < at
    <2>1. a - at + PageSize < Room(o)
      BY <1>1, <1>2, <1>3, <1>5, DistanceIs
    <2>2. at - (at % PageSize) <= a
      BY <1>1, <1>3, InPage
    <2>3. o.total # 0
      BY <1>1, <2>1, <2>2, InPage DEF Room
    <2>4. at >= o.addr + Room(o)
      BY <1>1, <1>2, <2>3
    <2> DEFINE p == o.addr \div PageSize
               q == at \div PageSize
    <2>5. p \in Nat /\ q \in Nat /\ at % PageSize \in 0..(PageSize - 1)
      BY <1>1, InPage
    <2>6. o.addr = PageSize * p + (o.addr % PageSize) /\ at = PageSize * q + (at % PageSize)
      BY <1>1, InPage
    <2>7. PageSize * (p + 1) = PageSize * p + PageSize /\ PageSize * p \in Nat
      BY <1>1, <2>5
    <2>8. o.addr + Room(o) = PageSize * (p + 1)
      BY <1>1, <2>6, <2>7, InPage DEF Room
    <2>9. PageSize * (p + 1) <= PageSize * q + (at % PageSize)
      BY <2>4, <2>6, <2>8
    <2>10. PageSize * (p + 1) <= PageSize * q
      BY <2>5, <2>9, NextPage
    <2>11. PageSize * q \in Nat
      BY <1>1, <2>5
    <2>12. PageSize * q <= a
      BY <1>1, <2>2, <2>5, <2>6, <2>11
    <2>13. o.addr + Room(o) <= a
      BY <1>1, <1>2, <2>7, <2>8, <2>10, <2>11, <2>12
    <2> HIDE DEF p, q
    <2>14. o.addr <= a
      BY <1>1, <1>2, <2>13
    <2>15. o.total < o.length /\ a < o.addr + o.total
      BY <1>5
    <2> QED
      BY <1>1, <2>14, <2>15
  <1> QED
    BY <1>1, <1>4, <1>5

-----------------------------------------------------------------------------
(* The inductive invariant: the operation in progress is the one that the  *)
(* command being run asked for, and keeps within what that command names;  *)
(* a write has either not begun or is past its first page.                 *)
EraseInv ==
    op.kind = "erase" =>
        /\ next \in 1..Len(line) /\ line[next].cmd = "erase"
        /\ SectorCells(<<op.sect, op.last>>) \subseteq NamedByErase(line[next])

WriteInv ==
    op.kind = "write" =>
        /\ next \in 1..Len(line) /\ line[next].cmd = "cp"
        /\ op.addr = line[next].to /\ op.length = line[next].length
        /\ op.total = 0 \/ op.total >= Room(op)

IInv == TypeOK /\ EraseInv /\ WriteInv

Erases == [kind : {"erase"}, sect : Sectors, last : Sectors]

LEMMA OpTypes ==
    ASSUME TypeOK
    PROVE  /\ op.kind = "erase" => op \in Erases /\ op.sect <= op.last
           /\ op.kind = "write" => op \in Writes /\ op.total < op.length
           /\ op = Idle => op.kind = "idle"
           /\ Idle.kind = "idle"
  BY DEF TypeOK, Erases, Writes, Idle

LEMMA CommandTypes ==
    ASSUME TypeOK, Command
    PROVE  /\ next \in 1..Len(line) /\ line[next] \in Commands
           /\ Len(line) \in Nat
  BY DEF TypeOK, Command

(* The commands that are composed by the program are commands.             *)
LEMMA ComposedType ==
    ASSUME NEW at \in Nat, NEW erase \in Nat, NEW length \in Nat
    PROVE  EraseAndCopy(at, erase, length) \in Seq(Commands)
  <1>1. [cmd |-> "erase", form |-> "length", from |-> at, to |-> erase] \in Commands
    BY DEF Commands
  <1>2. [cmd |-> "cp", to |-> at, length |-> length] \in Commands
    BY DEF Commands
  <1> QED
    BY <1>1, <1>2 DEF EraseAndCopy

LEMMA StartType ==
    ASSUME NEW s \in Nat
    PROVE  Start(s) \in Nat
  BY Sizes1 DEF Start

LEMMA UpgradeType == Upgrades \subseteq Seq(Commands)
  <1>1. SectorSize \in Nat /\ Size - SectorSize \in Nat /\ TplinkSector + 1 \in Nat
    <2>1. (SectorCount - 1) * SectorSize >= 0
      BY Sizes1
    <2>2. Size - SectorSize = (SectorCount - 1) * SectorSize
      BY Sizes1 DEF Size
    <2>3. (SectorCount - 1) * SectorSize \in Int
      BY Sizes1
    <2> QED
      BY <2>1, <2>2, <2>3, SpiFlashAssumption
  <1>2. Start(TplinkSector + 1) \in Nat
    BY <1>1, StartType
  <1>3. \A size \in Sizes : size \in Nat
    BY SpiFlashAssumption
  <1>4. EraseAndCopy(0, SectorSize, SectorSize) \in Seq(Commands)
    BY <1>1, ComposedType
  <1>5. EraseAndCopy(Size - SectorSize, SectorSize, SectorSize) \in Seq(Commands)
    BY <1>1, ComposedType
  <1>6. \A size \in Sizes : EraseAndCopy(Start(TplinkSector + 1), size, size) \in Seq(Commands)
    BY <1>2, <1>3, ComposedType
  <1> QED
    BY <1>4, <1>5, <1>6 DEF Upgrades

LEMMA SetMacType == SetMacLine \in Seq(Commands)
  <1>1. TplinkSector \in Nat /\ SectorSize \in Nat
    BY SpiFlashAssumption
  <1>2. Start(TplinkSector) \in Nat
    BY <1>1, StartType
  <1> QED
    BY <1>1, <1>2, ComposedType DEF SetMacLine

LEMMA EmptyType == << >> \in Seq(Commands) /\ Len(<< >>) = 0
  OBVIOUS

LEMMA InitIInv == Init => IInv
  <1> SUFFICES ASSUME Init PROVE IInv
    OBVIOUS
  <1>1. DOMAIN flash = Cells /\ DOMAIN ram = Cells /\ DOMAIN before = Cells
    BY ContentsAssumption DEF Init
  <1>2. op = Idle /\ op.kind = "idle"
    BY DEF Init, Idle
  <1>3. line \in Seq(Commands) /\ next \in 1..(Len(line) + 1)
    BY EmptyType DEF Init
  <1> QED
    BY <1>1, <1>2, <1>3, SpiFlashAssumption DEF Init, IInv, TypeOK, EraseInv, WriteInv

(* A step that ends a command.                                             *)
LEMMA ReturnType ==
    ASSUME TypeOK, NEW result, Return(result), next \in 1..Len(line),
           UNCHANGED <<line, lines, ram, before>>, DOMAIN flash' = Cells
    PROVE  IInv'
  <1>1. next' \in 1..(Len(line) + 1) /\ op' = Idle /\ rc' \in {"ok", "failed"}
    BY DEF Return, TypeOK
  <1>2. op'.kind = "idle"
    BY <1>1 DEF Idle
  <1> QED
    BY <1>1, <1>2 DEF TypeOK, IInv, EraseInv, WriteInv

(* A step that enters a command line.                                      *)
LEMMA RunType ==
    ASSUME TypeOK, NEW l \in Seq(Commands), Run(l), DOMAIN ram' = Cells
    PROVE  IInv'
  <1>1. op' = Idle
    BY DEF Run, Finished
  <1>2. op'.kind = "idle"
    BY <1>1 DEF Idle
  <1>3. next' \in 1..(Len(line') + 1) /\ line' \in Seq(Commands)
    BY DEF Run
  <1>4. lines' \in 0..MaxLines
    BY SpiFlashAssumption DEF Run, TypeOK
  <1> QED
    BY <1>1, <1>2, <1>3, <1>4 DEF Run, TypeOK, IInv, EraseInv, WriteInv

LEMMA EraseStep ==
    ASSUME IInv, EraseStarts \/ EraseRefused \/ EraseSector
    PROVE  IInv'
  <1>t. TypeOK
    BY DEF IInv
  <1>1. CASE EraseStarts
    <2>1. PICK r \in EraseRange(line[next]) : op' = [kind |-> "erase", sect |-> r[1], last |-> r[2]]
      BY <1>1 DEF EraseStarts
    <2>2. next \in 1..Len(line) /\ line[next] \in Commands /\ line[next].cmd = "erase"
      BY <1>t, <1>1, CommandTypes DEF EraseStarts
    <2>3. /\ r[1] \in Sectors /\ r[2] \in Sectors /\ r[1] <= r[2]
          /\ SectorCells(r) \subseteq NamedByErase(line[next])
      BY <2>1, <2>2, EraseWithin
    <2>4. SectorCells(<<op'.sect, op'.last>>) \subseteq NamedByErase(line[next])
      BY <2>1, <2>3 DEF SectorCells
    <2>5. op' \in Erases /\ op'.sect <= op'.last /\ op'.kind = "erase"
      BY <2>1, <2>3 DEF Erases
    <2> QED
      BY <1>t, <1>1, <2>2, <2>4, <2>5 DEF EraseStarts, TypeOK, IInv, EraseInv, WriteInv, Erases
  <1>2. CASE EraseRefused
    BY <1>t, <1>2, ReturnType, CommandTypes DEF EraseRefused, TypeOK
  <1>3. CASE EraseSector
    <2>1. /\ op \in Erases /\ op.sect <= op.last /\ next \in 1..Len(line)
          /\ line[next].cmd = "erase"
          /\ SectorCells(<<op.sect, op.last>>) \subseteq NamedByErase(line[next])
      BY <1>t, <1>3, OpTypes DEF EraseSector, IInv, EraseInv
    <2>2. DOMAIN flash' = Cells
      BY <1>3 DEF EraseSector
    <2>3. CASE op.sect < op.last
      <3>1. op' = [op EXCEPT !.sect = @ + 1] /\ UNCHANGED <<next, rc, ram, line, lines, before>>
        BY <1>3, <2>3 DEF EraseSector
      <3>2. op' \in Erases /\ op'.sect = op.sect + 1 /\ op'.last = op.last /\ op'.kind = "erase"
        <4>1. op.sect + 1 \in Sectors
          BY <2>1, <2>3, Sizes1 DEF Erases, Sectors
        <4>2. op.sect \in Sectors /\ op.last \in Sectors /\ op.kind = "erase"
          BY <2>1 DEF Erases
        <4>3. op' = [kind |-> "erase", sect |-> op.sect + 1, last |-> op.last]
          BY <2>1, <3>1 DEF Erases
        <4> QED
          BY <4>1, <4>2, <4>3 DEF Erases
      <3>3. SectorCells(<<op'.sect, op'.last>>) \subseteq SectorCells(<<op.sect, op.last>>)
        BY <2>1, <3>2, SectorBounds DEF SectorCells, Erases, Sectors
      <3>4. op'.sect <= op'.last
        BY <2>1, <2>3, <3>2 DEF Erases, Sectors
      <3> QED
        BY <1>t, <2>1, <2>2, <3>1, <3>2, <3>3, <3>4
           DEF TypeOK, IInv, EraseInv, WriteInv, Erases
    <2>4. CASE ~(op.sect < op.last)
      <3>1. Return("ok") /\ UNCHANGED <<ram, line, lines, before>>
        BY <1>3, <2>4 DEF EraseSector
      <3> QED
        BY <1>t, <2>1, <2>2, <3>1, ReturnType
    <2> QED
      BY <2>3, <2>4
  <1> QED
    BY <1>1, <1>2, <1>3

LEMMA CopyStep ==
    ASSUME IInv, CopyStarts \/ CopyRefused \/ WritePage
    PROVE  IInv'
  <1>t. TypeOK
    BY DEF IInv
  <1>1. CASE CopyStarts
    <2>1. /\ next \in 1..Len(line) /\ line[next] \in Commands /\ line[next].cmd = "cp"
      BY <1>t, <1>1, CommandTypes DEF CopyStarts
    <2> DEFINE c == line[next]
    <2>2. /\ c.length \in Nat /\ c.to \in Nat /\ c.length > 0 /\ c.to + c.length - 1 \in Cells
          /\ op' = [kind |-> "write", addr |-> c.to, length |-> c.length, total |-> 0]
      BY <1>1, <2>1 DEF CopyStarts, Commands
    <2>3. c.to \in Cells
      BY <2>2, Sizes1 DEF Cells
    <2>4. /\ op' \in Writes /\ op'.kind = "write" /\ op'.total = 0 /\ op'.addr = c.to
          /\ op'.length = c.length
      BY <2>2, <2>3 DEF Writes
    <2> QED
      BY <1>t, <1>1, <2>1, <2>2, <2>4 DEF CopyStarts, TypeOK, IInv, EraseInv, WriteInv, Writes
  <1>2. CASE CopyRefused
    BY <1>t, <1>2, ReturnType, CommandTypes DEF CopyRefused, TypeOK
  <1>3. CASE WritePage
    <2> DEFINE n == Chunk(op)
    <2>1. /\ op \in Writes /\ op.total < op.length /\ op.addr + op.length - 1 \in Cells
          /\ next \in 1..Len(line) /\ line[next].cmd = "cp" /\ op.addr = line[next].to
          /\ op.length = line[next].length /\ op.kind = "write"
          /\ op.total = 0 \/ op.total >= Room(op)
      BY <1>t, <1>3, OpTypes DEF WritePage, IInv, WriteInv, TypeOK
    <2>2. DOMAIN flash' = Cells
      BY <1>3 DEF WritePage
    <2>3. CASE op.total + n < op.length
      <3>1. op' = [op EXCEPT !.total = @ + n] /\ UNCHANGED <<next, rc, ram, line, lines, before>>
        BY <1>3, <2>3 DEF WritePage
      <3>2. /\ n \in Nat /\ n = Room(op) /\ n \in 1..PageSize
        BY <2>1, <2>3, ChunkIs
      <3>3. op' = [kind |-> "write", addr |-> op.addr, length |-> op.length, total |-> op.total + n]
        BY <2>1, <3>1 DEF Writes
      <3>4. op.addr \in Cells /\ op.length \in Nat /\ op.total \in Nat
        BY <2>1 DEF Writes
      <3>5. op.total + n \in Nat
        BY <3>2, <3>4
      <3>6. op' \in Writes
        BY <3>3, <3>4, <3>5 DEF Writes
      <3>7. /\ op'.kind = "write" /\ op'.addr = op.addr /\ op'.length = op.length
            /\ op'.total = op.total + n
        BY <3>3
      <3>8. Room(op') = Room(op)
        BY <3>7 DEF Room
      <3>9. op'.total >= Room(op')
        BY <3>2, <3>4, <3>7, <3>8
      <3>10. op'.total < op'.length
        BY <2>3, <3>7
      <3> QED
        BY <1>t, <2>1, <2>2, <3>1, <3>6, <3>7, <3>9, <3>10
           DEF TypeOK, IInv, EraseInv, WriteInv, Writes
    <2>4. CASE ~(op.total + n < op.length)
      <3>1. Return("ok") /\ UNCHANGED <<ram, line, lines, before>>
        BY <1>3, <2>4 DEF WritePage
      <3> QED
        BY <1>t, <2>1, <2>2, <3>1, ReturnType
    <2> QED
      BY <2>3, <2>4
  <1> QED
    BY <1>1, <1>2, <1>3

LEMMA NextIInv == IInv /\ [Next]_vars => IInv'
  <1> SUFFICES ASSUME IInv, [Next]_vars PROVE IInv'
    OBVIOUS
  <1>t. TypeOK
    BY DEF IInv
  <1>1. CASE EraseStarts \/ EraseRefused \/ EraseSector
    BY <1>1, EraseStep
  <1>2. CASE CopyStarts \/ CopyRefused \/ WritePage
    BY <1>2, CopyStep
  <1>3. CASE \E c \in Contents : Load(c)
    <2>1. PICK c \in Contents : Load(c)
      BY <1>3
    <2>2. DOMAIN ram' = Cells /\ op' = Idle /\ line' = << >> /\ next' = 1
      BY <2>1, ContentsAssumption DEF Load, Finished
    <2>3. op'.kind = "idle"
      BY <2>2 DEF Idle
    <2> QED
      BY <1>t, <2>1, <2>2, <2>3, EmptyType DEF Load, TypeOK, IInv, EraseInv, WriteInv
  <1>4. CASE \E l \in Typed : UserLine(l)
    <2>1. PICK l \in Typed : UserLine(l)
      BY <1>4
    <2>2. l \in Seq(Commands) /\ Run(l) /\ DOMAIN ram' = Cells
      BY <1>t, <2>1, SpiFlashAssumption DEF UserLine, TypeOK
    <2> QED
      BY <1>t, <2>2, RunType
  <1>5. CASE do_http_upgrade
    <2>1. PICK l \in Upgrades : Run(l) /\ UNCHANGED ram
      BY <1>5 DEF do_http_upgrade
    <2>2. l \in Seq(Commands) /\ DOMAIN ram' = Cells
      BY <1>t, <2>1, UpgradeType DEF TypeOK
    <2> QED
      BY <1>t, <2>1, <2>2, RunType
  <1>6. CASE \E mac \in Macs : do_set_mac(mac)
    <2>1. PICK mac \in Macs : do_set_mac(mac)
      BY <1>6
    <2>2. Run(SetMacLine) /\ DOMAIN ram' = Cells
      BY <2>1 DEF do_set_mac, WithMac
    <2> QED
      BY <1>t, <2>2, SetMacType, RunType
  <1>7. CASE PowerLoss
    <2>1. op' = Idle /\ line' = << >> /\ next' = 1 /\ rc' = "ok" /\ UNCHANGED lines
      BY <1>7 DEF PowerLoss
    <2>2. DOMAIN flash' = Cells /\ DOMAIN ram' = Cells /\ DOMAIN before' = Cells
      BY <1>7, ContentsAssumption DEF PowerLoss
    <2>3. op'.kind = "idle"
      BY <2>1 DEF Idle
    <2> QED
      BY <1>t, <2>1, <2>2, <2>3, EmptyType DEF TypeOK, IInv, EraseInv, WriteInv
  <1>8. CASE UNCHANGED vars
    BY <1>8 DEF vars, IInv, TypeOK, EraseInv, WriteInv, Room
  <1> QED
    BY <1>1, <1>2, <1>3, <1>4, <1>5, <1>6, <1>7, <1>8 DEF Next

LEMMA Invariance == Spec => []IInv
  BY InitIInv, NextIInv, PTL DEF Spec

(* The state keeps its types: an erase stays among the sectors of the      *)
(* chip, a write inside it, for every geometry.                            *)
THEOREM TypeCorrect == Spec => []TypeOK
  <1>1. IInv => TypeOK
    BY DEF IInv
  <1> QED
    BY <1>1, Invariance, PTL

-----------------------------------------------------------------------------
(* Nothing else is touched                                                 *)

LEMMA WorkingNamed ==
    ASSUME IInv, NEW a \in Working
    PROVE  \E i \in 1..Len(line) : a \in Named(line[i])
  <1>1. CASE op.kind = "erase"
    <2>1. a \in Cells /\ SectorOf(a) = op.sect
      BY <1>1 DEF Working
    <2>2. op \in Erases /\ op.sect <= op.last
      BY <1>1, OpTypes DEF IInv
    <2>3. a \in SectorCells(<<op.sect, op.last>>)
      BY <2>1, <2>2 DEF SectorCells, Erases, Sectors
    <2> QED
      BY <1>1, <2>3 DEF IInv, EraseInv, Named
  <1>2. CASE op.kind = "write"
    <2>1. a \in Hit(op.addr + op.total, Chunk(op))
      BY <1>2 DEF Working
    <2>2. op \in Writes /\ op.total < op.length
      BY <1>2, OpTypes DEF IInv
    <2>3. op.addr <= a /\ a < op.addr + op.length
      BY <1>2, <2>1, <2>2, HitWithin DEF IInv, WriteInv
    <2>4. a \in Cells
      BY <2>1 DEF Hit
    <2> QED
      BY <1>2, <2>3, <2>4 DEF IInv, WriteInv, Named, NamedByCopy
  <1>3. CASE op.kind \notin {"erase", "write"}
    BY <1>3 DEF Working
  <1> QED
    BY <1>1, <1>2, <1>3

LEMMA OnlyWorking ==
    ASSUME IInv, [Next]_vars, NEW a \in Cells, flash'[a] # flash[a]
    PROVE  a \in Working
  <1>1. CASE EraseSector
    BY <1>1 DEF EraseSector, Working
  <1>2. CASE WritePage
    BY <1>2 DEF WritePage, Working
  <1>3. CASE PowerLoss
    BY <1>3 DEF PowerLoss
  <1>4. CASE \/ EraseStarts \/ EraseRefused \/ CopyStarts \/ CopyRefused
             \/ (\E c \in Contents : Load(c)) \/ (\E l \in Typed : UserLine(l))
             \/ do_http_upgrade \/ (\E mac \in Macs : do_set_mac(mac)) \/ UNCHANGED vars
    BY <1>4 DEF EraseStarts, EraseRefused, CopyStarts, CopyRefused, Load, UserLine,
                do_http_upgrade, do_set_mac, Run, vars
  <1> QED
    BY <1>1, <1>2, <1>3, <1>4 DEF Next

(* No step changes a cell of the flash that no command of the line names:  *)
(* not an erase rounded to whole sectors, not a copy that goes around its  *)
(* pages, not a loss of power in the middle of either, for every geometry. *)
THEOREM OthersSafe == Spec => OthersKept
  <1>1. IInv /\ [Next]_vars =>
          [\A a \in Cells :
              (flash'[a] # flash[a]) => \E i \in 1..Len(line) : a \in Named(line[i])]_vars
    BY OnlyWorking, WorkingNamed
  <1> QED
    BY <1>1, Invariance, PTL DEF Spec, OthersKept

-----------------------------------------------------------------------------
(* The upgrade and setmac program erased cells                             *)

(* The lines that do_http_upgrade and do_set_mac compose: n bytes from the *)
(* start of sector s on are erased and written.                            *)
Composed(s, n) == EraseAndCopy(Start(s), n, n)

LEMMA ComposedLines ==
    ASSUME NEW l \in Upgrades \cup {SetMacLine}
    PROVE  \E s \in Nat, n \in Nat : l = Composed(s, n)
  <1>1. SectorSize \in Nat /\ TplinkSector \in Nat /\ SectorCount - 1 \in Nat
    BY SpiFlashAssumption
  <1>2. Start(0) = 0 /\ Start(SectorCount - 1) = Size - SectorSize
    BY Sizes1 DEF Start, Size
  <1>3. CASE l = EraseAndCopy(0, SectorSize, SectorSize)
    <2>1. l = Composed(0, SectorSize)
      BY <1>2, <1>3 DEF Composed
    <2> QED
      BY <1>1, <2>1
  <1>4. CASE l = EraseAndCopy(Size - SectorSize, SectorSize, SectorSize)
    <2>1. l = Composed(SectorCount - 1, SectorSize)
      BY <1>2, <1>4 DEF Composed
    <2> QED
      BY <1>1, <2>1
  <1>5. CASE \E size \in Sizes : l = EraseAndCopy(Start(TplinkSector + 1), size, size)
    <2>1. PICK size \in Sizes : l = Composed(TplinkSector + 1, size)
      BY <1>5 DEF Composed
    <2>2. TplinkSector + 1 \in Nat /\ size \in Nat
      BY <1>1, SpiFlashAssumption
    <2> QED
      BY <2>1, <2>2
  <1>6. CASE l = SetMacLine
    <2>1. l = Composed(TplinkSector, SectorSize)
      BY <1>6 DEF Composed, SetMacLine
    <2> QED
      BY <1>1, <2>1
  <1> QED
    BY <1>3, <1>4, <1>5, <1>6 DEF Upgrades

LEMMA ComposedIs ==
    ASSUME NEW s, NEW n
    PROVE  /\ Len(Composed(s, n)) = 2
           /\ Composed(s, n)[1] = [cmd |-> "erase", form |-> "length", from |-> Start(s), to |-> n]
           /\ Composed(s, n)[2] = [cmd |-> "cp", to |-> Start(s), length |-> n]
  BY DEF Composed, EraseAndCopy

(* The sectors that such a line erases: from s to where its last byte is.  *)
LEMMA ComposedErase ==
    ASSUME NEW s \in Nat, NEW n \in Nat, n > 0, Start(s) + n - 1 \in Cells
    PROVE  /\ s \in Sectors /\ SectorOf(Start(s) + n - 1) \in Sectors
           /\ EraseRange(Composed(s, n)[1]) # {}
           /\ \A r \in EraseRange(Composed(s, n)[1]) :
                  r[1] = s /\ r[2] = SectorOf(Start(s) + n - 1)
  <1> DEFINE z == Start(s) + n - 1
             t == SectorOf(z)
             c == Composed(s, n)[1]
  <1>1. Start(s) \in Nat /\ Start(s) <= z /\ z \in Cells /\ z \in Nat
    BY StartType, Sizes1
  <1>2. t \in Sectors /\ Start(t) <= z /\ z <= End(t)
    BY <1>1, SectorBounds
  <1>3. s \in Sectors
    <2>1. Start(s) \in Cells
      BY <1>1, Sizes1 DEF Cells
    <2>2. ~(s >= SectorCount)
      <3> SUFFICES ASSUME s >= SectorCount PROVE FALSE
        OBVIOUS
      <3>1. (s - SectorCount) * SectorSize >= 0
        BY Sizes1
      <3>2. s * SectorSize = SectorCount * SectorSize + (s - SectorCount) * SectorSize
        BY Sizes1
      <3> QED
        BY <2>1, <3>1, <3>2, Sizes1 DEF Cells, Start, Size
    <2> QED
      BY <2>2, Sizes1 DEF Sectors
  <1>4. \A x \in Sectors : Start(x) \in Int /\ End(x) \in Int /\ Start(x) < End(x)
    BY SpiFlashAssumption DEF Sectors, Start, End
  <1>o. \A x, y \in Sectors : x < y => End(x) < Start(y)
    BY Ordered
  <1>m. \A x, y \in Sectors : x <= y => Start(x) <= Start(y) /\ End(x) <= End(y)
    BY Monotone
  <1>5. s <= t
    <2>1. ~(t < s)
      <3> SUFFICES ASSUME t < s PROVE FALSE
        OBVIOUS
      <3>1. End(t) < Start(s)
        BY <1>2, <1>3, <1>o
      <3> HIDE DEF t, z
      <3> QED
        BY <1>1, <1>2, <1>3, <1>4, <3>1
    <2> QED
      BY <1>2, <1>3, <2>1 DEF Sectors
  <1>6. Start(s) < End(t)
    <2>1. Start(s) <= Start(t) /\ Start(t) < End(t)
      BY <1>2, <1>3, <1>4, <1>5, <1>m
    <2> HIDE DEF t
    <2> QED
      BY <1>2, <1>3, <1>4, <2>1
  <1>7. EraseRange(c) = UNION {FillRanges(Start(s), hi) : hi \in {l \in RoundUp(z) : Start(s) < l}}
    <2>a. c = [cmd |-> "erase", form |-> "length", from |-> Start(s), to |-> n]
      BY ComposedIs
    <2>b. c.form = "length" /\ c.from = Start(s) /\ c.to = n
      BY <2>a
    <2>1. c.form = "length" /\ c.from = Start(s) /\ c.to = n /\ c.from + c.to - 1 = z
      BY <2>b
    <2> HIDE DEF c, z
    <2> QED
      BY <2>1 DEF EraseRange
  <1>8. End(t) \in RoundUp(z)
    BY <1>2 DEF RoundUp
  <1>9. <<s, t>> \in FillRanges(Start(s), End(t))
    <2>a. /\ s \in Sectors /\ t \in Sectors /\ Start(s) = Start(s) /\ End(t) >= Start(s)
          /\ End(t) = End(t) /\ Start(s) <= End(t)
      <3>1. t \in Sectors /\ Start(s) \in Int /\ End(t) \in Int
        BY <1>2, <1>3, <1>4
      <3> HIDE DEF t
      <3> QED
        BY <1>3, <1>6, <3>1
    <2> HIDE DEF t
    <2>1. s \in {x \in Sectors : Start(s) = Start(x) /\ End(t) >= Start(x)}
      BY <2>a
    <2>2. t \in {x \in Sectors : \/ End(t) = End(x) /\ Start(s) <= End(x)
                                 \/ x = SectorCount - 1 /\ End(t) > End(x)}
      BY <2>a
    <2> QED
      BY <1>5, <2>1, <2>2 DEF FillRanges
  <1>10. \A l \in RoundUp(z) : l = End(t)
    BY <1>1, LastSector
  <1>11. \A r \in FillRanges(Start(s), End(t)) : r[1] = s /\ r[2] = t
    <2> SUFFICES ASSUME NEW r \in FillRanges(Start(s), End(t)) PROVE r[1] = s /\ r[2] = t
      OBVIOUS
    <2>1. /\ r[1] \in Sectors /\ r[2] \in Sectors /\ Start(s) = Start(r[1])
          /\ End(t) = End(r[2]) \/ (r[2] = SectorCount - 1 /\ End(t) > End(r[2]))
      BY <1>1, <1>2, <1>4, FilledRange
    <2>2. End(t) = End(r[2])
      <3>1. r[2] = SectorCount - 1 => t <= r[2]
        BY <1>2, Sizes1 DEF Sectors
      <3> QED
        BY <1>2, <1>4, <2>1, <3>1, Monotone
    <2>3. ~(s < r[1]) /\ ~(r[1] < s) /\ ~(t < r[2]) /\ ~(r[2] < t)
      <3>1. /\ s < r[1] => End(s) < Start(r[1])
            /\ r[1] < s => End(r[1]) < Start(s)
            /\ t < r[2] => End(t) < Start(r[2])
            /\ r[2] < t => End(r[2]) < Start(t)
        BY <1>2, <1>3, <1>o, <2>1
      <3>2. /\ Start(s) \in Int /\ End(s) \in Int /\ Start(s) < End(s)
            /\ Start(t) \in Int /\ End(t) \in Int /\ Start(t) < End(t)
            /\ Start(r[1]) \in Int /\ End(r[1]) \in Int /\ Start(r[1]) < End(r[1])
            /\ Start(r[2]) \in Int /\ End(r[2]) \in Int /\ Start(r[2]) < End(r[2])
        BY <1>2, <1>3, <1>4, <2>1
      <3> HIDE DEF t, z, c
      <3> QED
        BY <2>1, <2>2, <3>1, <3>2
    <2> QED
      BY <1>2, <1>3, <2>1, <2>3 DEF Sectors
  <1> QED
    BY <1>2, <1>3, <1>6, <1>7, <1>8, <1>9, <1>10, <1>11

(* Whole pages                                                             *)

LEMMA Multiple ==
    ASSUME NEW k \in Nat
    PROVE  PageSize * k \in Nat /\ (PageSize * k) % PageSize = 0
  <1> DEFINE x == PageSize * k
             q == x \div PageSize
             r == x % PageSize
  <1>1. x \in Nat
    BY Sizes1
  <1>2. r \in 0..(PageSize - 1) /\ q \in Nat /\ x = PageSize * q + r
    BY <1>1, InPage
  <1>3. ~(q < k)
    <2> SUFFICES ASSUME q < k PROVE FALSE
      OBVIOUS
    <2>1. PageSize * (k - q - 1) >= 0
      BY <1>2, Sizes1
    <2>2. x = PageSize * q + PageSize + PageSize * (k - q - 1)
      BY <1>2, Sizes1
    <2>3. PageSize * q \in Int /\ PageSize * (k - q - 1) \in Int
      BY <1>2, Sizes1
    <2> HIDE DEF x, q, r
    <2> QED
      BY <1>1, <1>2, <2>1, <2>2, <2>3, Sizes1
  <1>4. ~(k < q)
    <2> SUFFICES ASSUME k < q PROVE FALSE
      OBVIOUS
    <2>1. PageSize * (q - k - 1) >= 0
      BY <1>2, Sizes1
    <2>2. PageSize * q = x + PageSize + PageSize * (q - k - 1)
      BY <1>2, Sizes1
    <2>3. PageSize * q \in Int /\ PageSize * (q - k - 1) \in Int
      BY <1>2, Sizes1
    <2> HIDE DEF x, q, r
    <2> QED
      BY <1>1, <1>2, <2>1, <2>2, <2>3, Sizes1
  <1>5. q = k
    <2> HIDE DEF q
    <2> QED
      BY <1>2, <1>3, <1>4
  <1>6. x = x + r
    BY <1>2, <1>5
  <1> HIDE DEF x, r
  <1>7. r = 0
    BY <1>1, <1>2, <1>6, Sizes1
  <1> QED
    BY <1>1, <1>7 DEF x, r

LEMMA StartOnPage ==
    ASSUME NEW s \in Nat
    PROVE  Start(s) % PageSize = 0
  <1> DEFINE k == SectorSize \div PageSize
  <1>1. k \in Nat /\ SectorSize = PageSize * k
    BY SpiFlashAssumption, Sizes1, InPage
  <1>2. s * k \in Nat
    BY <1>1
  <1>3. s * SectorSize = PageSize * (s * k)
    <2> HIDE DEF k
    <2> QED
      BY <1>1, Sizes1
  <1> QED
    BY <1>2, <1>3, Multiple DEF Start

LEMMA PagesAdd ==
    ASSUME NEW x \in Nat, NEW y \in Nat, x % PageSize = 0, y % PageSize = 0
    PROVE  x + y \in Nat /\ (x + y) % PageSize = 0
  <1> DEFINE p == x \div PageSize
             q == y \div PageSize
  <1>1. p \in Nat /\ q \in Nat /\ x = PageSize * p + 0 /\ y = PageSize * q + 0
    BY InPage
  <1>2. PageSize * p \in Nat /\ PageSize * q \in Nat
    BY <1>1, Multiple
  <1>3. PageSize * (p + q) = PageSize * p + PageSize * q /\ p + q \in Nat
    BY <1>1, Sizes1
  <1> HIDE DEF p, q
  <1>4. x + y = PageSize * (p + q)
    BY <1>1, <1>2, <1>3
  <1> QED
    BY <1>3, <1>4, Multiple

(* A program that starts with its page does not go around it.              *)
LEMMA HitAhead ==
    ASSUME NEW at \in Nat, NEW n \in Nat, at % PageSize = 0, NEW a \in Hit(at, n)
    PROVE  a \in Cells /\ at <= a /\ a < at + n
  <1>1. a \in Cells /\ a \in Nat /\ a \div PageSize = at \div PageSize /\ Distance(at, a) < n
    BY Sizes1 DEF Hit
  <1> DEFINE q == at \div PageSize
  <1>2. /\ a = PageSize * q + (a % PageSize) /\ at = PageSize * q + 0
        /\ a % PageSize \in 0..(PageSize - 1)
    BY <1>1, InPage
  <1>3. PageSize * q \in Nat
    BY InPage, Multiple
  <1>4. a >= at
    <2> HIDE DEF q
    <2> QED
      BY <1>1, <1>2, <1>3
  <1> QED
    BY <1>1, <1>4, DistanceIs

-----------------------------------------------------------------------------
(* The inductive invariant of such a line: what its erase has passed is    *)
(* erased, and what its copy has still to write.                           *)
ErasedFrom(from, to) == \A a \in Cells : (from <= a /\ a < to) => flash[a] = Erased

Passed(s, n) ==
    op.kind = "erase" =>
        /\ next = 1 /\ op.last = SectorOf(Start(s) + n - 1)
        /\ \A a \in Cells : (Start(s) <= a /\ SectorOf(a) < op.sect) => flash[a] = Erased

Ahead(s, n) ==
    /\ (op = Idle /\ next = 2) => ErasedFrom(Start(s), Start(s) + n)
    /\ op.kind = "write" =>
           /\ op.addr = Start(s) /\ op.length = n /\ op.total % PageSize = 0
           /\ ErasedFrom(Start(s) + op.total, Start(s) + n)

Fits(s, n) == n > 0 /\ Start(s) + n - 1 \in Cells /\ line = Composed(s, n)

ProgInv == \A s \in Nat, n \in Nat : Fits(s, n) => Passed(s, n) /\ Ahead(s, n)

LEMMA AtErase ==
    ASSUME IInv, NEW s, NEW n, line = Composed(s, n),
           op.kind = "erase" \/ (Command /\ line[next].cmd = "erase")
    PROVE  next = 1
  <1>1. next \in 1..Len(line) /\ line[next].cmd = "erase"
    BY CommandTypes DEF IInv, EraseInv
  <1>a. /\ Len(line) = 2
        /\ line[1] = [cmd |-> "erase", form |-> "length", from |-> Start(s), to |-> n]
        /\ line[2] = [cmd |-> "cp", to |-> Start(s), length |-> n]
    BY ComposedIs
  <1>2. Len(line) = 2 /\ line[1].cmd = "erase" /\ line[2].cmd = "cp"
    BY <1>a
  <1>3. next = 1 \/ next = 2
    BY <1>1, <1>2
  <1> QED
    BY <1>1, <1>2, <1>3

LEMMA AtCopy ==
    ASSUME IInv, NEW s, NEW n, line = Composed(s, n),
           op.kind = "write" \/ (Command /\ line[next].cmd = "cp")
    PROVE  next = 2
  <1>1. next \in 1..Len(line) /\ line[next].cmd = "cp"
    BY CommandTypes DEF IInv, WriteInv
  <1>a. /\ Len(line) = 2
        /\ line[1] = [cmd |-> "erase", form |-> "length", from |-> Start(s), to |-> n]
        /\ line[2] = [cmd |-> "cp", to |-> Start(s), length |-> n]
    BY ComposedIs
  <1>2. Len(line) = 2 /\ line[1].cmd = "erase" /\ line[2].cmd = "cp"
    BY <1>a
  <1>3. next = 1 \/ next = 2
    BY <1>1, <1>2
  <1> QED
    BY <1>1, <1>2, <1>3

LEMMA EraseProg ==
    ASSUME IInv, ProgInv, EraseStarts \/ EraseRefused \/ EraseSector
    PROVE  ProgInv'
  <1> SUFFICES ASSUME NEW s \in Nat, NEW n \in Nat, Fits(s, n)'
               PROVE  Passed(s, n)' /\ Ahead(s, n)'
    BY DEF ProgInv
  <1>1. /\ line' = line /\ line = Composed(s, n) /\ n > 0 /\ Start(s) + n - 1 \in Cells
        /\ Fits(s, n) /\ Passed(s, n)
    BY DEF Fits, ProgInv, EraseStarts, EraseRefused, EraseSector
  <1>2. next = 1
    <2>1. op.kind = "erase" \/ (Command /\ line[next].cmd = "erase")
      BY DEF EraseStarts, EraseRefused, EraseSector
    <2> QED
      BY <1>1, <2>1, AtErase
  <1> DEFINE t == SectorOf(Start(s) + n - 1)
  <1>3. /\ s \in Sectors /\ t \in Sectors
        /\ EraseRange(line[next]) # {}
        /\ \A r \in EraseRange(line[next]) : r[1] = s /\ r[2] = t
    BY <1>1, <1>2, ComposedErase
  <1>4. CASE EraseStarts
    <2>1. /\ op' = [kind |-> "erase", sect |-> s, last |-> t]
          /\ next' = 1 /\ flash' = flash
      BY <1>2, <1>3, <1>4 DEF EraseStarts
    <2>2. op'.kind = "erase" /\ op'.sect = s /\ op'.last = t /\ op' # Idle
      BY <2>1 DEF Idle
    <2>3. \A a \in Cells : ~(Start(s) <= a /\ SectorOf(a) < s)
      <3> SUFFICES ASSUME NEW a \in Cells, Start(s) <= a, SectorOf(a) < s PROVE FALSE
        OBVIOUS
      <3>1. SectorOf(a) \in Sectors /\ a <= End(SectorOf(a))
        BY SectorBounds
      <3>2. End(SectorOf(a)) < Start(s)
        BY <1>3, <3>1, Ordered
      <3>3. a \in Int /\ Start(s) \in Int /\ End(SectorOf(a)) \in Int
        BY <3>1, StartType, Sizes1 DEF Sectors, Start, End
      <3> QED
        BY <3>1, <3>2, <3>3
    <2> QED
      BY <2>1, <2>2, <2>3 DEF Passed, Ahead
  <1>5. CASE EraseRefused
    BY <1>3, <1>5 DEF EraseRefused
  <1>6. CASE EraseSector
    <2>1. /\ op \in Erases /\ op.kind = "erase" /\ op.sect <= op.last /\ op.last = t
          /\ \A a \in Cells : (Start(s) <= a /\ SectorOf(a) < op.sect) => flash[a] = Erased
      BY <1>1, <1>6, OpTypes DEF EraseSector, IInv, Passed
    <2>2. op.sect \in Int /\ op.last \in Int /\ \A a \in Cells : SectorOf(a) \in Int
      BY <2>1, SectorBounds DEF Erases, Sectors
    <2>3. \A a \in Cells : flash'[a] = IF SectorOf(a) = op.sect THEN Erased ELSE flash[a]
      BY <1>6 DEF EraseSector
    <2>4. \A a \in Cells : (Start(s) <= a /\ SectorOf(a) <= op.sect) => flash'[a] = Erased
      BY <2>1, <2>2, <2>3
    <2>5. CASE op.sect < op.last
      <3>1. op' = [op EXCEPT !.sect = @ + 1] /\ next' = 1
        BY <1>2, <1>6, <2>5 DEF EraseSector
      <3>2. /\ op'.kind = "erase" /\ op'.sect = op.sect + 1 /\ op'.last = t /\ op' # Idle
        BY <2>1, <3>1 DEF Erases, Idle
      <3>3. \A a \in Cells : (Start(s) <= a /\ SectorOf(a) < op.sect + 1) => flash'[a] = Erased
        BY <2>2, <2>4
      <3> QED
        BY <3>1, <3>2, <3>3 DEF Passed, Ahead
    <2>6. CASE ~(op.sect < op.last)
      <3>1. op' = Idle /\ op.sect = t /\ op'.kind = "idle"
        BY <1>6, <2>1, <2>2, <2>6 DEF EraseSector, Return, Idle
      <3>2. \A a \in Cells : (Start(s) <= a /\ a < Start(s) + n) => SectorOf(a) <= t
        <4> SUFFICES ASSUME NEW a \in Cells, a < Start(s) + n PROVE ~(t < SectorOf(a))
          BY <1>3, SectorBounds DEF Sectors
        <4> SUFFICES ASSUME t < SectorOf(a) PROVE FALSE
          OBVIOUS
        <4>1. /\ Start(s) + n - 1 <= End(t) /\ SectorOf(a) \in Sectors
              /\ Start(SectorOf(a)) <= a
          BY <1>1, SectorBounds
        <4>2. End(t) < Start(SectorOf(a))
          BY <1>3, <4>1, Ordered
        <4>3. /\ a \in Int /\ Start(s) \in Int /\ End(t) \in Int
              /\ Start(SectorOf(a)) \in Int
          BY <1>3, <4>1, StartType, Sizes1 DEF Sectors, Start, End
        <4> HIDE DEF t
        <4> QED
          BY <4>1, <4>2, <4>3
      <3>3. ErasedFrom(Start(s), Start(s) + n)'
        BY <2>4, <3>1, <3>2 DEF ErasedFrom
      <3> QED
        BY <3>1, <3>3 DEF Passed, Ahead
    <2> QED
      BY <2>5, <2>6
  <1> QED
    BY <1>4, <1>5, <1>6

LEMMA CopyProg ==
    ASSUME IInv, ProgInv, CopyStarts \/ CopyRefused \/ WritePage
    PROVE  ProgInv'
  <1> SUFFICES ASSUME NEW s \in Nat, NEW n \in Nat, Fits(s, n)'
               PROVE  Passed(s, n)' /\ Ahead(s, n)'
    BY DEF ProgInv
  <1>1. /\ line' = line /\ line = Composed(s, n) /\ n > 0 /\ Start(s) + n - 1 \in Cells
        /\ Fits(s, n) /\ Ahead(s, n)
    BY DEF Fits, ProgInv, CopyStarts, CopyRefused, WritePage
  <1>2. next = 2
    <2>1. op.kind = "write" \/ (Command /\ line[next].cmd = "cp")
      BY DEF CopyStarts, CopyRefused, WritePage
    <2> QED
      BY <1>1, <2>1, AtCopy
  <1>3. line[next] = [cmd |-> "cp", to |-> Start(s), length |-> n]
    BY <1>1, <1>2, ComposedIs
  <1>s. Start(s) \in Nat
    BY StartType
  <1>4. CASE CopyStarts
    <2>1. /\ op' = [kind |-> "write", addr |-> Start(s), length |-> n, total |-> 0]
          /\ flash' = flash /\ op = Idle
      BY <1>3, <1>4 DEF CopyStarts, Command
    <2>2. /\ op'.kind = "write" /\ op'.addr = Start(s) /\ op'.length = n /\ op'.total = 0
          /\ op' # Idle
      BY <2>1 DEF Idle
    <2>3. ErasedFrom(Start(s), Start(s) + n)'
      BY <1>1, <1>2, <2>1 DEF Ahead, ErasedFrom
    <2>4. 0 % PageSize = 0 /\ Start(s) + 0 = Start(s)
      BY <1>s, Sizes1
    <2> QED
      BY <2>2, <2>3, <2>4 DEF Passed, Ahead
  <1>5. CASE CopyRefused
    BY <1>1, <1>3, <1>5 DEF CopyRefused
  <1>6. CASE WritePage
    <2> DEFINE k == Chunk(op)
               at == op.addr + op.total
    <2>1. /\ op \in Writes /\ op.total < op.length /\ op.kind = "write" /\ op.addr = Start(s)
          /\ op.length = n /\ op.total % PageSize = 0 /\ op.addr % PageSize = 0
          /\ ErasedFrom(Start(s) + op.total, Start(s) + n)
      BY <1>1, <1>6, OpTypes, StartOnPage DEF WritePage, IInv, Ahead
    <2>2. op.addr \in Nat /\ op.total \in Nat /\ k \in Nat
      <3>1. op.addr \in Nat /\ op.length \in Nat /\ op.total \in Nat
        BY <2>1, Sizes1 DEF Writes
      <3>2. k \in 1..(op.length - op.total)
        BY <2>1, ChunkIs
      <3> QED
        BY <3>1, <3>2
    <2>3. at \in Nat /\ at % PageSize = 0
      BY <2>1, <2>2, PagesAdd
    <2>4. \A a \in Cells : (a >= at + k) => flash'[a] = flash[a]
      <3> SUFFICES ASSUME NEW a \in Cells, a >= at + k PROVE a \notin Hit(at, k)
        BY <1>6 DEF WritePage
      <3>1. a \in Hit(at, k) => a < at + k
        BY <2>2, <2>3, HitAhead
      <3>2. a \in Int /\ at + k \in Int
        BY <2>2, <2>3, Sizes1
      <3> HIDE DEF at, k
      <3> QED
        BY <3>1, <3>2
    <2>5. CASE op.total + k < op.length
      <3>1. op' = [op EXCEPT !.total = @ + k]
        BY <1>6, <2>5 DEF WritePage
      <3>2. /\ op'.kind = "write" /\ op'.addr = Start(s) /\ op'.length = n
            /\ op'.total = op.total + k /\ op' # Idle
        BY <2>1, <3>1 DEF Writes, Idle
      <3>3. k = PageSize
        BY <2>1, <2>5, ChunkIs, Sizes1 DEF Room
      <3>4. PageSize % PageSize = 0 /\ PageSize \in Nat
        BY Multiple, Sizes1
      <3>5. (op.total + k) % PageSize = 0
        BY <2>1, <2>2, <3>3, <3>4, PagesAdd
      <3>6. \A a \in Cells : (Start(s) + (op.total + k) <= a /\ a < Start(s) + n)
                                 => flash'[a] = Erased
        <4> SUFFICES ASSUME NEW a \in Cells, Start(s) + (op.total + k) <= a, a < Start(s) + n
                     PROVE  flash'[a] = Erased
          OBVIOUS
        <4>1. a \in Int
          BY Sizes1
        <4> HIDE DEF k
        <4>2. a >= at + k /\ Start(s) + op.total <= a
          BY <1>s, <2>1, <2>2, <4>1
        <4> QED
          BY <2>1, <2>4, <4>2 DEF ErasedFrom
      <3>7. ErasedFrom(Start(s) + op.total, Start(s) + n)'
        BY <3>2, <3>6 DEF ErasedFrom
      <3> QED
        BY <3>2, <3>5, <3>7 DEF Passed, Ahead
    <2>6. CASE ~(op.total + k < op.length)
      <3>1. op' = Idle /\ next' = next + 1
        BY <1>6, <2>6 DEF WritePage, Return
      <3>2. op'.kind = "idle" /\ next' # 2
        BY <1>2, <3>1 DEF Idle
      <3> QED
        BY <3>2 DEF Passed, Ahead
    <2> QED
      BY <2>5, <2>6
  <1> QED
    BY <1>4, <1>5, <1>6

LEMMA NextProg ==
    ASSUME IInv, ProgInv, [Next]_vars
    PROVE  ProgInv'
  <1>1. CASE EraseStarts \/ EraseRefused \/ EraseSector
    BY <1>1, EraseProg
  <1>2. CASE CopyStarts \/ CopyRefused \/ WritePage
    BY <1>2, CopyProg
  <1>3. CASE \/ (\E c \in Contents : Load(c)) \/ (\E l \in Typed : UserLine(l))
             \/ do_http_upgrade \/ (\E mac \in Macs : do_set_mac(mac)) \/ PowerLoss
    <2>1. next' = 1 /\ op' = Idle
      BY <1>3 DEF Load, UserLine, do_http_upgrade, do_set_mac, Run, Finished, PowerLoss
    <2>2. op'.kind = "idle"
      BY <2>1 DEF Idle
    <2> QED
      BY <2>1, <2>2 DEF ProgInv, Passed, Ahead
  <1>4. CASE UNCHANGED vars
    BY <1>4 DEF vars, ProgInv, Fits, Passed, Ahead, ErasedFrom
  <1> QED
    BY <1>1, <1>2, <1>3, <1>4 DEF Next

LEMMA InitProg == Init => ProgInv
  <1> SUFFICES ASSUME Init, NEW s \in Nat, NEW n \in Nat, line = Composed(s, n) PROVE FALSE
    BY DEF ProgInv, Fits
  <1>1. Len(line) = 0
    BY DEF Init
  <1>2. Len(Composed(s, n)) = 2
    BY ComposedIs
  <1> QED
    BY <1>1, <1>2

LEMMA ProgramErased ==
    ASSUME IInv, ProgInv, [Next]_vars, op.kind = "write", line \in Upgrades \cup {SetMacLine},
           NEW a \in Cells
    PROVE  flash'[a] \in {flash[a], Torn} \/ flash[a] = Erased
  <1>1. CASE WritePage
    <2>1. PICK s \in Nat, n \in Nat : line = Composed(s, n)
      BY ComposedLines
    <2>2. next = 2
      BY <2>1, AtCopy
    <2>3. /\ line[next] = [cmd |-> "cp", to |-> Start(s), length |-> n]
          /\ op \in Writes /\ op.total < op.length /\ op.addr + op.length - 1 \in Cells
          /\ op.addr = line[next].to /\ op.length = line[next].length
      BY <2>1, <2>2, ComposedIs, OpTypes DEF IInv, WriteInv, TypeOK
    <2>4. Fits(s, n)
      BY <2>1, <2>3 DEF Fits, Writes
    <2>5. /\ op.addr = Start(s) /\ op.length = n /\ op.total % PageSize = 0
          /\ ErasedFrom(Start(s) + op.total, Start(s) + n)
      BY <2>4 DEF ProgInv, Ahead
    <2> DEFINE at == op.addr + op.total
    <2>6. /\ at \in Nat /\ at % PageSize = 0 /\ op.total \in Nat
          /\ Chunk(op) \in Nat /\ op.total + Chunk(op) <= n
      <3>1. op.addr \in Nat /\ op.total \in Nat /\ op.addr % PageSize = 0
        BY <2>3, <2>5, StartOnPage, Sizes1 DEF Writes
      <3>2. Chunk(op) \in 1..(op.length - op.total)
        BY <2>3, ChunkIs
      <3> QED
        BY <2>5, <3>1, <3>2, PagesAdd
    <2>7. a \in Hit(at, Chunk(op)) => flash[a] = Erased
      <3> SUFFICES ASSUME a \in Hit(at, Chunk(op)) PROVE flash[a] = Erased
        OBVIOUS
      <3>1. at <= a /\ a < at + Chunk(op)
        BY <2>6, HitAhead
      <3>2. a \in Int /\ Start(s) \in Int
        BY StartType, Sizes1
      <3>3. Start(s) + op.total <= a /\ a < Start(s) + n
        BY <2>5, <2>6, <3>1, <3>2
      <3> QED
        BY <2>5, <3>3 DEF ErasedFrom
    <2> QED
      BY <1>1, <2>7 DEF WritePage
  <1>2. CASE PowerLoss
    BY <1>2 DEF PowerLoss
  <1>3. CASE ~WritePage /\ ~PowerLoss
    <2>1. flash' = flash
      BY <1>3 DEF Next, EraseStarts, EraseRefused, EraseSector, CopyStarts, CopyRefused,
                  Load, UserLine, do_http_upgrade, do_set_mac, Run, vars
    <2> QED
      BY <2>1
  <1> QED
    BY <1>1, <1>2, <1>3

(* The upgrade and setmac program erased cells only, whatever the size of  *)
(* the upload and the geometry: the erase of such a line passes over all   *)
(* that its copy then writes, or both are refused.                         *)
THEOREM ErasedSafe == Spec => ProgramsErased
  <1>1. IInv /\ ProgInv /\ [Next]_vars =>
          [(op.kind = "write" /\ line \in Upgrades \cup {SetMacLine})
              => \A a \in Cells : flash'[a] \in {flash[a], Torn} \/ flash[a] = Erased]_vars
    BY ProgramErased
  <1>2. IInv /\ ProgInv /\ [Next]_vars => ProgInv'
    BY NextProg
  <1> QED
    BY <1>1, <1>2, InitProg, Invariance, PTL DEF Spec, ProgramsErased

-----------------------------------------------------------------------------
(* What a line means                                                       *)

(* Induction with a set in the place of a formula: the least number of     *)
(* what is left out has no predecessor there.                              *)
LEMMA LeastNumber ==
    ASSUME NEW T \in SUBSET Nat, T # {}
    PROVE  \E x \in T : \A y \in T : x <= y
  <1> DEFINE Less == {ss \in Nat \X Nat : ss[1] < ss[2]}
  <1>1. IsWellFoundedOn(Less, Nat)
    BY NatLessThanWellFounded DEF OpToRel
  <1>2. PICK x \in T : \A y \in T : ~(<<y, x>> \in Less)
    BY <1>1, WFMin
  <1>3. \A y \in T : <<y, x>> \in Less <=> y < x
    BY <1>2
  <1>4. x \in Nat /\ T \subseteq Nat
    BY <1>2
  <1> HIDE DEF Less
  <1>5. \A y \in T : ~(y < x)
    BY <1>2, <1>3
  <1> QED
    BY <1>4, <1>5

LEMMA SetInduction ==
    ASSUME NEW S, 0 \in S, \A n \in Nat : n \in S => n + 1 \in S
    PROVE  Nat \subseteq S
  <1>1. SUFFICES ASSUME Nat \ S # {} PROVE FALSE
    OBVIOUS
  <1>2. PICK x \in Nat \ S : \A y \in Nat \ S : x <= y
    BY <1>1, LeastNumber
  <1>3. x # 0 /\ x - 1 \in Nat
    BY <1>2
  <1>4. x - 1 \in S
    BY <1>2, <1>3
  <1>5. (x - 1) + 1 = x
    BY <1>2
  <1> QED
    BY <1>2, <1>3, <1>4, <1>5

(* The commands of a line, one after the other.                            *)
MeantWith(m, f, c) ==
    [a \in Cells |-> IF a \notin Named(c) THEN f[a] ELSE IF c.cmd = "erase" THEN Erased ELSE m[a - c.to]]

(* f is what the commands of l leave of b, one after the other.            *)
After(f, l, b, m) == f = [k \in 0..Len(l) |-> IF k = 0 THEN b ELSE MeantWith(m, f[k - 1], l[k])]

LEMMA AfterExists ==
    ASSUME NEW l \in Seq(Commands), NEW b, NEW m
    PROVE  \E f : After(f, l, b, m)
  <1> DEFINE Body(n, f) == [k \in 0..n |-> IF k = 0 THEN b ELSE MeantWith(m, f[k - 1], l[k])]
             S == {n \in Nat : \E f : f = Body(n, f)}
  <1>1. 0 \in S
    <2>1. [k \in 0..0 |-> b] = Body(0, [k \in 0..0 |-> b])
      OBVIOUS
    <2> QED
      BY <2>1
  <1>2. ASSUME NEW n \in Nat, n \in S
        PROVE  n + 1 \in S
    <2>1. PICK f : f = Body(n, f)
      BY <1>2
    <2> DEFINE g == [k \in 0..(n + 1) |-> IF k = n + 1 THEN MeantWith(m, f[n], l[n + 1]) ELSE f[k]]
    <2>2. ASSUME NEW k \in 0..(n + 1)
          PROVE  g[k] = IF k = 0 THEN b ELSE MeantWith(m, g[k - 1], l[k])
      <3>1. CASE k = n + 1
        <4>1. n \in 0..(n + 1) /\ n # n + 1 /\ k # 0 /\ k - 1 = n
          BY <3>1
        <4>2. g[k] = MeantWith(m, f[n], l[n + 1]) /\ g[n] = f[n]
          BY <3>1, <4>1
        <4> QED
          BY <3>1, <4>1, <4>2
      <3>2. CASE k # n + 1
        <4>1. k \in 0..n
          BY <3>2
        <4>2. g[k] = f[k] /\ f[k] = IF k = 0 THEN b ELSE MeantWith(m, f[k - 1], l[k])
          BY <2>1, <3>2, <4>1
        <4>3. k # 0 => k - 1 \in 0..(n + 1) /\ k - 1 # n + 1
          BY <4>1
        <4>4. k # 0 => g[k - 1] = f[k - 1]
          BY <4>3
        <4> QED
          BY <4>2, <4>4
      <3> QED
        BY <3>1, <3>2
    <2>3. g = [k \in 0..(n + 1) |-> g[k]]
      OBVIOUS
    <2> HIDE DEF g
    <2>4. g = Body(n + 1, g)
      BY <2>2, <2>3
    <2>5. \E h : h = Body(n + 1, h)
      BY <2>4
    <2>6. n + 1 \in Nat
      OBVIOUS
    <2> HIDE DEF Body
    <2> QED
      BY <2>5, <2>6
  <1>3. Len(l) \in S
    <2>1. Len(l) \in Nat
      OBVIOUS
    <2> HIDE DEF S
    <2> QED
      BY <1>1, <1>2, <2>1, SetInduction
  <1> QED
    BY <1>3 DEF After

LEMMA MeantIs ==
    ASSUME TypeOK
    PROVE  /\ MeantUpTo(0) = before
           /\ \A i \in 1..Len(line) : MeantUpTo(i) = Meant(MeantUpTo(i - 1), line[i])
  <1> DEFINE after == CHOOSE f : f = [k \in 0..Len(line) |->
                                        IF k = 0 THEN before ELSE MeantWith(ram, f[k - 1], line[k])]
  <1>1. line \in Seq(Commands)
    BY DEF TypeOK
  <1>2. /\ \A i : MeantUpTo(i) = after[i]
        /\ \A f, c : Meant(f, c) = MeantWith(ram, f, c)
    BY DEF MeantUpTo, Meant, MeantWith
  <1>3. \E f : f = [k \in 0..Len(line) |-> IF k = 0 THEN before ELSE MeantWith(ram, f[k - 1], line[k])]
    <2>1. \E f : After(f, line, before, ram)
      BY <1>1, AfterExists
    <2> QED
      BY <2>1 DEF After
  <1>4. after = [k \in 0..Len(line) |-> IF k = 0 THEN before ELSE MeantWith(ram, after[k - 1], line[k])]
    BY <1>3
  <1> HIDE DEF after
  <1>5. \A k \in 0..Len(line) : after[k] = IF k = 0 THEN before ELSE MeantWith(ram, after[k - 1], line[k])
    BY <1>4
  <1>6. Len(line) \in Nat
    BY <1>1
  <1>7. after[0] = before
    BY <1>5, <1>6
  <1>8. ASSUME NEW i \in 1..Len(line)
        PROVE  after[i] = MeantWith(ram, after[i - 1], line[i])
    <2>1. i \in 0..Len(line) /\ i # 0
      BY <1>6
    <2> QED
      BY <1>5, <2>1
  <1> QED
    BY <1>2, <1>7, <1>8

(* A new line starts from what the flash holds.                            *)
LEMMA MeantStarts ==
    ASSUME TypeOK'
    PROVE  MeantUpTo(0)' = before'
  <1> DEFINE after == CHOOSE f : f = [k \in 0..Len(line') |->
                                        IF k = 0 THEN before' ELSE MeantWith(ram', f[k - 1], line'[k])]
  <1>1. line' \in Seq(Commands)
    BY DEF TypeOK
  <1>2. MeantUpTo(0)' = after[0]
    BY DEF MeantUpTo, Meant, MeantWith
  <1>3. \E f : f = [k \in 0..Len(line') |-> IF k = 0 THEN before' ELSE MeantWith(ram', f[k - 1], line'[k])]
    <2>1. \E f : After(f, line', before', ram')
      BY <1>1, AfterExists
    <2> QED
      BY <2>1 DEF After
  <1>4. after = [k \in 0..Len(line') |-> IF k = 0 THEN before' ELSE MeantWith(ram', after[k - 1], line'[k])]
    BY <1>3
  <1> HIDE DEF after
  <1>5. Len(line') \in Nat
    BY <1>1
  <1>6. after[0] = before'
    BY <1>4, <1>5
  <1> QED
    BY <1>2, <1>6

(* While a line runs it keeps its meaning.                                 *)
LEMMA MeantSame ==
    ASSUME line' = line, ram' = ram, before' = before
    PROVE  /\ \A i : MeantUpTo(i)' = MeantUpTo(i)
           /\ ErasedFirst' = ErasedFirst
  <1>1. \A i : MeantUpTo(i)' = MeantUpTo(i)
    BY DEF MeantUpTo, Meant
  <1> QED
    BY <1>1 DEF ErasedFirst

(* An accepted erase covers all that its command names.                    *)
LEMMA EraseCovers ==
    ASSUME NEW c \in Commands, c.cmd = "erase", NEW r \in EraseRange(c)
    PROVE  NamedByErase(c) = SectorCells(r)
  <1>1. /\ r[1] \in Sectors /\ r[2] \in Sectors /\ r[1] <= r[2]
        /\ SectorCells(r) \subseteq NamedByErase(c)
    BY EraseWithin
  <1>2. c.from \in Nat /\ c.to \in Nat
    BY DEF Commands
  <1>t. \A t \in Sectors : Start(t) \in Int /\ End(t) \in Int /\ t \in Int
    BY Sizes1 DEF Sectors, Start, End
  <1>3. SUFFICES ASSUME NEW a \in NamedByErase(c)
                 PROVE  a \in Cells /\ r[1] <= SectorOf(a) /\ SectorOf(a) <= r[2]
    BY <1>1 DEF SectorCells
  <1>4. a \in Cells /\ a \in Int
    BY <1>3, Sizes1 DEF NamedByErase, Commands
  <1>5. SectorOf(a) \in Sectors /\ Start(SectorOf(a)) <= a /\ a <= End(SectorOf(a))
    BY <1>4, SectorBounds
  <1>6. ASSUME c.from <= a, c.from = Start(r[1])
        PROVE  r[1] <= SectorOf(a)
    <2>1. SUFFICES ASSUME SectorOf(a) < r[1] PROVE FALSE
      BY <1>1, <1>5, <1>t
    <2>2. End(SectorOf(a)) < Start(r[1])
      BY <1>1, <1>5, <2>1, Ordered
    <2> QED
      BY <1>1, <1>4, <1>5, <1>6, <1>t, <2>2
  <1>7. CASE c.form = "all"
    <2>1. r = <<0, SectorCount - 1>>
      BY <1>7 DEF EraseRange
    <2> QED
      BY <1>4, <1>5, <2>1 DEF Sectors
  <1>8. CASE c.form = "sectors"
    <2>1. r = <<c.from, c.to>>
      BY <1>8 DEF EraseRange, SectorSpec
    <2> QED
      BY <1>3, <1>4, <1>8, <2>1 DEF NamedByErase
  <1>9. CASE c.form = "end"
    <2>1. r \in FillRanges(c.from, c.to)
      BY <1>9 DEF EraseRange
    <2>2. c.from <= a /\ a <= c.to
      BY <1>3, <1>9 DEF NamedByErase
    <2>3. /\ c.from = Start(r[1])
          /\ c.to = End(r[2]) \/ (r[2] = SectorCount - 1 /\ c.to > End(r[2]))
      BY <1>2, <2>1, FilledRange
    <2>4. SectorOf(a) <= r[2]
      <3>1. CASE r[2] = SectorCount - 1
        BY <1>5, <3>1 DEF Sectors
      <3>2. CASE c.to = End(r[2])
        <4>1. SUFFICES ASSUME r[2] < SectorOf(a) PROVE FALSE
          BY <1>1, <1>5, <1>t
        <4>2. End(r[2]) < Start(SectorOf(a))
          BY <1>1, <1>5, <4>1, Ordered
        <4> QED
          BY <1>1, <1>2, <1>4, <1>5, <1>t, <2>2, <3>2, <4>2
      <3> QED
        BY <2>3, <3>1, <3>2
    <2> QED
      BY <1>4, <1>6, <2>2, <2>3, <2>4
  <1>10. CASE c.form = "length"
    <2>1. PICK hi \in RoundUp(c.from + c.to - 1) : r \in FillRanges(c.from, hi)
      BY <1>10 DEF EraseRange
    <2> DEFINE t == SectorOf(c.from + c.to - 1)
    <2>2. t \in Sectors /\ hi = End(t) /\ hi \in Int
      <3>1. c.from + c.to - 1 \in Int
        BY <1>2
      <3>2. t \in Sectors /\ hi = End(t) /\ hi \in Cells
        BY <2>1, <3>1, LastSector
      <3> QED
        BY <3>2, Sizes1
    <2>3. c.from <= a /\ SectorOf(a) <= t
      BY <1>3, <1>10 DEF NamedByErase
    <2> HIDE DEF t
    <2>4. /\ c.from = Start(r[1])
          /\ hi = End(r[2]) \/ (r[2] = SectorCount - 1 /\ hi > End(r[2]))
      BY <1>2, <2>1, <2>2, FilledRange
    <2>5. t <= r[2]
      <3>1. CASE r[2] = SectorCount - 1
        BY <2>2, <3>1 DEF Sectors
      <3>2. CASE hi = End(r[2])
        <4>1. SUFFICES ASSUME r[2] < t PROVE FALSE
          BY <1>1, <1>t, <2>2
        <4>2. End(r[2]) < Start(t)
          BY <1>1, <2>2, <4>1, Ordered
        <4>3. t <= t
          BY <2>2 DEF Sectors
        <4>4. Start(t) <= End(t)
          BY <2>2, <4>3, Monotone
        <4> QED
          BY <1>1, <1>t, <2>2, <3>2, <4>2, <4>4
      <3> QED
        BY <2>4, <3>1, <3>2
    <2>6. SectorOf(a) <= r[2]
      BY <1>1, <1>5, <1>t, <2>2, <2>3, <2>5
    <2> QED
      BY <1>4, <1>6, <2>3, <2>4, <2>6
  <1> QED
    BY <1>7, <1>8, <1>9, <1>10 DEF Commands

(* A program of a page from its start on goes where it should.             *)
LEMMA HitExact ==
    ASSUME NEW at \in Nat, NEW n \in Nat, at % PageSize = 0, n <= PageSize,
           NEW a \in Cells
    PROVE  /\ a \in Hit(at, n) <=> at <= a /\ a < at + n
           /\ a \in Hit(at, n) => Distance(at, a) = a - at
  <1>1. a \in Nat /\ PageSize \in Nat \ {0}
    BY Sizes1
  <1>2. ASSUME at <= a, a < at + n
        PROVE  a \div PageSize = at \div PageSize
    <2> DEFINE q == at \div PageSize
    <2>1. q \in Nat /\ at = PageSize * q + 0
      BY InPage
    <2>2. PICK x \in Nat : a = at + x /\ x < PageSize
      <3>1. a - at \in Nat /\ a - at < PageSize
        BY <1>1, <1>2
      <3> QED
        BY <1>1, <3>1
    <2> DEFINE p == a \div PageSize
               y == a % PageSize
    <2>3. p \in Nat /\ y \in 0..(PageSize - 1) /\ a = PageSize * p + y
      BY <1>1, InPage
    <2>4. PageSize * p \in Nat /\ PageSize * q \in Nat
      BY <2>1, <2>3, Sizes1
    <2> HIDE DEF p, q, y
    <2>5. ~(p < q)
      <3>1. SUFFICES ASSUME p < q PROVE FALSE
        OBVIOUS
      <3>2. PageSize * (q - (p + 1)) >= 0
        BY <2>1, <2>3, <3>1, Sizes1
      <3>3. PageSize * q = PageSize * p + PageSize + PageSize * (q - (p + 1))
        BY <2>1, <2>3, Sizes1
      <3>4. PageSize * (q - (p + 1)) \in Int
        BY <2>1, <2>3, Sizes1
      <3> QED
        BY <1>1, <2>1, <2>2, <2>3, <2>4, <3>2, <3>3, <3>4
    <2>6. ~(q < p)
      <3>1. SUFFICES ASSUME q < p PROVE FALSE
        OBVIOUS
      <3>2. PageSize * (p - (q + 1)) >= 0
        BY <2>1, <2>3, <3>1, Sizes1
      <3>3. PageSize * p = PageSize * q + PageSize + PageSize * (p - (q + 1))
        BY <2>1, <2>3, Sizes1
      <3>4. PageSize * (p - (q + 1)) \in Int
        BY <2>1, <2>3, Sizes1
      <3> QED
        BY <1>1, <2>1, <2>2, <2>3, <2>4, <3>2, <3>3, <3>4
    <2>7. p = q
      BY <2>1, <2>3, <2>5, <2>6
    <2> QED
      BY <2>7 DEF p, q
  <1>3. ASSUME at <= a, a < at + n
        PROVE  Distance(at, a) = a - at /\ a \in Hit(at, n)
    <2>1. Distance(at, a) = a - at
      BY <1>1, <1>2, <1>3, DistanceIs
    <2>2. a - at < n
      BY <1>1, <1>3
    <2> QED
      BY <1>2, <1>3, <2>1, <2>2 DEF Hit
  <1>4. a \in Hit(at, n) => at <= a /\ a < at + n
    BY HitAhead
  <1> QED
    BY <1>3, <1>4

(* What the line has done so far, if it was accepted and erases what it    *)
(* programs: all of it between two commands, the sectors that the erase    *)
(* has passed, the bytes that the copy has written.                        *)
OnPages ==
    \A i \in 1..Len(line) : line[i].cmd = "cp" => line[i].to % PageSize = 0

IsFunction == flash = [a \in Cells |-> flash[a]]

AtRest(i) == op = Idle => flash = MeantUpTo(i)

Erasing(i) ==
    op.kind = "erase" =>
        \E r \in EraseRange(line[i + 1]) :
            /\ op.last = r[2] /\ r[1] <= op.sect
            /\ \A a \in Cells :
                   flash[a] = IF r[1] <= SectorOf(a) /\ SectorOf(a) < op.sect
                              THEN Erased ELSE MeantUpTo(i)[a]

Filling(i) ==
    op.kind = "write" =>
        /\ op.total % PageSize = 0
        /\ \A a \in Cells :
               flash[a] = IF op.addr <= a /\ a < op.addr + op.total
                          THEN ram[a - op.addr] ELSE MeantUpTo(i)[a]

DoneSoFar ==
    rc = "ok" /\ ErasedFirst =>
        \A i \in 0..Len(line) : next = i + 1 => AtRest(i) /\ Erasing(i) /\ Filling(i)

(* What setmac has in memory is the block it read, but for the address.    *)
BlockCopied ==
    line = SetMacLine =>
        \A i \in Cells :
            (i < SectorSize /\ i \notin MacCells) => ram[i] = before[Start(TplinkSector) + i]

LineInv == OnPages /\ IsFunction /\ DoneSoFar /\ BlockCopied

(* The copies that users type start on a page; a line that is setmac's     *)
(* comes from setmac.                                                      *)
PagedCopies ==
    \A l \in Typed : \A i \in 1..Len(l) : l[i].cmd = "cp" => l[i].to % PageSize = 0

SetMacAlone == TplinkSector # 0 /\ SetMacLine \notin Typed

(* A step of a command leaves the line and what it means.                  *)
LEMMA RunningKeeps ==
    ASSUME LineInv,
           \/ EraseStarts \/ EraseRefused \/ EraseSector
           \/ CopyStarts \/ CopyRefused \/ WritePage
    PROVE  /\ line' = line /\ ram' = ram /\ before' = before
           /\ OnPages' /\ IsFunction' /\ BlockCopied'
  <1>1. line' = line /\ ram' = ram /\ before' = before
    BY DEF EraseStarts, EraseRefused, EraseSector, CopyStarts, CopyRefused, WritePage
  <1>2. OnPages' /\ BlockCopied'
    BY <1>1 DEF LineInv, OnPages, BlockCopied
  <1>3. IsFunction'
    BY DEF LineInv, IsFunction, EraseStarts, EraseRefused, EraseSector, CopyStarts,
           CopyRefused, WritePage
  <1> QED
    BY <1>1, <1>2, <1>3

(* A refused command fails the line.                                       *)
LEMMA RefusedLine ==
    ASSUME EraseRefused \/ CopyRefused
    PROVE  DoneSoFar'
  <1>1. rc' = "failed"
    BY DEF EraseRefused, CopyRefused, Return
  <1> QED
    BY <1>1 DEF DoneSoFar

LEMMA EraseLine ==
    ASSUME IInv, LineInv, EraseStarts \/ EraseSector
    PROVE  DoneSoFar'
  <1>1. /\ line' = line /\ ram' = ram /\ before' = before /\ IsFunction /\ IsFunction'
    BY RunningKeeps DEF LineInv
  <1>2. /\ \A i : MeantUpTo(i)' = MeantUpTo(i)
        /\ ErasedFirst' = ErasedFirst
    BY <1>1, MeantSame
  <1>3. next \in 1..Len(line) /\ line[next] \in Commands /\ line[next].cmd = "erase" /\ Len(line) \in Nat
    <2>1. next \in 1..Len(line) /\ line[next].cmd = "erase" /\ line \in Seq(Commands)
      BY CommandTypes DEF EraseStarts, EraseSector, IInv, EraseInv, TypeOK
    <2> QED
      BY <2>1
  <1> SUFFICES ASSUME rc' = "ok", ErasedFirst, NEW j \in 0..Len(line), next' = j + 1
               PROVE  AtRest(j)' /\ Erasing(j)' /\ Filling(j)'
    BY <1>1, <1>2 DEF DoneSoFar
  <1>4. PICK i \in 0..(Len(line) - 1) : next = i + 1
    <2>1. next - 1 \in 0..(Len(line) - 1) /\ next = (next - 1) + 1
      BY <1>3
    <2> QED
      BY <2>1
  <1>5. rc = "ok" /\ AtRest(i) /\ Erasing(i)
    <2>1. rc = "ok"
      BY DEF EraseStarts, EraseSector, Return
    <2>2. i \in 0..Len(line)
      BY <1>3
    <2> QED
      BY <1>4, <2>1, <2>2 DEF LineInv, DoneSoFar
  <1>6. CASE EraseStarts
    <2>1. PICK r \in EraseRange(line[next]) : op' = [kind |-> "erase", sect |-> r[1], last |-> r[2]]
      BY <1>6 DEF EraseStarts
    <2>2. op'.kind = "erase" /\ op'.sect = r[1] /\ op'.last = r[2] /\ op' # Idle
      BY <2>1 DEF Idle
    <2>3. next' = next /\ flash' = flash /\ flash = MeantUpTo(i) /\ j = i
      BY <1>4, <1>5, <1>6 DEF EraseStarts, Command, AtRest
    <2>4. r[1] \in Sectors /\ r[1] <= r[1]
      BY <1>3, EraseWithin DEF Sectors
    <2>5. \A a \in Cells : SectorOf(a) \in Sectors
      BY SectorBounds
    <2>6. \A a \in Cells : ~(r[1] <= SectorOf(a) /\ SectorOf(a) < r[1])
      BY <2>4, <2>5 DEF Sectors
    <2>7. r \in EraseRange(line'[j + 1])
      BY <1>1, <1>4, <2>3
    <2>8. \A a \in Cells : flash'[a] = IF r[1] <= SectorOf(a) /\ SectorOf(a) < op'.sect
                                      THEN Erased ELSE MeantUpTo(j)'[a]
      BY <1>2, <2>2, <2>3, <2>6
    <2>9. Erasing(j)'
      BY <2>2, <2>4, <2>7, <2>8 DEF Erasing
    <2> QED
      BY <2>2, <2>9 DEF AtRest, Filling
  <1>7. CASE EraseSector
    <2>1. /\ op.kind = "erase" /\ op \in Erases /\ op.sect <= op.last
      BY <1>7, OpTypes DEF EraseSector, IInv
    <2>2. PICK r \in EraseRange(line[next]) :
              /\ op.last = r[2] /\ r[1] <= op.sect
              /\ \A a \in Cells :
                     flash[a] = IF r[1] <= SectorOf(a) /\ SectorOf(a) < op.sect
                                THEN Erased ELSE MeantUpTo(i)[a]
      BY <1>4, <1>5, <2>1 DEF Erasing
    <2>3. \A a \in Cells : flash'[a] = IF SectorOf(a) = op.sect THEN Erased ELSE flash[a]
      BY <1>7 DEF EraseSector
    <2>4. /\ r[1] \in Int /\ r[2] \in Int /\ op.sect \in Int /\ op.last \in Int
          /\ \A a \in Cells : SectorOf(a) \in Int
      BY <1>3, <2>1, EraseWithin, SectorBounds DEF Erases, Sectors
    <2>5. \A a \in Cells :
              flash'[a] = IF r[1] <= SectorOf(a) /\ SectorOf(a) < op.sect + 1
                          THEN Erased ELSE MeantUpTo(i)[a]
      <3> SUFFICES ASSUME NEW a \in Cells
                   PROVE  flash'[a] = IF r[1] <= SectorOf(a) /\ SectorOf(a) < op.sect + 1
                                      THEN Erased ELSE MeantUpTo(i)[a]
        OBVIOUS
      <3>1. /\ SectorOf(a) < op.sect + 1 <=> SectorOf(a) < op.sect \/ SectorOf(a) = op.sect
            /\ SectorOf(a) = op.sect => r[1] <= SectorOf(a)
        BY <2>2, <2>4
      <3> QED
        BY <2>2, <2>3, <3>1
    <2>6. CASE op.sect < op.last
      <3>1. op' = [op EXCEPT !.sect = @ + 1] /\ next' = next
        BY <1>7, <2>6 DEF EraseSector
      <3>2. /\ op'.kind = "erase" /\ op'.sect = op.sect + 1 /\ op'.last = op.last /\ op' # Idle
        BY <2>1, <3>1 DEF Erases, Idle
      <3>3. j = i /\ r \in EraseRange(line'[j + 1])
        BY <1>1, <1>4, <3>1
      <3>4. r[1] <= op'.sect
        BY <2>2, <2>4, <3>2
      <3>5. \A a \in Cells : flash'[a] = IF r[1] <= SectorOf(a) /\ SectorOf(a) < op'.sect
                                        THEN Erased ELSE MeantUpTo(j)'[a]
        BY <1>2, <2>5, <3>2, <3>3
      <3>6. Erasing(j)'
        BY <2>2, <3>2, <3>3, <3>4, <3>5 DEF Erasing
      <3> QED
        BY <3>2, <3>6 DEF AtRest, Filling
    <2>7. CASE ~(op.sect < op.last)
      <3>1. op' = Idle /\ op'.kind = "idle" /\ next' = next + 1
        BY <1>7, <2>7 DEF EraseSector, Return, Idle
      <3>2. j = i + 1 /\ j - 1 = i /\ line[j] = line[next] /\ j \in 1..Len(line)
        BY <1>3, <1>4, <3>1
      <3>3. MeantUpTo(j) = Meant(MeantUpTo(i), line[next])
        BY <3>2, MeantIs DEF IInv
      <3>4. NamedByErase(line[next]) = SectorCells(r)
        BY <1>3, EraseCovers
      <3>5. op.sect = r[2]
        BY <2>1, <2>2, <2>4, <2>7
      <3>6. \A a \in Cells : flash'[a] = IF a \in NamedByErase(line[next])
                                        THEN Erased ELSE MeantUpTo(i)[a]
        <4> SUFFICES ASSUME NEW a \in Cells
                     PROVE  flash'[a] = IF a \in SectorCells(r) THEN Erased ELSE MeantUpTo(i)[a]
          BY <3>4
        <4>1. SectorOf(a) < op.sect + 1 <=> SectorOf(a) <= r[2]
          BY <2>4, <3>5
        <4> QED
          BY <2>5, <4>1 DEF SectorCells
      <3>7. Meant(MeantUpTo(i), line[next])
              = [a \in Cells |-> IF a \in NamedByErase(line[next])
                                 THEN Erased ELSE MeantUpTo(i)[a]]
        BY <1>3 DEF Meant, Named
      <3>8. flash' = [a \in Cells |-> flash'[a]]
        BY <1>1 DEF IsFunction
      <3>9. flash' = MeantUpTo(j)'
        BY <1>2, <3>3, <3>6, <3>7, <3>8
      <3> QED
        BY <3>1, <3>9 DEF AtRest, Erasing, Filling
    <2> QED
      BY <2>6, <2>7
  <1> QED
    BY <1>6, <1>7

(* A copy to erased cells from the start of a page stores what it copies.  *)
LEMMA CopyLine ==
    ASSUME IInv, LineInv, CopyStarts \/ WritePage
    PROVE  DoneSoFar'
  <1>1. /\ line' = line /\ ram' = ram /\ before' = before /\ IsFunction /\ IsFunction' /\ OnPages
    BY RunningKeeps DEF LineInv
  <1>2. /\ \A i : MeantUpTo(i)' = MeantUpTo(i)
        /\ ErasedFirst' = ErasedFirst
    BY <1>1, MeantSame
  <1>3. next \in 1..Len(line) /\ line[next] \in Commands /\ line[next].cmd = "cp" /\ Len(line) \in Nat
    <2>1. next \in 1..Len(line) /\ line[next].cmd = "cp" /\ line \in Seq(Commands)
      BY CommandTypes DEF CopyStarts, WritePage, IInv, WriteInv, TypeOK
    <2> QED
      BY <2>1
  <1> SUFFICES ASSUME rc' = "ok", ErasedFirst, NEW j \in 0..Len(line), next' = j + 1
               PROVE  AtRest(j)' /\ Erasing(j)' /\ Filling(j)'
    BY <1>1, <1>2 DEF DoneSoFar
  <1>4. PICK i \in 0..(Len(line) - 1) : next = i + 1 /\ next - 1 = i
    <2>1. next - 1 \in 0..(Len(line) - 1) /\ next = (next - 1) + 1
      BY <1>3
    <2> QED
      BY <2>1
  <1>5. rc = "ok" /\ AtRest(i) /\ Filling(i)
    <2>1. rc = "ok"
      BY DEF CopyStarts, WritePage, Return
    <2>2. i \in 0..Len(line)
      BY <1>3
    <2> QED
      BY <1>4, <2>1, <2>2 DEF LineInv, DoneSoFar
  <1>6. CASE CopyStarts
    <2>1. /\ op' = [kind |-> "write", addr |-> line[next].to, length |-> line[next].length, total |-> 0]
          /\ next' = next /\ flash' = flash /\ op = Idle /\ line[next].to + line[next].length - 1 \in Cells
      BY <1>6 DEF CopyStarts, Command
    <2>2. op'.kind = "write" /\ op'.addr = line[next].to /\ op'.total = 0 /\ op' # Idle
      BY <2>1 DEF Idle
    <2>3. flash = MeantUpTo(i) /\ j = i
      BY <1>4, <1>5, <2>1 DEF AtRest
    <2>4. line[next].to \in Nat
      BY <1>3 DEF Commands
    <2>5. \A a \in Cells : ~(op'.addr <= a /\ a < op'.addr + op'.total)
      BY <2>2, <2>4, Sizes1
    <2>6. op'.total % PageSize = 0
      BY <2>2, Sizes1
    <2>7. \A a \in Cells : flash'[a] = IF op'.addr <= a /\ a < op'.addr + op'.total
                                      THEN ram'[a - op'.addr] ELSE MeantUpTo(j)'[a]
      BY <1>2, <2>1, <2>3, <2>5
    <2>8. Filling(j)'
      BY <2>6, <2>7 DEF Filling
    <2> QED
      BY <2>2, <2>8 DEF AtRest, Erasing
  <1>7. CASE WritePage
    <2> DEFINE k == Chunk(op)
               at == op.addr + op.total
    <2>1. /\ op \in Writes /\ op.total < op.length /\ op.kind = "write"
          /\ op.addr = line[next].to /\ op.length = line[next].length
          /\ op.addr + op.length - 1 \in Cells
          /\ op.addr % PageSize = 0 /\ op.total % PageSize = 0
      BY <1>1, <1>3, <1>5, <1>7, OpTypes
         DEF WritePage, IInv, WriteInv, OnPages, Filling, TypeOK
    <2>2. \A a \in Cells :
              flash[a] = IF op.addr <= a /\ a < op.addr + op.total
                         THEN ram[a - op.addr] ELSE MeantUpTo(i)[a]
      BY <1>5, <2>1 DEF Filling
    <2>3. /\ op.addr \in Nat /\ op.total \in Nat /\ op.length \in Nat
          /\ k \in Nat /\ k <= PageSize /\ op.total + k <= op.length
          /\ op.total + k < op.length => k = PageSize
      <3>1. op.addr \in Nat /\ op.length \in Nat /\ op.total \in Nat
        BY <2>1, Sizes1 DEF Writes
      <3>2. /\ Room(op) \in 1..PageSize /\ k \in 1..(op.length - op.total)
            /\ k <= Room(op)
            /\ op.total + k < op.length => k = Room(op)
        BY <2>1, ChunkIs
      <3>3. Room(op) = PageSize
        BY <2>1, Sizes1 DEF Room
      <3> HIDE DEF k
      <3> QED
        BY <2>1, <3>1, <3>2, <3>3
    <2>4. at \in Nat /\ at % PageSize = 0
      BY <2>1, <2>3, PagesAdd
    <2>5. \A a \in Cells : flash'[a] = IF a \in Hit(at, k)
                                      THEN Programmed(flash[a], ram[op.total + Distance(at, a)])
                                      ELSE flash[a]
      BY <1>7 DEF WritePage
    <2>6. \A a \in Cells : (op.addr <= a /\ a < op.addr + op.length) => MeantUpTo(i)[a] = Erased
      BY <1>3, <1>4, <2>1 DEF ErasedFirst, Named, NamedByCopy
    <2>7. \A a \in Cells :
              flash'[a] = IF op.addr <= a /\ a < op.addr + (op.total + k)
                          THEN ram[a - op.addr] ELSE MeantUpTo(i)[a]
      <3> SUFFICES ASSUME NEW a \in Cells
                   PROVE  flash'[a] = IF op.addr <= a /\ a < op.addr + (op.total + k)
                                      THEN ram[a - op.addr] ELSE MeantUpTo(i)[a]
        OBVIOUS
      <3>1. a \in Nat
        BY Sizes1
      <3>2. /\ a \in Hit(at, k) <=> at <= a /\ a < at + k
            /\ a \in Hit(at, k) => Distance(at, a) = a - at
        BY <2>3, <2>4, HitExact
      <3>3. CASE a \in Hit(at, k)
        <4>1. /\ op.addr <= a /\ a < op.addr + (op.total + k) /\ a < op.addr + op.length
              /\ ~(a < op.addr + op.total) /\ op.total + (a - at) = a - op.addr
          <5> HIDE DEF k
          <5> QED
            BY <2>3, <3>1, <3>2, <3>3
        <4>2. flash[a] = Erased
          BY <2>2, <2>6, <4>1
        <4>3. flash'[a] = ram[op.total + (a - at)]
          BY <2>5, <3>2, <3>3, <4>2 DEF Programmed
        <4> QED
          BY <4>1, <4>3
      <3>4. CASE a \notin Hit(at, k)
        <4>1. (op.addr <= a /\ a < op.addr + (op.total + k))
                <=> (op.addr <= a /\ a < op.addr + op.total)
          <5> HIDE DEF k
          <5> QED
            BY <2>3, <3>1, <3>2, <3>4
        <4> QED
          BY <2>2, <2>5, <3>4, <4>1
      <3> QED
        BY <3>3, <3>4
    <2>8. CASE op.total + k < op.length
      <3>1. op' = [op EXCEPT !.total = @ + k] /\ next' = next
        BY <1>7, <2>8 DEF WritePage
      <3>2. /\ op'.kind = "write" /\ op'.addr = op.addr /\ op'.total = op.total + k /\ op' # Idle
        BY <2>1, <3>1 DEF Writes, Idle
      <3>3. PageSize % PageSize = 0 /\ PageSize \in Nat
        BY Multiple, Sizes1
      <3>4. (op.total + k) % PageSize = 0
        BY <2>1, <2>3, <2>8, <3>3, PagesAdd
      <3>5. j = i
        BY <1>4, <3>1
      <3>6. \A a \in Cells : flash'[a] = IF op'.addr <= a /\ a < op'.addr + op'.total
                                        THEN ram'[a - op'.addr] ELSE MeantUpTo(j)'[a]
        BY <1>1, <1>2, <2>7, <3>2, <3>5
      <3>7. Filling(j)'
        BY <3>2, <3>4, <3>6 DEF Filling
      <3> QED
        BY <3>2, <3>7 DEF AtRest, Erasing
    <2>9. CASE ~(op.total + k < op.length)
      <3>1. op' = Idle /\ op'.kind = "idle" /\ next' = next + 1
        BY <1>7, <2>9 DEF WritePage, Return, Idle
      <3>2. j = i + 1 /\ j - 1 = i /\ line[j] = line[next] /\ j \in 1..Len(line)
        BY <1>3, <1>4, <3>1
      <3>3. MeantUpTo(j) = Meant(MeantUpTo(i), line[next])
        BY <3>2, MeantIs DEF IInv
      <3>4. op.total + k = op.length
        <4> HIDE DEF k
        <4> QED
          BY <2>3, <2>9
      <3>5. Meant(MeantUpTo(i), line[next])
              = [a \in Cells |-> IF op.addr <= a /\ a < op.addr + op.length
                                 THEN ram[a - op.addr] ELSE MeantUpTo(i)[a]]
        BY <1>3, <2>1 DEF Meant, Named, NamedByCopy
      <3>6. flash' = [a \in Cells |-> flash'[a]]
        BY <1>1 DEF IsFunction
      <3>7. flash' = MeantUpTo(j)'
        BY <1>2, <2>7, <3>3, <3>4, <3>5, <3>6
      <3> QED
        BY <3>1, <3>7 DEF AtRest, Erasing, Filling
    <2> QED
      BY <2>8, <2>9
  <1> QED
    BY <1>6, <1>7

(* A line begins with what the flash holds.                                *)
LEMMA BeginsLine ==
    ASSUME TypeOK', next' = 1, op' = Idle, before' = flash', IsFunction'
    PROVE  DoneSoFar'
  <1>1. MeantUpTo(0)' = flash'
    BY MeantStarts
  <1>2. op'.kind = "idle"
    BY DEF Idle
  <1> SUFFICES ASSUME NEW j \in 0..Len(line'), next' = j + 1
               PROVE  AtRest(j)' /\ Erasing(j)' /\ Filling(j)'
    BY DEF DoneSoFar
  <1>3. Len(line') \in Nat
    BY DEF TypeOK
  <1>4. j = 0
    BY <1>3
  <1> QED
    BY <1>1, <1>2, <1>4 DEF AtRest, Erasing, Filling

LEMMA ComposedAligned ==
    ASSUME NEW s \in Nat, NEW n \in Nat
    PROVE  \A i \in 1..Len(Composed(s, n)) :
               Composed(s, n)[i].cmd = "cp" => Composed(s, n)[i].to % PageSize = 0
  <1>1. /\ Len(Composed(s, n)) = 2
        /\ Composed(s, n)[1].cmd = "erase" /\ Composed(s, n)[2].to = Start(s)
    <2>1. /\ Composed(s, n)[1] = [cmd |-> "erase", form |-> "length", from |-> Start(s), to |-> n]
          /\ Composed(s, n)[2] = [cmd |-> "cp", to |-> Start(s), length |-> n]
          /\ Len(Composed(s, n)) = 2
      BY ComposedIs
    <2> QED
      BY <2>1
  <1>2. Start(s) % PageSize = 0
    BY StartOnPage
  <1>3. \A i \in 1..Len(Composed(s, n)) : i = 1 \/ i = 2
    BY <1>1
  <1> QED
    BY <1>1, <1>2, <1>3

(* No upgrade writes where setmac does.                                    *)
LEMMA UpgradesApart ==
    ASSUME SetMacAlone
    PROVE  SetMacLine \notin Upgrades
  <1>1. /\ TplinkSector \in Nat /\ TplinkSector # 0 /\ TplinkSector < SectorCount - 1
        /\ SectorCount \in Nat /\ SectorSize \in Nat \ {0}
    BY SpiFlashAssumption, Sizes1 DEF SetMacAlone
  <1>2. SetMacLine[2].to = Start(TplinkSector)
    BY DEF SetMacLine, EraseAndCopy
  <1>3. ASSUME NEW l \in Upgrades
        PROVE  l[2].to \in {0, Size - SectorSize, Start(TplinkSector + 1)}
    BY DEF Upgrades, EraseAndCopy
  <1>4. Start(TplinkSector) # 0
    BY <1>1 DEF Start
  <1>5. Start(TplinkSector + 1) # Start(TplinkSector)
    <2>1. Start(TplinkSector + 1) = Start(TplinkSector) + SectorSize
      BY <1>1 DEF Start
    <2>2. Start(TplinkSector) \in Nat
      BY <1>1, StartType
    <2> QED
      BY <1>1, <2>1, <2>2
  <1>6. Size - SectorSize # Start(TplinkSector)
    <2>1. TplinkSector \in Sectors /\ SectorCount - 1 \in Sectors
      BY <1>1 DEF Sectors
    <2>2. End(TplinkSector) < Start(SectorCount - 1)
      BY <1>1, <2>1, Ordered
    <2>3. Size - SectorSize = Start(SectorCount - 1)
      BY <1>1 DEF Size, Start
    <2>4. Start(TplinkSector) \in Nat /\ Start(SectorCount - 1) \in Nat
      BY <1>1, StartType
    <2> QED
      BY <1>1, <2>2, <2>3, <2>4 DEF End
  <1> QED
    BY <1>2, <1>3, <1>4, <1>5, <1>6

LEMMA NewLine ==
    ASSUME PagedCopies, SetMacAlone, IInv, LineInv, TypeOK',
           \/ \E c \in Contents : Load(c)
           \/ \E l \in Typed : UserLine(l)
           \/ do_http_upgrade
           \/ \E mac \in Macs : do_set_mac(mac)
           \/ PowerLoss
    PROVE  LineInv'
  <1>1. /\ next' = 1 /\ op' = Idle /\ before' = flash' /\ IsFunction'
    BY DEF Load, UserLine, do_http_upgrade, do_set_mac, Run, Finished, PowerLoss, LineInv, IsFunction
  <1>2. DoneSoFar'
    BY <1>1, BeginsLine
  <1>3. Len(SetMacLine) = 2
    BY DEF SetMacLine, EraseAndCopy
  <1>4. CASE line' = << >>
    <2>1. Len(line') = 0
      BY <1>4
    <2>2. OnPages' /\ BlockCopied'
      BY <1>3, <2>1 DEF OnPages, BlockCopied
    <2> QED
      BY <1>1, <1>2, <2>2 DEF LineInv
  <1>5. CASE \E l \in Typed : UserLine(l)
    <2>1. PICK l \in Typed : line' = l
      BY <1>5 DEF UserLine, Run
    <2>2. OnPages' /\ BlockCopied'
      BY <2>1 DEF PagedCopies, SetMacAlone, OnPages, BlockCopied
    <2> QED
      BY <1>1, <1>2, <2>2 DEF LineInv
  <1>6. CASE line' \in Upgrades \cup {SetMacLine}
    <2>1. PICK s \in Nat, n \in Nat : line' = Composed(s, n)
      BY <1>6, ComposedLines
    <2>2. OnPages'
      BY <2>1, ComposedAligned DEF OnPages
    <2>3. BlockCopied'
      <3>1. SUFFICES ASSUME line' = SetMacLine, NEW i \in Cells, i < SectorSize, i \notin MacCells
                     PROVE  ram'[i] = before'[Start(TplinkSector) + i]
        BY DEF BlockCopied
      <3>2. SetMacLine \notin Upgrades /\ SetMacLine \notin Typed /\ SetMacLine # << >>
        BY <1>3, UpgradesApart DEF SetMacAlone
      <3>3. PICK mac \in Macs : do_set_mac(mac)
        BY <3>1, <3>2 DEF Load, UserLine, do_http_upgrade, Run, PowerLoss
      <3> QED
        BY <3>1, <3>3 DEF do_set_mac, Run, WithMac
    <2> QED
      BY <1>1, <1>2, <2>2, <2>3 DEF LineInv
  <1> QED
    BY <1>4, <1>5, <1>6 DEF Load, do_http_upgrade, do_set_mac, Run, PowerLoss

LEMMA NextLine ==
    ASSUME PagedCopies, SetMacAlone
    PROVE  IInv /\ LineInv /\ [Next]_vars => LineInv'
  <1> SUFFICES ASSUME IInv, LineInv, [Next]_vars PROVE LineInv'
    OBVIOUS
  <1>1. IInv'
    BY NextIInv
  <1>2. CASE \/ EraseStarts \/ EraseRefused \/ EraseSector
             \/ CopyStarts \/ CopyRefused \/ WritePage
    <2>1. DoneSoFar'
      BY <1>2, RefusedLine, EraseLine, CopyLine
    <2> QED
      BY <1>2, <2>1, RunningKeeps DEF LineInv
  <1>3. CASE \/ (\E c \in Contents : Load(c)) \/ (\E l \in Typed : UserLine(l))
             \/ do_http_upgrade \/ (\E mac \in Macs : do_set_mac(mac)) \/ PowerLoss
    BY <1>1, <1>3, NewLine DEF IInv
  <1>4. CASE UNCHANGED vars
    <2>1. /\ \A i : MeantUpTo(i)' = MeantUpTo(i)
          /\ ErasedFirst' = ErasedFirst
      BY <1>4, MeantSame DEF vars
    <2>2. DoneSoFar'
      BY <1>4, <2>1 DEF vars, LineInv, DoneSoFar, AtRest, Erasing, Filling
    <2> QED
      BY <1>4, <2>2 DEF vars, LineInv, OnPages, IsFunction, BlockCopied
  <1> QED
    BY <1>2, <1>3, <1>4 DEF Next

LEMMA InitLine == Init => LineInv
  <1> SUFFICES ASSUME Init PROVE LineInv
    OBVIOUS
  <1>1. line = << >> /\ next = 1 /\ op = Idle /\ before = flash /\ IsFunction /\ Len(line) = 0
    BY DEF Init, IsFunction
  <1>2. OnPages
    BY <1>1 DEF OnPages
  <1>3. BlockCopied
    BY <1>1 DEF BlockCopied, SetMacLine, EraseAndCopy
  <1>4. DoneSoFar
    <2>1. MeantUpTo(0) = flash
      BY <1>1, InitIInv, MeantIs DEF IInv
    <2>2. op.kind = "idle"
      BY <1>1 DEF Idle
    <2>3. \A i \in 0..Len(line) : i = 0
      BY <1>1
    <2> QED
      BY <1>1, <2>1, <2>2, <2>3 DEF DoneSoFar, AtRest, Erasing, Filling
  <1> QED
    BY <1>1, <1>2, <1>3, <1>4 DEF LineInv

(* What the line of setmac means: its sector erased, then written.         *)
LEMMA SetMacMeans ==
    ASSUME TypeOK, line = SetMacLine
    PROVE  /\ Len(line) = 2 /\ ErasedFirst
           /\ \A a \in Cells :
                  MeantUpTo(2)[a] = IF Start(TplinkSector) <= a /\ a < Start(TplinkSector) + SectorSize
                                    THEN ram[a - Start(TplinkSector)] ELSE before[a]
  <1> DEFINE s == TplinkSector
             z == Start(s) + SectorSize - 1
  <1>1. /\ s \in Nat /\ s \in Sectors /\ SectorSize \in Nat \ {0} /\ Start(s) \in Nat
    BY SpiFlashAssumption, Sizes1, StartType DEF Sectors
  <1>2. /\ Len(line) = 2
        /\ line[1] = [cmd |-> "erase", form |-> "length", from |-> Start(s), to |-> SectorSize]
        /\ line[2] = [cmd |-> "cp", to |-> Start(s), length |-> SectorSize]
    BY DEF SetMacLine, EraseAndCopy
  <1>3. z \in Cells /\ SectorOf(z) = s /\ z = End(s)
    <2>1. End(s) <= End(SectorCount - 1) /\ SectorCount - 1 \in Sectors
      BY <1>1, Monotone, Sizes1 DEF Sectors
    <2>2. End(SectorCount - 1) = Size - 1
      BY Sizes1 DEF Size, Start, End
    <2>3. z = End(s) /\ z \in Nat
      BY <1>1 DEF End
    <2>4. z \in Cells
      BY <2>1, <2>2, <2>3, Sizes1 DEF Cells
    <2>5. Start(s) <= z
      BY <1>1
    <2> HIDE DEF z
    <2>6. z <= End(s)
      BY <2>3
    <2> QED
      BY <1>1, <2>3, <2>4, <2>5, <2>6, SectorOfIn
  <1>4. \A a \in Cells : SectorOf(a) <= s <=> a < Start(s) + SectorSize
    <2> SUFFICES ASSUME NEW a \in Cells PROVE SectorOf(a) <= s <=> a < Start(s) + SectorSize
      OBVIOUS
    <2>1. /\ a \in Nat /\ SectorOf(a) \in Sectors
          /\ Start(SectorOf(a)) <= a /\ a <= End(SectorOf(a))
      BY SectorBounds, Sizes1
    <2>2. Start(SectorOf(a)) \in Int /\ End(SectorOf(a)) \in Int /\ End(s) = Start(s) + SectorSize - 1
      BY <1>1, <2>1, Sizes1 DEF Sectors, Start, End
    <2>3. SectorOf(a) <= s => End(SectorOf(a)) <= End(s)
      BY <1>1, <2>1, Monotone
    <2>4. s < SectorOf(a) => End(s) < Start(SectorOf(a))
      BY <1>1, <2>1, Ordered
    <2>5. SectorOf(a) \in Int
      BY <2>1 DEF Sectors
    <2> QED
      BY <1>1, <2>1, <2>2, <2>3, <2>4, <2>5
  <1>5. \A i \in {1, 2} : Named(line[i]) = {a \in Cells : Start(s) <= a /\ a < Start(s) + SectorSize}
    <2>1. line[1].cmd = "erase" /\ line[1].form = "length" /\ line[1].from = Start(s) /\ line[1].to = SectorSize
      BY <1>2
    <2>2. line[2].cmd = "cp" /\ line[2].to = Start(s) /\ line[2].length = SectorSize
      BY <1>2
    <2>3. NamedByErase(line[1]) = {a \in Cells : Start(s) <= a /\ SectorOf(a) <= SectorOf(z)}
      BY <2>1 DEF NamedByErase
    <2>4. Named(line[1]) = {a \in Cells : Start(s) <= a /\ a < Start(s) + SectorSize}
      BY <1>3, <1>4, <2>1, <2>3 DEF Named
    <2>5. Named(line[2]) = {a \in Cells : Start(s) <= a /\ a < Start(s) + SectorSize}
      BY <2>2 DEF Named, NamedByCopy
    <2> QED
      BY <2>4, <2>5
  <1>6. /\ MeantUpTo(0) = before
        /\ MeantUpTo(1) = Meant(MeantUpTo(0), line[1])
        /\ MeantUpTo(2) = Meant(MeantUpTo(1), line[2])
    <2>1. /\ MeantUpTo(0) = before
          /\ \A i \in 1..Len(line) : MeantUpTo(i) = Meant(MeantUpTo(i - 1), line[i])
      BY MeantIs
    <2>2. /\ 1 \in 1..Len(line) /\ 2 \in 1..Len(line) /\ 1 - 1 = 0 /\ 2 - 1 = 1
      BY <1>2
    <2> QED
      BY <2>1, <2>2
  <1>7. line[1].cmd = "erase" /\ line[2].cmd = "cp" /\ line[2].to = Start(s)
    BY <1>2
  <1>8. \A a \in Cells : MeantUpTo(1)[a] = IF a \in Named(line[1]) THEN Erased ELSE before[a]
    BY <1>6, <1>7 DEF Meant
  <1>9. \A a \in Cells : MeantUpTo(2)[a] = IF a \in Named(line[2]) THEN ram[a - Start(s)]
                                          ELSE MeantUpTo(1)[a]
    BY <1>6, <1>7 DEF Meant
  <1>10. ErasedFirst
    <2>1. \A i \in 1..Len(line) : line[i].cmd = "cp" => i = 2 /\ i - 1 = 1
      <3>1. \A i \in 1..Len(line) : i = 1 \/ i = 2
        BY <1>2
      <3> QED
        BY <1>7, <3>1
    <2>2. \A a \in Named(line[2]) : MeantUpTo(1)[a] = Erased
      BY <1>5, <1>8
    <2> QED
      BY <2>1, <2>2 DEF ErasedFirst
  <1> QED
    BY <1>2, <1>5, <1>8, <1>9, <1>10

LEMMA LineInvExact ==
    ASSUME IInv, LineInv
    PROVE  LineExact
  <1> SUFFICES ASSUME Finished, rc = "ok"
               PROVE  /\ ErasedFirst => flash = MeantUpTo(Len(line))
                      /\ line = SetMacLine =>
                             \A a \in Cells : \/ a \in {Start(TplinkSector) + i : i \in MacCells}
                                              \/ flash[a] = before[a]
    BY DEF LineExact
  <1>1. ErasedFirst => flash = MeantUpTo(Len(line))
    <2>1. Len(line) \in Nat /\ next = Len(line) + 1 /\ op = Idle
      BY DEF IInv, TypeOK, Finished
    <2>2. Len(line) \in 0..Len(line)
      BY <2>1
    <2> QED
      BY <2>1, <2>2 DEF LineInv, DoneSoFar, AtRest
  <1>2. ASSUME line = SetMacLine, NEW a \in Cells, a \notin {Start(TplinkSector) + i : i \in MacCells}
        PROVE  flash[a] = before[a]
    <2>1. /\ Len(line) = 2 /\ ErasedFirst
          /\ MeantUpTo(2)[a] = IF Start(TplinkSector) <= a /\ a < Start(TplinkSector) + SectorSize
                               THEN ram[a - Start(TplinkSector)] ELSE before[a]
      BY <1>2, SetMacMeans DEF IInv
    <2>2. flash[a] = MeantUpTo(2)[a]
      BY <1>1, <2>1
    <2>3. CASE Start(TplinkSector) <= a /\ a < Start(TplinkSector) + SectorSize
      <3> DEFINE i == a - Start(TplinkSector)
      <3>1. /\ Start(TplinkSector) \in Nat /\ a \in Nat
            /\ Size \in Nat /\ a <= Size - 1 /\ SectorSize \in Nat
        BY SpiFlashAssumption, StartType, Sizes1 DEF Cells
      <3>2. i \in 0..(Size - 1) /\ i < SectorSize /\ a = Start(TplinkSector) + i
        BY <2>3, <3>1
      <3> HIDE DEF i
      <3>3. i \in Cells /\ i \notin MacCells
        BY <1>2, <3>2 DEF Cells
      <3>4. ram[i] = before[a]
        BY <1>2, <3>2, <3>3 DEF LineInv, BlockCopied
      <3> QED
        BY <2>1, <2>2, <2>3, <3>4 DEF i
    <2>4. CASE ~(Start(TplinkSector) <= a /\ a < Start(TplinkSector) + SectorSize)
      BY <2>1, <2>2, <2>4
    <2> QED
      BY <2>3, <2>4
  <1> QED
    BY <1>1, <1>2

(* A line that reports no error has done what its commands say, for every  *)
(* geometry, upload and line typed, when the copies that are typed start   *)
(* on a page; and setmac changes the address and nothing else.             *)
THEOREM LineSafe ==
    ASSUME PagedCopies, SetMacAlone
    PROVE  Spec => []LineExact
  <1>1. IInv /\ LineInv /\ [Next]_vars => LineInv'
    BY NextLine
  <1>2. IInv /\ LineInv => LineExact
    BY LineInvExact
  <1> QED
    BY <1>1, <1>2, InitLine, Invariance, PTL DEF Spec

-----------------------------------------------------------------------------
(* Iterated steps, the powers of 2 and the bits of numbers.                *)

(* f runs through the steps of F, in D from r on.                          *)
Iterates(f, F, n, D, r) == f \in [0 .. n -> D] /\ f[0] = r /\ \A k \in 1 .. n : f[k] = F[k][f[k - 1]]

(* Steps that stay in D can be run one after the other.                    *)
LEMMA Iteration ==
    ASSUME NEW n \in Nat, NEW D, NEW r \in D, NEW F \in [1 .. n -> [D -> D]]
    PROVE  \E f : Iterates(f, F, n, D, r)
  <1> DEFINE Upto(m) == {f \in [0 .. m -> D] : f[0] = r /\ \A k \in 1 .. m : f[k] = F[k][f[k - 1]]}
             S == {m \in Nat : m <= n => Upto(m) # {}}
  <1>1. 0 \in S
    <2> DEFINE f == [k \in 0 .. 0 |-> r]
    <2>1. f \in [0 .. 0 -> D] /\ f[0] = r /\ 1 .. 0 = {}
      OBVIOUS
    <2> QED
      BY <2>1
  <1>2. ASSUME NEW m \in Nat, m \in S PROVE m + 1 \in S
    <2> SUFFICES ASSUME m + 1 <= n PROVE Upto(m + 1) # {}
      OBVIOUS
    <2>1. PICK f \in [0 .. m -> D] : f[0] = r /\ \A k \in 1 .. m : f[k] = F[k][f[k - 1]]
      BY <1>2
    <2> DEFINE g == [k \in 0 .. m + 1 |-> IF k = m + 1 THEN F[m + 1][f[m]] ELSE f[k]]
    <2>2. m + 1 \in 1 .. n /\ m \in 0 .. m /\ f[m] \in D /\ F[m + 1] \in [D -> D] /\ F[m + 1][f[m]] \in D
      BY <2>1
    <2>3. g \in [0 .. m + 1 -> D]
      BY <2>1, <2>2
    <2>4. g[m + 1] = F[m + 1][f[m]] /\ \A k \in 0 .. m : g[k] = f[k]
      OBVIOUS
    <2> HIDE DEF g
    <2>5. g[0] = r
      BY <2>1, <2>4
    <2>6. ASSUME NEW k \in 1 .. m + 1 PROVE g[k] = F[k][g[k - 1]]
      <3>1. CASE k = m + 1
        <4>1. k - 1 = m /\ g[m] = f[m]
          BY <2>4, <3>1
        <4> QED
          BY <2>4, <3>1, <4>1
      <3>2. CASE k # m + 1
        <4>1. k \in 1 .. m /\ k \in 0 .. m /\ k - 1 \in 0 .. m
          BY <3>2
        <4> QED
          BY <2>1, <2>4, <4>1
      <3> QED
        BY <3>1, <3>2
    <2>7. g \in Upto(m + 1)
      BY <2>3, <2>5, <2>6
    <2> QED
      BY <2>7
  <1> HIDE DEF S
  <1>3. n \in S
    BY <1>1, <1>2, SetInduction
  <1> QED
    BY <1>3 DEF S, Iterates

(* What holds at the start of an iteration and is kept holds at its end.   *)
LEMMA Along ==
    ASSUME NEW n \in Nat, NEW f, NEW S, f[0] \in S[0], \A k \in 1 .. n : f[k - 1] \in S[k - 1] => f[k] \in S[k]
    PROVE  f[n] \in S[n]
  <1> DEFINE T == {m \in Nat : m <= n => f[m] \in S[m]}
  <1>1. 0 \in T
    OBVIOUS
  <1>2. ASSUME NEW m \in Nat, m \in T PROVE m + 1 \in T
    <2> SUFFICES ASSUME m + 1 <= n PROVE f[m + 1] \in S[m + 1]
      OBVIOUS
    <2>1. m + 1 \in 1 .. n /\ (m + 1) - 1 = m /\ f[m] \in S[m]
      BY <1>2
    <2> QED
      BY <2>1
  <1> HIDE DEF T
  <1>3. n \in T
    BY <1>1, <1>2, SetInduction
  <1> QED
    BY <1>3 DEF T

-----------------------------------------------------------------------------
(* Powers of 2 and bits.                                                   *)

(* TwoTo is defined by its recursion.                                      *)
LEMMA Powers ==
    /\ TwoTo[0] = 1 /\ \A n \in 1 .. DataLines : TwoTo[n] = 2 * TwoTo[n - 1]
    /\ \A n \in 0 .. DataLines : TwoTo[n] \in Nat \ {0}
  <1> DEFINE Body(f) == [n \in 0 .. DataLines |-> IF n = 0 THEN 1 ELSE 2 * f[n - 1]]
             F == [k \in 1 .. DataLines |-> [x \in Nat |-> 2 * x]]
  <1>0. DataLines \in Nat
    BY MemTestAssumption
  <1>1. \E f : f = Body(f)
    <2>1. F \in [1 .. DataLines -> [Nat -> Nat]] /\ 1 \in Nat
      OBVIOUS
    <2> HIDE DEF F
    <2>2. PICK f : Iterates(f, F, DataLines, Nat, 1)
      BY <1>0, <2>1, Iteration
    <2>20. f \in [0 .. DataLines -> Nat] /\ f[0] = 1 /\ \A k \in 1 .. DataLines : f[k] = F[k][f[k - 1]]
      BY <2>2 DEF Iterates
    <2>3. \A n \in 0 .. DataLines : f[n] = IF n = 0 THEN 1 ELSE 2 * f[n - 1]
      <3> SUFFICES ASSUME NEW n \in 0 .. DataLines, n # 0 PROVE f[n] = 2 * f[n - 1]
        BY <2>20
      <3>1. n \in 1 .. DataLines /\ n - 1 \in 0 .. DataLines
        BY <1>0
      <3>2. f[n - 1] \in Nat
        BY <2>20, <3>1
      <3> QED
        BY <2>20, <3>1, <3>2 DEF F
    <2>4. f = [n \in 0 .. DataLines |-> f[n]]
      BY <2>20
    <2>5. f = Body(f)
      BY <2>3, <2>4
    <2> QED
      BY <2>5
  <1>2. TwoTo = CHOOSE f : f = Body(f)
    BY DEF TwoTo
  <1>3. TwoTo = Body(TwoTo)
    BY <1>1, <1>2
  <1>4. \A n \in 0 .. DataLines : TwoTo[n] = IF n = 0 THEN 1 ELSE 2 * TwoTo[n - 1]
    BY <1>3
  <1>5. TwoTo[0] = 1 /\ \A n \in 1 .. DataLines : TwoTo[n] = 2 * TwoTo[n - 1]
    BY <1>0, <1>4
  <1> DEFINE S == {n \in Nat : n <= DataLines => TwoTo[n] \in Nat \ {0}}
  <1>6. 0 \in S
    BY <1>5
  <1>7. ASSUME NEW n \in Nat, n \in S PROVE n + 1 \in S
    <2> SUFFICES ASSUME n + 1 <= DataLines PROVE TwoTo[n + 1] \in Nat \ {0}
      OBVIOUS
    <2>1. n + 1 \in 1 .. DataLines /\ (n + 1) - 1 = n /\ TwoTo[n] \in Nat \ {0}
      BY <1>0, <1>7
    <2>2. TwoTo[n + 1] = 2 * TwoTo[n]
      BY <1>5, <2>1
    <2> QED
      BY <2>1, <2>2
  <1> HIDE DEF S
  <1>8. Nat \subseteq S
    BY <1>6, <1>7, SetInduction
  <1>9. \A n \in 0 .. DataLines : TwoTo[n] \in Nat \ {0}
    BY <1>0, <1>8 DEF S
  <1> QED
    BY <1>5, <1>9

(* A smaller power divides a larger one.                                   *)
LEMMA PowerDivides ==
    ASSUME NEW b \in Nat, NEW n \in Nat, b <= n, n <= DataLines
    PROVE  \E q \in Nat \ {0} : TwoTo[n] = TwoTo[b] * q
  <1> DEFINE S == {d \in Nat : b + d <= DataLines => \E q \in Nat \ {0} : TwoTo[b + d] = TwoTo[b] * q}
  <1>0. DataLines \in Nat /\ TwoTo[b] \in Nat
    BY MemTestAssumption, Powers
  <1>1. 0 \in S
    <2>1. b + 0 = b /\ TwoTo[b] = TwoTo[b] * 1 /\ 1 \in Nat \ {0}
      BY <1>0
    <2> QED
      BY <2>1
  <1>2. ASSUME NEW d \in Nat, d \in S PROVE d + 1 \in S
    <2> SUFFICES ASSUME b + (d + 1) <= DataLines PROVE \E q \in Nat \ {0} : TwoTo[b + (d + 1)] = TwoTo[b] * q
      OBVIOUS
    <2>1. PICK q \in Nat \ {0} : TwoTo[b + d] = TwoTo[b] * q
      BY <1>0, <1>2
    <2>2. b + (d + 1) \in 1 .. DataLines /\ (b + (d + 1)) - 1 = b + d
      BY <1>0
    <2>3. TwoTo[b + (d + 1)] = 2 * (TwoTo[b] * q)
      BY <2>1, <2>2, Powers
    <2>4. 2 * (TwoTo[b] * q) = TwoTo[b] * (2 * q) /\ 2 * q \in Nat \ {0}
      BY <1>0
    <2> QED
      BY <2>3, <2>4
  <1> HIDE DEF S
  <1>3. n - b \in S
    BY <1>1, <1>2, SetInduction
  <1>4. b + (n - b) = n
    OBVIOUS
  <1> QED
    BY <1>3, <1>4 DEF S

(* Quotient and remainder, and that nothing else has their bounds.         *)
LEMMA DivMod ==
    ASSUME NEW x \in Nat, NEW d \in Nat \ {0}
    PROVE  /\ x \div d \in Nat /\ x % d \in 0 .. d - 1 /\ x = d * (x \div d) + (x % d)
           /\ \A q \in Nat, r \in 0 .. d - 1 : x = d * q + r => q = x \div d /\ r = x % d
  OBVIOUS

(* An even multiple: the number of words above a bit.                      *)
LEMMA BitRange ==
    ASSUME NEW n \in 1 .. DataLines, NEW b \in 0 .. n - 1
    PROVE  \E q \in Nat \ {0} : TwoTo[n] = TwoTo[b] * (2 * q)
  <1>0. DataLines \in Nat
    BY MemTestAssumption
  <1>1. n - 1 \in Nat /\ b \in Nat /\ b <= n - 1 /\ n - 1 <= DataLines
    BY <1>0
  <1>2. PICK q \in Nat \ {0} : TwoTo[n - 1] = TwoTo[b] * q
    BY <1>1, PowerDivides
  <1>3. TwoTo[n] = 2 * (TwoTo[b] * q) /\ TwoTo[b] \in Nat
    BY <1>0, <1>1, <1>2, Powers
  <1>4. 2 * (TwoTo[b] * q) = TwoTo[b] * (2 * q)
    BY <1>3
  <1> QED
    BY <1>3, <1>4

(* Bit b of a number is v when the number is put together this way.        *)
MadeOf(x, b, h, v, r) ==
    /\ h \in Nat /\ v \in {0, 1} /\ r \in 0 .. TwoTo[b] - 1
    /\ x = TwoTo[b] * (2 * h + v) + r

(* A number put together this way has that bit.                            *)
LEMMA BitIs ==
    ASSUME NEW x, NEW b \in 0 .. DataLines, NEW h, NEW v, NEW r, MadeOf(x, b, h, v, r)
    PROVE  x \in Nat /\ BitOf(x, b) = v
  <1> DEFINE P == TwoTo[b]
  <1>1. P \in Nat \ {0} /\ h \in Nat /\ v \in {0, 1} /\ r \in 0 .. P - 1 /\ x = P * (2 * h + v) + r
    BY Powers DEF MadeOf
  <1> HIDE DEF P
  <1>2. 2 * h + v \in Nat /\ P * (2 * h + v) \in Nat
    BY <1>1
  <1>3. x \in Nat
    BY <1>1, <1>2
  <1>4. 2 * h + v = x \div P
    <2> DEFINE y == 2 * h + v
    <2>1. y \in Nat /\ x = P * y + r /\ r \in 0 .. P - 1 /\ P \in Nat \ {0}
      BY <1>1, <1>2
    <2> HIDE DEF y
    <2>2. y = x \div P
      BY <1>3, <2>1, DivMod
    <2> QED
      BY <2>2 DEF y
  <1>5. (2 * h + v) % 2 = v
    BY <1>1
  <1> QED
    BY <1>3, <1>4, <1>5 DEF BitOf, P

(* Every number is put together this way.                                  *)
LEMMA BitSplit ==
    ASSUME NEW x \in Nat, NEW b \in 0 .. DataLines
    PROVE  BitOf(x, b) \in {0, 1} /\ \E h, r : MadeOf(x, b, h, BitOf(x, b), r)
  <1> DEFINE P == TwoTo[b]
             y == x \div P
  <1>1. P \in Nat \ {0}
    BY Powers
  <1> HIDE DEF P
  <1>2. y \in Nat /\ x % P \in 0 .. P - 1 /\ x = P * y + (x % P)
    BY <1>1, DivMod
  <1> HIDE DEF y
  <1>3. y \div 2 \in Nat /\ y % 2 \in {0, 1} /\ y = 2 * (y \div 2) + (y % 2)
    BY <1>2
  <1>4. BitOf(x, b) = y % 2
    BY DEF BitOf, y, P
  <1>5. MadeOf(x, b, y \div 2, BitOf(x, b), x % P)
    BY <1>2, <1>3, <1>4 DEF MadeOf, P
  <1> QED
    BY <1>3, <1>4, <1>5

(* A number and its inverse differ in every bit.                           *)
LEMMA InverseBit ==
    ASSUME NEW n \in 1 .. DataLines, NEW b \in 0 .. n - 1, NEW x \in 0 .. TwoTo[n] - 1
    PROVE  TwoTo[n] - 1 - x \in 0 .. TwoTo[n] - 1 /\ BitOf(TwoTo[n] - 1 - x, b) = 1 - BitOf(x, b)
  <1> DEFINE P == TwoTo[b]
             v == BitOf(x, b)
  <1>0. DataLines \in Nat /\ b \in 0 .. DataLines
    BY MemTestAssumption
  <1>1. P \in Nat \ {0} /\ TwoTo[n] \in Nat \ {0} /\ x \in Nat
    BY <1>0, Powers
  <1>2. PICK q \in Nat \ {0} : TwoTo[n] = P * (2 * q)
    BY BitRange
  <1>3. PICK h, r : MadeOf(x, b, h, v, r)
    BY <1>0, <1>1, BitSplit
  <1>4. h \in Nat /\ v \in {0, 1} /\ r \in 0 .. P - 1 /\ x = P * (2 * h + v) + r
    BY <1>3 DEF MadeOf
  <1> HIDE DEF P, v
  <1>5. h < q
    <2>1. P * (2 * h + v) < P * (2 * q)
      BY <1>1, <1>2, <1>4
    <2> SUFFICES ASSUME h >= q PROVE FALSE
      BY <1>2, <1>4
    <2>2. PICK d \in Nat : 2 * h + v = 2 * q + d
      <3>1. 2 * h + v - 2 * q \in Nat
        BY <1>2, <1>4
      <3> QED
        BY <3>1, <1>2, <1>4
    <2>3. P * (2 * h + v) = P * (2 * q) + P * d /\ P * d \in Nat
      BY <2>2, <1>1, <1>2
    <2> QED
      BY <2>1, <2>3, <1>1, <1>2
  <1>6. P * (2 * q) - 1 - (P * (2 * h + v) + r) = P * (2 * (q - h - 1) + (1 - v)) + (P - 1 - r)
    <2> DEFINE g == q - h - 1
    <2>1. g \in Nat /\ q = g + h + 1
      BY <1>2, <1>4, <1>5
    <2> HIDE DEF g
    <2>2. P * (2 * q) = P * (2 * g) + P * (2 * h) + 2 * P
      BY <2>1, <1>1, <1>4
    <2>3. P * (2 * h + v) = P * (2 * h) + P * v
      BY <1>1, <1>4
    <2>4. P * (2 * g + (1 - v)) = P * (2 * g) + P - P * v
      BY <2>1, <1>1, <1>4
    <2>5. P * (2 * g) \in Int /\ P * (2 * h) \in Int /\ P * v \in Int
      BY <2>1, <1>1, <1>4
    <2>6. P * (2 * q) - 1 - (P * (2 * h + v) + r) = P * (2 * g + (1 - v)) + (P - 1 - r)
      BY <2>2, <2>3, <2>4, <2>5, <1>1, <1>4
    <2> QED
      BY <2>6 DEF g
  <1>7. MadeOf(TwoTo[n] - 1 - x, b, q - h - 1, 1 - v, P - 1 - r)
    BY <1>1, <1>2, <1>4, <1>5, <1>6 DEF MadeOf, P
  <1>8. BitOf(TwoTo[n] - 1 - x, b) = 1 - v
    BY <1>0, <1>7, BitIs
  <1> QED
    BY <1>1, <1>8 DEF v

(* A bit that is given a value.                                            *)
LEMMA GivenBit ==
    ASSUME NEW n \in 1 .. DataLines, NEW b \in 0 .. n - 1, NEW x \in 0 .. TwoTo[n] - 1, NEW w \in {0, 1}
    PROVE  /\ WithBit(x, b, w) \in 0 .. TwoTo[n] - 1
           /\ WithBit(x, b, w) = x <=> BitOf(x, b) = w
  <1> DEFINE P == TwoTo[b]
             v == BitOf(x, b)
  <1>0. DataLines \in Nat /\ b \in 0 .. DataLines
    BY MemTestAssumption
  <1>1. P \in Nat \ {0} /\ TwoTo[n] \in Nat \ {0} /\ x \in Nat
    BY <1>0, Powers
  <1>2. PICK q \in Nat \ {0} : TwoTo[n] = P * (2 * q)
    BY BitRange
  <1>3. PICK h, r : MadeOf(x, b, h, v, r)
    BY <1>0, <1>1, BitSplit
  <1>4. h \in Nat /\ v \in {0, 1} /\ r \in 0 .. P - 1 /\ x = P * (2 * h + v) + r
    BY <1>3 DEF MadeOf
  <1>5. WithBit(x, b, w) = x + (w - v) * P
    BY DEF WithBit
  <1> HIDE DEF P, v
  <1>6. CASE w = v
    BY <1>1, <1>4, <1>5, <1>6 DEF v
  <1>7. CASE w = 0 /\ v = 1
    <2>1. x = P * (2 * h) + P + r /\ P * (2 * h) \in Nat
      BY <1>1, <1>4, <1>7
    <2>2. (w - v) * P = 0 - P
      BY <1>1, <1>7
    <2> QED
      BY <1>1, <1>4, <1>5, <1>7, <2>1, <2>2 DEF v
  <1>8. CASE w = 1 /\ v = 0
    <2>1. h + 1 <= q
      <3> SUFFICES ASSUME h >= q PROVE FALSE
        BY <1>2, <1>4
      <3>1. PICK d \in Nat : h = q + d
        <4>1. h - q \in Nat /\ h = q + (h - q)
          BY <1>2, <1>4
        <4> QED
          BY <4>1
      <3>2. P * (2 * h) = P * (2 * q) + P * (2 * d) /\ P * (2 * d) \in Nat
        BY <1>1, <1>2, <3>1
      <3>3. x >= P * (2 * h)
        BY <1>1, <1>4, <1>8
      <3> QED
        BY <1>1, <1>2, <3>2, <3>3
    <2>2. PICK d \in Nat : q = h + 1 + d
      <3>1. q - h - 1 \in Nat /\ q = h + 1 + (q - h - 1)
        BY <1>2, <1>4, <2>1
      <3> QED
        BY <3>1
    <2>3. P * (2 * q) = P * (2 * h) + 2 * P + P * (2 * d) /\ P * (2 * d) \in Nat /\ P * (2 * h) \in Nat
      BY <1>1, <1>4, <2>2
    <2>4. x = P * (2 * h) + r /\ (w - v) * P = P
      BY <1>1, <1>4, <1>8
    <2> QED
      BY <1>1, <1>2, <1>4, <1>5, <1>8, <2>3, <2>4 DEF v
  <1> QED
    BY <1>4, <1>6, <1>7, <1>8

(* The highest bit tells the halves apart, and a set bit is within its     *)
(* number.                                                                 *)
LEMMA HighestBit ==
    ASSUME NEW n \in 1 .. DataLines, NEW x \in 0 .. TwoTo[n] - 1
    PROVE  BitOf(x, n - 1) = IF x >= TwoTo[n - 1] THEN 1 ELSE 0
  <1> DEFINE P == TwoTo[n - 1]
  <1>0. DataLines \in Nat /\ n - 1 \in 0 .. DataLines
    BY MemTestAssumption
  <1>1. P \in Nat \ {0} /\ TwoTo[n] = 2 * P /\ x \in Nat
    BY <1>0, Powers
  <1> HIDE DEF P
  <1>2. CASE x >= P
    <2>1. MadeOf(x, n - 1, 0, 1, x - P)
      BY <1>1, <1>2 DEF MadeOf, P
    <2> QED
      BY <1>0, <1>2, <2>1, BitIs DEF P
  <1>3. CASE x < P
    <2>1. MadeOf(x, n - 1, 0, 0, x)
      BY <1>1, <1>3 DEF MadeOf, P
    <2> QED
      BY <1>0, <1>1, <1>3, <2>1, BitIs DEF P
  <1> QED
    BY <1>1, <1>2, <1>3

(* What is below a power of 2 does not have its bit.                       *)
LEMMA LowBits ==
    ASSUME NEW b \in 0 .. DataLines, NEW x \in Nat
    PROVE  /\ x < TwoTo[b] => BitOf(x, b) = 0
           /\ BitOf(x, b) = 1 => x >= TwoTo[b]
  <1>1. TwoTo[b] \in Nat \ {0}
    BY Powers
  <1>2. ASSUME x < TwoTo[b] PROVE BitOf(x, b) = 0
    <2>1. MadeOf(x, b, 0, 0, x)
      BY <1>1, <1>2 DEF MadeOf
    <2> QED
      BY <2>1, BitIs
  <1> QED
    BY <1>1, <1>2

(* A higher power is at least twice a lower one.                           *)
LEMMA PowersGrow ==
    ASSUME NEW n \in 1 .. DataLines, NEW b \in 0 .. n - 1
    PROVE  2 * TwoTo[b] <= TwoTo[n]
  <1>0. DataLines \in Nat /\ b \in 0 .. DataLines /\ TwoTo[b] \in Nat \ {0}
    BY MemTestAssumption, Powers
  <1>1. PICK q \in Nat \ {0} : TwoTo[n] = TwoTo[b] * (2 * q)
    BY BitRange
  <1>2. PICK d \in Nat : q = d + 1
    <2>1. q - 1 \in Nat /\ q = (q - 1) + 1
      OBVIOUS
    <2> QED
      BY <2>1
  <1>3. TwoTo[b] * (2 * q) = 2 * TwoTo[b] + TwoTo[b] * (2 * d) /\ TwoTo[b] * (2 * d) \in Nat
    BY <1>0, <1>2
  <1> QED
    BY <1>0, <1>1, <1>3

-----------------------------------------------------------------------------
(* The memory under test.                                                  *)

(* The constants of mtest, and what does not change while it runs.         *)
LEMMA Widths ==
    /\ AddressLines \in 1 .. DataLines - 1 /\ DataLines \in Nat /\ DataLines >= 2
    /\ TwoTo[AddressLines] \in Nat \ {0, 1} /\ TwoTo[DataLines] \in Nat \ {0, 1}
    /\ 2 * TwoTo[AddressLines] <= TwoTo[DataLines]
    /\ TwoTo[DataLines] = 2 * TwoTo[DataLines - 1] /\ TwoTo[DataLines - 1] \in Nat \ {0}
  <1>1. AddressLines \in Nat \ {0} /\ DataLines \in Nat /\ DataLines > AddressLines
    BY MemTestAssumption
  <1>2. AddressLines \in 1 .. DataLines - 1 /\ DataLines \in 1 .. DataLines /\ AddressLines \in 0 .. DataLines - 1
    BY <1>1
  <1>3. 2 * TwoTo[AddressLines] <= TwoTo[DataLines]
    BY <1>2, PowersGrow
  <1>4. AddressLines \in 1 .. DataLines /\ 0 \in 0 .. AddressLines - 1
    BY <1>1
  <1>5. 2 * TwoTo[0] <= TwoTo[AddressLines]
    BY <1>4, PowersGrow
  <1>6. TwoTo[0] = 1 /\ TwoTo[AddressLines] \in Nat \ {0} /\ TwoTo[DataLines] \in Nat \ {0}
        /\ TwoTo[DataLines] = 2 * TwoTo[DataLines - 1] /\ TwoTo[DataLines - 1] \in Nat \ {0}
    BY <1>1, <1>2, Powers
  <1> QED
    BY <1>1, <1>2, <1>3, <1>5, <1>6

(* What does not change while mtest runs.                                  *)
Tested == fault \in Faults /\ region \in TestRegions

(* The region lies in memory.                                              *)
LEMMA RegionIs ==
    ASSUME Tested
    PROVE  /\ region.words \in Nat \ {0} /\ region.base \in Nat
           /\ region.words <= TwoTo[AddressLines]
           /\ \A i \in 1 .. region.words : region.base + i - 1 \in WordAddresses
           /\ RegionCells = {region.base + i - 1 : i \in 1 .. region.words}
  <1>1. region.words \in Nat \ {0} /\ region.base \in Nat /\ region.base + region.words <= TwoTo[AddressLines]
    BY MemTestAssumption DEF Tested
  <1>2. \A i \in 1 .. region.words : region.base + i - 1 \in WordAddresses
    BY <1>1, Widths DEF WordAddresses
  <1>3. \A c : c \in RegionCells => c - region.base + 1 \in 1 .. region.words /\ c = region.base + (c - region.base + 1) - 1
    BY <1>1 DEF RegionCells
  <1>4. \A i \in 1 .. region.words : region.base + i - 1 \in RegionCells
    BY <1>1 DEF RegionCells
  <1> QED
    BY <1>1, <1>2, <1>3, <1>4, Widths

(* The faults by their kinds.                                              *)
LEMMA FaultKinds ==
    ASSUME Tested
    PROVE  /\ fault.kind \in {"none", "address", "shorted", "data", "cell"}
           /\ fault.kind = "address" => fault.line \in 0 .. AddressLines - 1 /\ fault.level \in {0, 1}
           /\ fault.kind = "shorted" =>
                  /\ fault.line \in 0 .. AddressLines - 1 /\ fault.other \in 0 .. AddressLines - 1
                  /\ fault.level \in {0, 1}
           /\ fault.kind \in {"data", "cell"} => fault.line \in 0 .. DataLines - 1 /\ fault.level \in {0, 1}
           /\ fault.kind = "cell" => fault.other \in WordAddresses
  BY DEF Tested, Faults, NoFault, Stuck, Shorted

(* An access reaches a cell, and the cell holds a value.                   *)
LEMMA CellsReached ==
    ASSUME Tested, NEW a \in WordAddresses
    PROVE  Selected(a) \in WordAddresses /\ (fault.kind \in {"none", "data", "cell"} => Selected(a) = a)
  <1> DEFINE n == AddressLines
  <1>1. n \in 1 .. DataLines /\ WordAddresses = 0 .. TwoTo[n] - 1
    BY Widths DEF WordAddresses
  <1>2. ASSUME NEW x \in WordAddresses, NEW b \in 0 .. n - 1, NEW w \in {0, 1} PROVE WithBit(x, b, w) \in WordAddresses
    BY <1>1, <1>2, GivenBit
  <1>3. CASE fault.kind = "address"
    BY <1>2, <1>3, FaultKinds DEF Selected
  <1>4. CASE fault.kind = "shorted"
    <2>1. /\ fault.line \in 0 .. n - 1 /\ fault.other \in 0 .. n - 1 /\ fault.level \in {0, 1}
      BY <1>4, FaultKinds
    <2>2. WithBit(a, fault.line, fault.level) \in WordAddresses
      BY <1>2, <2>1
    <2>3. WithBit(WithBit(a, fault.line, fault.level), fault.other, fault.level) \in WordAddresses
      BY <1>2, <2>1, <2>2
    <2> QED
      BY <1>4, <2>3 DEF Selected
  <1>5. CASE fault.kind \in {"none", "data", "cell"}
    BY <1>5 DEF Selected
  <1> QED
    BY <1>3, <1>4, <1>5, FaultKinds

(* A cell holds a value, the one stored unless a bit is stuck.             *)
LEMMA ValuesHeld ==
    ASSUME Tested, NEW c \in WordAddresses, NEW v \in Values
    PROVE  /\ Held(c, v) \in Values
           /\ fault.kind \in {"none", "address", "shorted"} => Held(c, v) = v
           /\ fault.kind = "data" \/ (fault.kind = "cell" /\ c = fault.other) =>
                  (Held(c, v) = v <=> BitOf(v, fault.line) = fault.level)
           /\ fault.kind = "cell" /\ c # fault.other => Held(c, v) = v
  <1>1. DataLines \in 1 .. DataLines /\ Values = 0 .. TwoTo[DataLines] - 1
    BY Widths DEF Values
  <1>2. ASSUME NEW b \in 0 .. DataLines - 1, NEW w \in {0, 1}
        PROVE  WithBit(v, b, w) \in Values /\ (WithBit(v, b, w) = v <=> BitOf(v, b) = w)
    <2> DEFINE n == DataLines
    <2>1. n \in 1 .. DataLines /\ b \in 0 .. n - 1 /\ v \in 0 .. TwoTo[n] - 1 /\ w \in {0, 1}
      BY <1>1, <1>2
    <2> HIDE DEF n
    <2>2. WithBit(v, b, w) \in 0 .. TwoTo[n] - 1 /\ (WithBit(v, b, w) = v <=> BitOf(v, b) = w)
      BY <2>1, GivenBit
    <2> QED
      BY <1>1, <2>2 DEF n
  <1>3. CASE fault.kind \in {"data", "cell"}
    BY <1>2, <1>3, FaultKinds DEF Held
  <1>4. CASE fault.kind \in {"none", "address", "shorted"}
    BY <1>4 DEF Held
  <1> QED
    BY <1>3, <1>4, FaultKinds

(* Remainders and inverses are values.                                     *)
LEMMA ValuesAre ==
    /\ \A x \in Int : x % TwoTo[DataLines] \in Values
    /\ \A x \in Values : x % TwoTo[DataLines] = x /\ x \in Nat
    /\ \A x \in Int : Inverted(x) \in Values
    /\ \A x \in Values, b \in 0 .. DataLines - 1 : Inverted(x) \in Values /\ BitOf(Inverted(x), b) = 1 - BitOf(x, b)
    /\ \A x \in Values, b \in 0 .. DataLines - 1 : BitOf(x, b) \in {0, 1}
  <1> DEFINE M == TwoTo[DataLines]
  <1>1. M \in Nat \ {0} /\ DataLines \in 1 .. DataLines /\ DataLines \in Nat
    BY Widths
  <1>2. \A x \in 0 .. M - 1, b \in 0 .. DataLines - 1 : BitOf(M - 1 - x, b) = 1 - BitOf(x, b)
    BY <1>1, InverseBit
  <1>3. \A x \in 0 .. M - 1, b \in 0 .. DataLines - 1 : BitOf(x, b) \in {0, 1}
    <2> TAKE x \in 0 .. M - 1, b \in 0 .. DataLines - 1
    <2>1. x \in Nat /\ b \in 0 .. DataLines
      BY <1>1
    <2> QED
      BY <2>1, BitSplit
  <1> HIDE DEF M
  <1>4. \A x \in Int : x % M \in 0 .. M - 1
    BY <1>1
  <1>5. \A x \in 0 .. M - 1 : x % M = x /\ x \in Nat
    BY <1>1
  <1>6. \A x \in Int : M - 1 - (x % M) \in 0 .. M - 1
    BY <1>1, <1>4
  <1> QED
    BY <1>2, <1>3, <1>4, <1>5, <1>6 DEF M, Values, Inverted

-----------------------------------------------------------------------------
(* Accesses and scripts of them.                                           *)

(* The runs, the accesses, and the cell that an access reaches.            *)
Runs == [words : [WordAddresses -> Values], failures : BOOLEAN, ended : BOOLEAN]
Accesses ==
    [offset : 0 .. region.words - 1, check : BOOLEAN, expect : Values, last : BOOLEAN, store : BOOLEAN, value : Values]
Cell(acc) == Selected(region.base + acc.offset)
Passes(run, acc) == acc.check => run.words[Cell(acc)] = acc.expect

(* It is a cell.                                                           *)
LEMMA CellIs ==
    ASSUME Tested, NEW acc \in Accesses PROVE Cell(acc) \in WordAddresses
  <1>1. acc.offset \in 0 .. region.words - 1
    BY DEF Accesses
  <1>2. acc.offset + 1 \in 1 .. region.words /\ region.base + (acc.offset + 1) - 1 = region.base + acc.offset
    BY <1>1, RegionIs
  <1>3. region.base + acc.offset \in WordAddresses
    BY <1>2, RegionIs
  <1> QED
    BY <1>3, CellsReached DEF Cell

(* One access: what it leaves of the run.                                  *)
LEMMA AccessIs ==
    ASSUME Tested, NEW run \in Runs, NEW acc \in Accesses
    PROVE  /\ Access(run, acc) \in Runs
           /\ run.ended => Access(run, acc) = run
           /\ run.failures => Access(run, acc).failures
           /\ ~run.ended /\ Passes(run, acc) => Access(run, acc).failures = run.failures /\ ~Access(run, acc).ended
           /\ ~run.ended /\ ~Passes(run, acc) => Access(run, acc).failures /\ Access(run, acc).words = run.words
           /\ ~run.ended /\ Passes(run, acc) /\ acc.store =>
                  Access(run, acc).words = [run.words EXCEPT ![Cell(acc)] = Held(Cell(acc), acc.value)]
           /\ ~acc.store => Access(run, acc).words = run.words
           /\ \A c \in WordAddresses \ {Cell(acc)} : Access(run, acc).words[c] = run.words[c]
  <1>1. Cell(acc) \in WordAddresses /\ acc.value \in Values
    BY CellIs DEF Accesses
  <1>2. Held(Cell(acc), acc.value) \in Values
    BY <1>1, ValuesHeld
  <1>3. acc.check \in BOOLEAN /\ acc.last \in BOOLEAN /\ acc.store \in BOOLEAN
    BY DEF Accesses
  <1>4. run.words \in [WordAddresses -> Values] /\ run.failures \in BOOLEAN /\ run.ended \in BOOLEAN
    BY DEF Runs
  <1> DEFINE w == [run.words EXCEPT ![Cell(acc)] = Held(Cell(acc), acc.value)]
  <1>5. w \in [WordAddresses -> Values] /\ \A c \in WordAddresses \ {Cell(acc)} : w[c] = run.words[c]
    BY <1>1, <1>2, <1>4
  <1>6. CASE run.ended
    <2>1. Access(run, acc) = run
      BY <1>6 DEF Access
    <2> QED
      BY <1>4, <1>6, <2>1
  <1>7. CASE ~run.ended /\ ~Passes(run, acc)
    <2>1. acc.check /\ run.words[Cell(acc)] # acc.expect
      BY <1>7 DEF Passes
    <2>2. Access(run, acc) = [run EXCEPT !.failures = TRUE, !.ended = acc.last]
      BY <1>7, <2>1 DEF Access, Cell
    <2>3. Access(run, acc) \in Runs
      BY <1>3, <1>4, <2>2 DEF Runs
    <2>4. Access(run, acc).words = run.words /\ Access(run, acc).failures = TRUE
      BY <2>2 DEF Runs
    <2> QED
      BY <1>7, <2>3, <2>4
  <1>8. CASE ~run.ended /\ Passes(run, acc) /\ acc.store
    <2>1. ~(acc.check /\ run.words[Cell(acc)] # acc.expect)
      BY <1>8 DEF Passes
    <2>2. Access(run, acc) = [run EXCEPT !.words[Cell(acc)] = Held(Cell(acc), acc.value)]
      BY <1>8, <2>1 DEF Access, Cell
    <2>3. Access(run, acc) = [words |-> w, failures |-> run.failures, ended |-> run.ended]
      BY <2>2 DEF Runs
    <2> HIDE DEF w
    <2>4. Access(run, acc) \in Runs
      BY <1>4, <1>5, <2>3 DEF Runs
    <2>5. Access(run, acc).words = w /\ Access(run, acc).failures = run.failures /\ Access(run, acc).ended = run.ended
      BY <2>3
    <2> QED
      BY <1>5, <1>8, <2>4, <2>5 DEF w
  <1>9. CASE ~run.ended /\ Passes(run, acc) /\ ~acc.store
    <2>1. ~(acc.check /\ run.words[Cell(acc)] # acc.expect)
      BY <1>9 DEF Passes
    <2>2. Access(run, acc) = run
      BY <1>9, <2>1 DEF Access, Cell
    <2> QED
      BY <1>9, <2>2
  <1> QED
    BY <1>3, <1>4, <1>6, <1>7, <1>8, <1>9

(* The states a script goes through.                                       *)
Course(f, run, script) ==
    /\ f \in [0 .. Len(script) -> Runs] /\ f[0] = run
    /\ \A k \in 1 .. Len(script) : f[k] = Access(f[k - 1], script[k])

(* What a script leaves is the last run of its course.                     *)
LEMMA RanIs ==
    ASSUME Tested, NEW run \in Runs, NEW script \in Seq(Accesses)
    PROVE  \E f : Course(f, run, script) /\ Ran(run, script) = f[Len(script)]
  <1> DEFINE n == Len(script)
             Body(f) == [k \in 0 .. n |-> IF k = 0 THEN run ELSE Access(f[k - 1], script[k])]
             F == [k \in 1 .. n |-> [r \in Runs |-> Access(r, script[k])]]
  <1>0. n \in Nat /\ \A k \in 1 .. n : script[k] \in Accesses
    OBVIOUS
  <1> HIDE DEF n
  <1>1. F \in [1 .. n -> [Runs -> Runs]]
    BY <1>0, AccessIs
  <1>2. \A k \in 1 .. n, r \in Runs : F[k][r] = Access(r, script[k])
    OBVIOUS
  <1> HIDE DEF F
  <1>3. PICK f : Iterates(f, F, n, Runs, run)
    BY <1>0, <1>1, Iteration
  <1>4. f \in [0 .. n -> Runs] /\ f[0] = run /\ \A k \in 1 .. n : f[k] = F[k][f[k - 1]]
    BY <1>3 DEF Iterates
  <1>5. \A k \in 1 .. n : f[k] = Access(f[k - 1], script[k])
    <2> TAKE k \in 1 .. n
    <2>1. k - 1 \in 0 .. n
      BY <1>0
    <2>2. f[k - 1] \in Runs
      BY <1>4, <2>1
    <2> QED
      BY <1>2, <1>4, <2>2
  <1>6. \A k \in 0 .. n : f[k] = IF k = 0 THEN run ELSE Access(f[k - 1], script[k])
    BY <1>0, <1>4, <1>5
  <1>7. f = [k \in 0 .. n |-> f[k]]
    BY <1>4
  <1>8. f = Body(f)
    BY <1>6, <1>7
  <1> DEFINE after == CHOOSE g : g = Body(g)
  <1>9. after = Body(after)
    BY <1>8
  <1>10. Ran(run, script) = after[n]
    BY DEF Ran, n
  <1> HIDE DEF after
  <1>11. DOMAIN after = 0 .. n /\ \A k \in 0 .. n : after[k] = IF k = 0 THEN run ELSE Access(after[k - 1], script[k])
    BY <1>9
  <1> DEFINE S == [k \in 0 .. n |-> {r \in Runs : r = after[k]}]
  <1>12. \A k \in 0 .. n : after[k] \in Runs
    <2> DEFINE T == {k \in Nat : k <= n => after[k] \in Runs}
    <2>1. 0 \in T
      BY <1>0, <1>11
    <2>2. ASSUME NEW k \in Nat, k \in T PROVE k + 1 \in T
      <3> SUFFICES ASSUME k + 1 <= n PROVE after[k + 1] \in Runs
        OBVIOUS
      <3>1. k + 1 \in 1 .. n /\ k + 1 \in 0 .. n /\ (k + 1) - 1 = k /\ after[k] \in Runs /\ k + 1 # 0
        BY <1>0, <2>2
      <3>2. after[k + 1] = Access(after[k], script[k + 1])
        BY <1>11, <3>1
      <3> QED
        BY <1>0, <3>1, <3>2, AccessIs
    <2> HIDE DEF T
    <2>3. Nat \subseteq T
      BY <2>1, <2>2, SetInduction
    <2> QED
      BY <1>0, <2>3 DEF T
  <1>13. after = [k \in 0 .. n |-> after[k]]
    BY <1>9
  <1>14. after \in [0 .. n -> Runs]
    BY <1>12, <1>13
  <1>15. Course(after, run, script)
    BY <1>0, <1>11, <1>14 DEF Course, n
  <1> QED
    BY <1>10, <1>15 DEF n

(* What holds at the start of a script and is kept by each access of it.   *)
LEMMA CourseKeeps ==
    ASSUME NEW run, NEW script \in Seq(Accesses), NEW f, Course(f, run, script), NEW S,
           NEW a \in 0 .. Len(script), NEW b \in a .. Len(script), f[a] \in S[a],
           \A k \in a + 1 .. b : f[k - 1] \in S[k - 1] => Access(f[k - 1], script[k]) \in S[k]
    PROVE  f[b] \in S[b]
  <1> DEFINE g == [k \in 0 .. b - a |-> f[a + k]]
             R == [k \in 0 .. b - a |-> S[a + k]]
  <1>0. Len(script) \in Nat /\ a \in Nat /\ b \in Nat /\ b - a \in Nat /\ a + (b - a) = b
    OBVIOUS
  <1>1. g[0] \in R[0]
    BY <1>0
  <1>2. ASSUME NEW k \in 1 .. b - a, g[k - 1] \in R[k - 1] PROVE g[k] \in R[k]
    <2>1. a + k \in a + 1 .. b /\ (a + k) - 1 = a + (k - 1) /\ k - 1 \in 0 .. b - a /\ k \in 0 .. b - a
      BY <1>0
    <2>2. f[(a + k) - 1] \in S[(a + k) - 1]
      BY <1>2, <2>1
    <2>3. Access(f[(a + k) - 1], script[a + k]) \in S[a + k]
      BY <2>1, <2>2
    <2>4. f[a + k] = Access(f[(a + k) - 1], script[a + k])
      BY <1>0, <2>1 DEF Course
    <2> QED
      BY <2>1, <2>3, <2>4
  <1>3. b - a \in 0 .. b - a /\ g[b - a] = f[b] /\ R[b - a] = S[b]
    BY <1>0
  <1> HIDE DEF g, R
  <1>4. g[b - a] \in R[b - a]
    BY <1>0, <1>1, <1>2, Along
  <1> QED
    BY <1>3, <1>4

(* A cell that none of the accesses reaches is as it was.                  *)
LEMMA Untouched ==
    ASSUME Tested, NEW run, NEW script \in Seq(Accesses), NEW f, Course(f, run, script),
           NEW a \in 0 .. Len(script), NEW b \in a .. Len(script), NEW c \in WordAddresses,
           \A k \in a + 1 .. b : Cell(script[k]) # c
    PROVE  f[b].words[c] = f[a].words[c]
  <1> DEFINE R == {r \in Runs : r.words[c] = f[a].words[c]}
             S == [k \in 0 .. Len(script) |-> R]
  <1>0. Len(script) \in Nat /\ f \in [0 .. Len(script) -> Runs]
    BY DEF Course
  <1>1. f[a] \in R /\ a \in 0 .. Len(script) /\ b \in 0 .. Len(script)
    BY <1>0
  <1>2. ASSUME NEW k \in a + 1 .. b, f[k - 1] \in R PROVE Access(f[k - 1], script[k]) \in R
    <2>1. f[k - 1] \in Runs /\ f[k - 1].words[c] = f[a].words[c]
      BY <1>2
    <2>2. script[k] \in Accesses /\ Cell(script[k]) # c
      BY <1>0
    <2> DEFINE r == f[k - 1]
               acc == script[k]
               w == f[a].words[c]
    <2>3. r \in Runs /\ r.words[c] = w /\ acc \in Accesses /\ c \in WordAddresses \ {Cell(acc)}
      BY <2>1, <2>2
    <2> HIDE DEF r, acc, w
    <2>4. Access(r, acc) \in Runs /\ Access(r, acc).words[c] = w
      BY <2>3, AccessIs
    <2> QED
      BY <2>4 DEF r, acc, w
  <1> HIDE DEF R
  <1>3. f[a] \in S[a]
    BY <1>1
  <1>4. \A k \in a + 1 .. b : f[k - 1] \in S[k - 1] => Access(f[k - 1], script[k]) \in S[k]
    <2> TAKE k \in a + 1 .. b
    <2>1. k \in 0 .. Len(script) /\ k - 1 \in 0 .. Len(script)
      BY <1>0
    <2> QED
      BY <1>2, <2>1
  <1>5. S[b] = R
    BY <1>1
  <1> HIDE DEF S
  <1>6. f[b] \in S[b]
    BY <1>3, <1>4, CourseKeeps
  <1> QED
    BY <1>5, <1>6 DEF R

(* A failure is not forgotten, and only a failure ends a script.           *)
Fair(run) == run.ended => run.failures

(* A run that failed stays failed.                                         *)
LEMMA FailuresStay ==
    ASSUME Tested, NEW run, NEW script \in Seq(Accesses), NEW f, Course(f, run, script), Fair(run),
           NEW a \in 0 .. Len(script), NEW b \in a .. Len(script)
    PROVE  Fair(f[a]) /\ (f[a].failures => f[b].failures)
  <1> DEFINE n == Len(script)
             R == {r \in Runs : Fair(r)}
             S == [k \in 0 .. n |-> R]
             Q == {r \in Runs : f[a].failures => r.failures}
             P == [k \in 0 .. n |-> Q]
  <1>0. n \in Nat /\ f \in [0 .. n -> Runs] /\ f[0] = run /\ 0 \in 0 .. n /\ a \in 0 .. n /\ b \in 0 .. n
        /\ a \in Nat /\ b \in Nat
    BY DEF Course
  <1>1. \A k \in 1 .. n : script[k] \in Accesses /\ k \in 0 .. n /\ k - 1 \in 0 .. n
    BY <1>0
  <1>2. ASSUME NEW r \in Runs, NEW acc \in Accesses, Fair(r) PROVE Access(r, acc) \in Runs /\ Fair(Access(r, acc))
    <2>1. CASE r.ended
      BY <1>2, <2>1, AccessIs DEF Fair
    <2>2. CASE ~r.ended
      BY <1>2, <2>2, AccessIs DEF Fair
    <2> QED
      BY <2>1, <2>2
  <1>3. \A k \in 0 + 1 .. a : f[k - 1] \in S[k - 1] => Access(f[k - 1], script[k]) \in S[k]
    <2> TAKE k \in 0 + 1 .. a
    <2>1. k \in 1 .. n
      BY <1>0
    <2> QED
      BY <1>1, <1>2, <2>1
  <1>4. f[0] \in S[0] /\ S[a] = R
    BY <1>0
  <1>5. f[a] \in S[a]
    <2>1. a \in 0 .. n
      BY <1>0
    <2> HIDE DEF S
    <2> QED
      BY <1>0, <1>3, <1>4, <2>1, CourseKeeps DEF n
  <1>6. f[a] \in P[a] /\ P[b] = Q
    BY <1>0
  <1>7. \A k \in a + 1 .. b : f[k - 1] \in P[k - 1] => Access(f[k - 1], script[k]) \in P[k]
    <2> TAKE k \in a + 1 .. b
    <2>1. k \in 1 .. n
      BY <1>0
    <2> QED
      BY <1>1, <2>1, AccessIs
  <1>8. f[b] \in P[b]
    <2> HIDE DEF P
    <2> QED
      BY <1>6, <1>7, CourseKeeps DEF n
  <1> QED
    BY <1>4, <1>5, <1>6, <1>8

(* A script in which every access passes fails and ends nothing.           *)
LEMMA FailedSomewhere ==
    ASSUME Tested, NEW run, NEW script \in Seq(Accesses), NEW f, Course(f, run, script), Fair(run),
           NEW k \in 1 .. Len(script), ~Passes(f[k - 1], script[k])
    PROVE  f[Len(script)].failures
  <1> DEFINE n == Len(script)
  <1>0. n \in Nat /\ f \in [0 .. n -> Runs] /\ k \in 0 .. n /\ k - 1 \in 0 .. n /\ n \in k .. n /\ n \in k - 1 .. n
    BY DEF Course
  <1>1. f[k] = Access(f[k - 1], script[k]) /\ f[k - 1] \in Runs /\ script[k] \in Accesses
    BY <1>0 DEF Course
  <1>2. CASE f[k - 1].ended
    <2>1. f[k - 1].failures
      BY <1>0, <1>2, FailuresStay DEF Fair
    <2> QED
      BY <1>0, <2>1, FailuresStay
  <1>3. CASE ~f[k - 1].ended
    <2> DEFINE r == f[k - 1]
               acc == script[k]
    <2>0. r \in Runs /\ acc \in Accesses /\ ~r.ended /\ ~Passes(r, acc) /\ f[k] = Access(r, acc)
      BY <1>1, <1>3
    <2> HIDE DEF r, acc
    <2>1. f[k].failures
      BY <2>0, AccessIs
    <2> QED
      BY <1>0, <2>1, FailuresStay
  <1> QED
    BY <1>2, <1>3

(* A script leaves a run, and a failure in it.                             *)
LEMMA RanKeeps ==
    ASSUME Tested, NEW run \in Runs, Fair(run), NEW script \in Seq(Accesses)
    PROVE  Ran(run, script) \in Runs /\ Fair(Ran(run, script)) /\ (run.failures => Ran(run, script).failures)
  <1> DEFINE n == Len(script)
  <1>1. PICK f : Course(f, run, script) /\ Ran(run, script) = f[n]
    BY RanIs
  <1>2. n \in Nat /\ f \in [0 .. n -> Runs] /\ 0 \in 0 .. n /\ n \in 0 .. n /\ f[0] = run
    BY <1>1 DEF Course
  <1>3. f[n] \in Runs
    BY <1>2
  <1>4. n \in n .. n
    BY <1>2
  <1>5. Fair(f[n]) /\ (f[0].failures => f[n].failures)
    BY <1>1, <1>2, <1>4, FailuresStay
  <1> QED
    BY <1>1, <1>2, <1>3, <1>5

(* Accesses that only store: each cell holds what one of them stored, and  *)
(* none that was before the one asked for.                                 *)
OnlyStores(script) == \A k \in 1 .. Len(script) : script[k].store /\ ~script[k].check

(* Every cell holds what the last of the first k accesses to it stored.    *)
StoredBy(r, script, k) ==
    \A i \in 1 .. k : \E j \in i .. k :
        Cell(script[j]) = Cell(script[i]) /\ r.words[Cell(script[i])] = Held(Cell(script[i]), script[j].value)

(* A script that only stores leaves just that.                             *)
LEMMA Written ==
    ASSUME Tested, NEW run \in Runs, ~run.ended, NEW script \in Seq(Accesses), OnlyStores(script)
    PROVE  /\ Ran(run, script) \in Runs /\ ~Ran(run, script).ended /\ Ran(run, script).failures = run.failures
           /\ StoredBy(Ran(run, script), script, Len(script))
  <1> DEFINE n == Len(script)
             R(k) == {r \in Runs : ~r.ended /\ r.failures = run.failures /\ StoredBy(r, script, k)}
             S == [k \in 0 .. n |-> R(k)]
  <1>1. PICK f : Course(f, run, script) /\ Ran(run, script) = f[n]
    BY RanIs
  <1>2. n \in Nat /\ f \in [0 .. n -> Runs] /\ 0 \in 0 .. n /\ n \in 0 .. n /\ f[0] = run
    BY <1>1 DEF Course
  <1>3. f[0] \in S[0]
    BY <1>2 DEF StoredBy
  <1>4. ASSUME NEW k \in 1 .. n, f[k - 1] \in S[k - 1] PROVE Access(f[k - 1], script[k]) \in S[k]
    <2> DEFINE r == f[k - 1]
               acc == script[k]
               c == Cell(acc)
               q == Access(r, acc)
    <2>0. k \in Nat /\ k - 1 \in 0 .. n /\ k \in 0 .. n
      BY <1>2
    <2>1. r \in Runs /\ ~r.ended /\ r.failures = run.failures /\ StoredBy(r, script, k - 1)
      BY <1>4, <2>0
    <2>2. acc \in Accesses /\ acc.store /\ ~acc.check
      BY <1>2 DEF OnlyStores
    <2>3. Passes(r, acc)
      BY <2>2 DEF Passes
    <2>4. c \in WordAddresses
      BY <2>2, CellIs
    <2> HIDE DEF r, acc
    <2>5. /\ q \in Runs /\ q.failures = run.failures /\ ~q.ended
          /\ q.words = [r.words EXCEPT ![c] = Held(c, acc.value)]
      BY <2>1, <2>2, <2>3, AccessIs
    <2>6. q.words[c] = Held(c, acc.value) /\ \A d \in WordAddresses \ {c} : q.words[d] = r.words[d]
      BY <2>1, <2>4, <2>5 DEF Runs
    <2> HIDE DEF q, c
    <2>7. ASSUME NEW i \in 1 .. k
          PROVE  \E j \in i .. k : Cell(script[j]) = Cell(script[i])
                     /\ q.words[Cell(script[i])] = Held(Cell(script[i]), script[j].value)
      <3>1. CASE Cell(script[i]) = c
        <4>1. k \in i .. k /\ Cell(script[k]) = c /\ script[k] = acc
          BY <2>0 DEF c, acc
        <4> QED
          BY <2>6, <3>1, <4>1
      <3>2. CASE Cell(script[i]) # c
        <4>1. i \in 1 .. k - 1
          BY <2>0, <3>2 DEF c, acc
        <4>2. PICK j \in i .. k - 1 :
                  Cell(script[j]) = Cell(script[i]) /\ r.words[Cell(script[i])] = Held(Cell(script[i]), script[j].value)
          BY <2>1, <4>1 DEF StoredBy
        <4>3. j \in i .. k
          BY <2>0, <4>1
        <4>4. script[i] \in Accesses
          BY <1>2, <2>0
        <4>5. Cell(script[i]) \in WordAddresses \ {c}
          BY <3>2, <4>4, CellIs
        <4> QED
          BY <2>6, <4>2, <4>3, <4>5
      <3> QED
        BY <3>1, <3>2
    <2>8. StoredBy(q, script, k)
      BY <2>7 DEF StoredBy
    <2>9. q \in R(k)
      BY <2>5, <2>8
    <2>10. S[k] = R(k)
      BY <2>0
    <2> QED
      BY <2>9, <2>10 DEF q, r, acc
  <1> HIDE DEF S
  <1>5. \A k \in 0 + 1 .. n : f[k - 1] \in S[k - 1] => Access(f[k - 1], script[k]) \in S[k]
    BY <1>4
  <1>6. n \in 0 .. n
    BY <1>2
  <1>7. f[n] \in S[n]
    BY <1>1, <1>2, <1>3, <1>5, <1>6, CourseKeeps
  <1>8. S[n] = R(n)
    BY <1>2 DEF S
  <1> QED
    BY <1>1, <1>7, <1>8

(* Accesses that only check: they find what the memory holds.              *)
OnlyChecks(script) == \A k \in 1 .. Len(script) : script[k].check /\ ~script[k].store

(* A script that only checks fails where a cell differs, and only there.   *)
LEMMA Checked ==
    ASSUME Tested, NEW run \in Runs, Fair(run), NEW script \in Seq(Accesses), OnlyChecks(script)
    PROVE  /\ Ran(run, script).words = run.words
           /\ ~run.ended /\ (\A k \in 1 .. Len(script) : Passes(run, script[k])) =>
                  Ran(run, script).failures = run.failures /\ ~Ran(run, script).ended
           /\ ~Ran(run, script).failures => \A k \in 1 .. Len(script) : Passes(run, script[k])
  <1> DEFINE n == Len(script)
             R == {r \in Runs : r.words = run.words}
             S == [k \in 0 .. n |-> R]
             Q == {r \in R : r.failures = run.failures /\ ~r.ended}
             P == [k \in 0 .. n |-> Q]
  <1>1. PICK f : Course(f, run, script) /\ Ran(run, script) = f[n]
    BY RanIs
  <1>2. n \in Nat /\ f \in [0 .. n -> Runs] /\ 0 \in 0 .. n /\ n \in 0 .. n /\ f[0] = run
    BY <1>1 DEF Course
  <1>3. \A k \in 1 .. n : script[k] \in Accesses /\ script[k].check /\ ~script[k].store /\ k \in 0 .. n /\ k - 1 \in 0 .. n
    BY <1>2 DEF OnlyChecks
  <1>4. \A k \in 0 + 1 .. n : f[k - 1] \in S[k - 1] => Access(f[k - 1], script[k]) \in S[k]
    <2> TAKE k \in 0 + 1 .. n
    <2>1. k \in 1 .. n
      OBVIOUS
    <2> QED
      BY <1>3, <2>1, AccessIs
  <1>5. f[0] \in S[0]
    BY <1>2
  <1>6. \A m \in 0 .. n : f[m] \in R
    <2> TAKE m \in 0 .. n
    <2>1. m \in 0 .. n /\ m \in Nat /\ m \in 0 .. Len(script) /\ 0 \in 0 .. Len(script)
      BY <1>2
    <2>2. \A k \in 0 + 1 .. m : f[k - 1] \in S[k - 1] => Access(f[k - 1], script[k]) \in S[k]
      <3> HIDE DEF S
      <3> QED
        BY <1>2, <1>4
    <2>3. S[m] = R
      BY <2>1
    <2> HIDE DEF S
    <2>4. f[m] \in S[m]
      BY <1>1, <1>5, <2>1, <2>2, CourseKeeps
    <2> QED
      BY <2>3, <2>4
  <1>7. ASSUME NEW k \in 1 .. n, ~Passes(run, script[k]) PROVE f[n].failures
    <2>1. f[k - 1].words = run.words
      BY <1>3, <1>6
    <2>2. ~Passes(f[k - 1], script[k])
      BY <1>7, <2>1 DEF Passes
    <2> QED
      BY <1>1, <2>2, FailedSomewhere
  <1>8. ASSUME ~run.ended, \A k \in 1 .. n : Passes(run, script[k]) PROVE f[n] \in Q
    <2>1. f[0] \in P[0] /\ P[n] = Q
      BY <1>2, <1>8
    <2>2. \A k \in 0 + 1 .. n : f[k - 1] \in P[k - 1] => Access(f[k - 1], script[k]) \in P[k]
      <3> TAKE k \in 0 + 1 .. n
      <3>1. k \in 1 .. n
        OBVIOUS
      <3> SUFFICES ASSUME f[k - 1] \in Q PROVE Access(f[k - 1], script[k]) \in Q
        BY <1>3, <3>1
      <3> DEFINE r == f[k - 1]
                 acc == script[k]
      <3>2. r \in Runs /\ r.words = run.words /\ r.failures = run.failures /\ ~r.ended
        OBVIOUS
      <3>3. acc \in Accesses /\ ~acc.store /\ Passes(run, acc)
        BY <1>3, <1>8, <3>1
      <3> HIDE DEF r, acc
      <3>4. Passes(r, acc)
        BY <3>2, <3>3 DEF Passes
      <3>5. Access(r, acc) \in Q
        BY <3>2, <3>3, <3>4, AccessIs
      <3> QED
        BY <3>5 DEF r, acc
    <2> HIDE DEF P
    <2>3. n \in 0 .. n
      BY <1>2
    <2>4. f[n] \in P[n]
      BY <1>1, <1>2, <2>1, <2>2, <2>3, CourseKeeps
    <2> QED
      BY <2>1, <2>4
  <1> QED
    BY <1>1, <1>2, <1>6, <1>7, <1>8

(* The accesses of the scripts.                                            *)
LEMMA Forms ==
    ASSUME Tested, NEW offset \in 0 .. region.words - 1, NEW v \in Int, NEW w \in Int
    PROVE  /\ Wr(offset, v) \in Accesses /\ Wr(offset, v).store /\ ~Wr(offset, v).check
           /\ Wr(offset, v).offset = offset /\ Wr(offset, v).value = v % TwoTo[DataLines]
           /\ Rd(offset, v) \in Accesses /\ ~Rd(offset, v).store /\ Rd(offset, v).check
           /\ Rd(offset, v).offset = offset /\ Rd(offset, v).expect = v % TwoTo[DataLines]
           /\ RLast(offset, v) \in Accesses /\ ~RLast(offset, v).store /\ RLast(offset, v).check
           /\ RLast(offset, v).offset = offset /\ RLast(offset, v).expect = v % TwoTo[DataLines]
           /\ RLastThenWr(offset, v, w) \in Accesses
           /\ RLastThenWr(offset, v, w).store /\ RLastThenWr(offset, v, w).check
           /\ RLastThenWr(offset, v, w).offset = offset /\ RLastThenWr(offset, v, w).expect = v % TwoTo[DataLines]
           /\ RLastThenWr(offset, v, w).value = w % TwoTo[DataLines]
  <1> DEFINE x == v % TwoTo[DataLines]
             y == w % TwoTo[DataLines]
  <1>1. x \in Values /\ y \in Values /\ 0 \in Values
    <2>1. 0 \in Values
      BY Widths DEF Values
    <2> HIDE DEF Values
    <2> QED
      BY <2>1, ValuesAre
  <1>2. Wr(offset, v) = [offset |-> offset, check |-> FALSE, expect |-> 0, last |-> FALSE, store |-> TRUE, value |-> x]
    BY DEF Wr
  <1>3. Rd(offset, v) = [offset |-> offset, check |-> TRUE, expect |-> x, last |-> FALSE, store |-> FALSE, value |-> 0]
    BY DEF Rd
  <1>a. RLastThenWr(offset, v, w) = [RLast(offset, v) EXCEPT !.store = TRUE, !.value = y]
    BY DEF RLastThenWr
  <1>b. ASSUME NEW a \in Accesses
        PROVE  LET r == [a EXCEPT !.last = TRUE]
               IN  /\ r \in Accesses /\ r.offset = a.offset /\ r.check = a.check /\ r.expect = a.expect
                   /\ r.store = a.store
    BY DEF Accesses
  <1>c. ASSUME NEW a \in Accesses, NEW z \in Values
        PROVE  LET r == [a EXCEPT !.store = TRUE, !.value = z]
               IN  /\ r \in Accesses /\ r.offset = a.offset /\ (a.check => r.check) /\ r.expect = a.expect
                   /\ r.store /\ r.value = z
    BY DEF Accesses
  <1> HIDE DEF x, y
  <1>d. /\ Wr(offset, v) \in Accesses /\ Wr(offset, v).store /\ ~Wr(offset, v).check
        /\ Wr(offset, v).offset = offset /\ Wr(offset, v).value = x
    BY <1>1, <1>2 DEF Accesses
  <1>e. /\ Rd(offset, v) \in Accesses /\ ~Rd(offset, v).store /\ Rd(offset, v).check
        /\ Rd(offset, v).offset = offset /\ Rd(offset, v).expect = x
    BY <1>1, <1>3 DEF Accesses
  <1>f. /\ RLast(offset, v) \in Accesses /\ ~RLast(offset, v).store /\ RLast(offset, v).check
        /\ RLast(offset, v).offset = offset /\ RLast(offset, v).expect = x
    BY <1>b, <1>e DEF RLast
  <1>g. /\ RLastThenWr(offset, v, w) \in Accesses
        /\ RLastThenWr(offset, v, w).store /\ RLastThenWr(offset, v, w).check
        /\ RLastThenWr(offset, v, w).offset = offset /\ RLastThenWr(offset, v, w).expect = x
        /\ RLastThenWr(offset, v, w).value = y
    <2> DEFINE a == RLast(offset, v)
               r == [a EXCEPT !.store = TRUE, !.value = y]
    <2>1. a \in Accesses /\ a.check /\ a.offset = offset /\ a.expect = x
      BY <1>f
    <2> HIDE DEF a
    <2>2. r \in Accesses /\ r.offset = a.offset /\ (a.check => r.check) /\ r.expect = a.expect /\ r.store /\ r.value = y
      BY <1>1, <1>c, <2>1
    <2>3. RLastThenWr(offset, v, w) = r
      BY <1>a DEF a
    <2> HIDE DEF r
    <2> QED
      BY <2>1, <2>2, <2>3
  <1> QED
    BY <1>d, <1>e, <1>f, <1>g DEF x, y

(* Word i of the region.                                                   *)
CellAt(i) == Selected(region.base + i - 1)

(* A function on 1 .. n is a script.                                       *)
LEMMA ScriptIs ==
    ASSUME NEW n \in Nat, NEW f \in [1 .. n -> Accesses]
    PROVE  f \in Seq(Accesses) /\ Len(f) = n
  BY SeqDef, LenProperties

(* Writing and Reading are scripts over the region.                        *)
LEMMA InOrder ==
    ASSUME Tested, NEW values \in [1 .. region.words -> Int]
    PROVE  /\ Writing(values) \in Seq(Accesses) /\ Len(Writing(values)) = region.words
           /\ OnlyStores(Writing(values))
           /\ \A i \in 1 .. region.words : /\ Cell(Writing(values)[i]) = CellAt(i)
                                           /\ Writing(values)[i].value = values[i] % TwoTo[DataLines]
           /\ Reading(values) \in Seq(Accesses) /\ Len(Reading(values)) = region.words
           /\ OnlyChecks(Reading(values))
           /\ \A i \in 1 .. region.words : /\ Cell(Reading(values)[i]) = CellAt(i)
                                           /\ Reading(values)[i].expect = values[i] % TwoTo[DataLines]
  <1> DEFINE n == region.words
             W == Writing(values)
             R == Reading(values)
  <1>1. n \in Nat \ {0} /\ region.base \in Nat
    BY RegionIs
  <1>2. W = [i \in 1 .. n |-> Wr(i - 1, values[i])] /\ R = [i \in 1 .. n |-> Rd(i - 1, values[i])]
    BY DEF Writing, Reading
  <1>3. \A i \in 1 .. n : i - 1 \in 0 .. n - 1 /\ values[i] \in Int /\ region.base + (i - 1) = region.base + i - 1
    BY <1>1
  <1> HIDE DEF W, R, n
  <1>4. ASSUME NEW i \in 1 .. n
        PROVE  /\ W[i] \in Accesses /\ W[i].store /\ ~W[i].check /\ W[i].offset = i - 1
               /\ W[i].value = values[i] % TwoTo[DataLines]
               /\ R[i] \in Accesses /\ ~R[i].store /\ R[i].check /\ R[i].offset = i - 1
               /\ R[i].expect = values[i] % TwoTo[DataLines]
    <2>1. W[i] = Wr(i - 1, values[i]) /\ R[i] = Rd(i - 1, values[i])
      BY <1>2
    <2> QED
      <3> DEFINE o == i - 1
                 v == values[i]
      <3>1. o \in 0 .. region.words - 1 /\ v \in Int
        BY <1>3 DEF n
      <3> HIDE DEF o, v
      <3>2. /\ Wr(o, v) \in Accesses /\ Wr(o, v).store /\ ~Wr(o, v).check
            /\ Wr(o, v).offset = o /\ Wr(o, v).value = v % TwoTo[DataLines]
            /\ Rd(o, v) \in Accesses /\ ~Rd(o, v).store /\ Rd(o, v).check
            /\ Rd(o, v).offset = o /\ Rd(o, v).expect = v % TwoTo[DataLines]
        BY <3>1, Forms
      <3> QED
        BY <2>1, <3>2 DEF o, v
  <1>5. W \in [1 .. n -> Accesses] /\ R \in [1 .. n -> Accesses]
    <2>1. W = [i \in 1 .. n |-> W[i]] /\ R = [i \in 1 .. n |-> R[i]]
      BY <1>2
    <2> QED
      BY <1>4, <2>1
  <1>6. W \in Seq(Accesses) /\ Len(W) = n /\ R \in Seq(Accesses) /\ Len(R) = n
    BY <1>1, <1>5, ScriptIs
  <1>7. \A i \in 1 .. n : Cell(W[i]) = CellAt(i) /\ Cell(R[i]) = CellAt(i)
    BY <1>3, <1>4 DEF Cell, CellAt
  <1> QED
    BY <1>4, <1>6, <1>7 DEF OnlyStores, OnlyChecks, W, R, n

(* Words of the region are cells, each its own without a fault of          *)
(* addresses.                                                              *)
LEMMA CellsAt ==
    ASSUME Tested
    PROVE  /\ \A i \in 1 .. region.words : CellAt(i) \in WordAddresses
           /\ fault.kind \in {"none", "data", "cell"} =>
                  \A i \in 1 .. region.words : CellAt(i) = region.base + i - 1
           /\ fault.kind \in {"none", "data", "cell"} =>
                  \A i, j \in 1 .. region.words : CellAt(i) = CellAt(j) => i = j
  <1>1. \A i \in 1 .. region.words : region.base + i - 1 \in WordAddresses
    BY RegionIs
  <1>2. \A i \in 1 .. region.words : CellAt(i) \in WordAddresses
    BY <1>1, CellsReached DEF CellAt
  <1>3. fault.kind \in {"none", "data", "cell"} => \A i \in 1 .. region.words : CellAt(i) = region.base + i - 1
    BY <1>1, CellsReached DEF CellAt
  <1>4. region.base \in Nat /\ region.words \in Nat
    BY RegionIs
  <1> QED
    BY <1>2, <1>3, <1>4

(* The places of the region whose words have a stuck bit, and two places   *)
(* whose words are the same.                                               *)
StuckAt(i) == fault.kind = "data" \/ (fault.kind = "cell" /\ fault.other = CellAt(i))

(* Two words are one cell; a value has the level of the stuck bit.         *)
Aliased(i, j) == i # j /\ CellAt(i) = CellAt(j)
FitsLevel(v) == BitOf(v, fault.line) = fault.level

(* A fault that shows sticks a bit of a word or makes two words one.       *)
LEMMA WhatShows ==
    ASSUME Tested, Shows
    PROVE  \/ fault.kind \in {"data", "cell"} /\ \E i \in 1 .. region.words : StuckAt(i)
           \/ fault.kind \in {"address", "shorted"} /\ \E i, j \in 1 .. region.words : Aliased(i, j)
  <1>1. CASE fault.kind = "data"
    <2>1. 1 \in 1 .. region.words
      BY RegionIs
    <2> QED
      BY <1>1, <2>1 DEF StuckAt
  <1>2. CASE fault.kind = "cell"
    <2>1. fault.other \in RegionCells
      BY <1>2 DEF Shows
    <2>2. PICK i \in 1 .. region.words : fault.other = region.base + i - 1
      BY <2>1, RegionIs
    <2>3. CellAt(i) = fault.other
      BY <1>2, <2>2, CellsAt
    <2> QED
      BY <1>2, <2>3 DEF StuckAt
  <1>3. CASE fault.kind \notin {"data", "cell"}
    <2>1. PICK a \in RegionCells, b \in RegionCells : a # b /\ Selected(a) = Selected(b)
      BY <1>3 DEF Shows
    <2>2. PICK i \in 1 .. region.words : a = region.base + i - 1
      BY RegionIs
    <2>3. PICK j \in 1 .. region.words : b = region.base + j - 1
      BY RegionIs
    <2>4. i # j /\ CellAt(i) = CellAt(j)
      BY <2>1, <2>2, <2>3 DEF CellAt
    <2>5. fault.kind # "none"
      BY <2>4, CellsAt
    <2> QED
      BY <1>3, <2>4, <2>5, FaultKinds DEF Aliased
  <1> QED
    BY <1>1, <1>2, <1>3

(* What was written in order to every word, and is read back.              *)
LEMMA ReadBack ==
    ASSUME Tested, NEW run \in Runs, Fair(run), ~run.ended, NEW values \in [1 .. region.words -> Int]
    PROVE  LET e(i) == values[i] % TwoTo[DataLines]
               written == Ran(run, Writing(values))
               read == Ran(written, Reading(values))
           IN  /\ written \in Runs /\ Fair(written) /\ ~written.ended /\ written.failures = run.failures
               /\ \A i \in 1 .. region.words :
                      \E j \in i .. region.words : CellAt(j) = CellAt(i) /\ written.words[CellAt(i)] = Held(CellAt(i), e(j))
               /\ read \in Runs /\ (run.failures => read.failures)
               /\ fault.kind = "none" => read.failures = run.failures
               /\ ~read.failures => \A i \in 1 .. region.words : written.words[CellAt(i)] = e(i)
  <1> DEFINE n == region.words
             e(i) == values[i] % TwoTo[DataLines]
             W == Writing(values)
             R == Reading(values)
             w == Ran(run, W)
             r == Ran(w, R)
  <1>0. n \in Nat
    BY RegionIs
  <1>1. /\ W \in Seq(Accesses) /\ Len(W) = n /\ OnlyStores(W) /\ \A i \in 1 .. n : Cell(W[i]) = CellAt(i) /\ W[i].value = e(i)
        /\ R \in Seq(Accesses) /\ Len(R) = n /\ OnlyChecks(R) /\ \A i \in 1 .. n : Cell(R[i]) = CellAt(i) /\ R[i].expect = e(i)
    BY InOrder
  <1> HIDE DEF W, R
  <1>2. w \in Runs /\ ~w.ended /\ w.failures = run.failures /\ StoredBy(w, W, n)
    BY <1>1, Written
  <1>3. ASSUME NEW i \in 1 .. n PROVE \E j \in i .. n : CellAt(j) = CellAt(i) /\ w.words[CellAt(i)] = Held(CellAt(i), e(j))
    <2>1. PICK j \in i .. n : Cell(W[j]) = Cell(W[i]) /\ w.words[Cell(W[i])] = Held(Cell(W[i]), W[j].value)
      BY <1>2 DEF StoredBy
    <2>2. j \in 1 .. n
      BY <1>0
    <2> QED
      BY <1>1, <2>1, <2>2
  <1>4. Fair(w)
    BY <1>2 DEF Fair
  <1> HIDE DEF w
  <1>5. r \in Runs /\ (w.failures => r.failures)
    BY <1>1, <1>2, <1>4, RanKeeps
  <1>6. \A i \in 1 .. n : R[i].check /\ (Passes(w, R[i]) <=> w.words[CellAt(i)] = e(i))
    BY <1>1 DEF Passes, OnlyChecks
  <1>7. /\ (\A k \in 1 .. n : Passes(w, R[k])) => r.failures = w.failures /\ ~r.ended
        /\ ~r.failures => \A k \in 1 .. n : Passes(w, R[k])
    BY <1>1, <1>2, <1>4, Checked
  <1> HIDE DEF r
  <1>8. ~r.failures => \A i \in 1 .. n : w.words[CellAt(i)] = e(i)
    BY <1>6, <1>7
  <1>9. ASSUME fault.kind = "none" PROVE r.failures = run.failures
    <2>1. ASSUME NEW i \in 1 .. n PROVE w.words[CellAt(i)] = e(i)
      <3>1. PICK j \in i .. n : CellAt(j) = CellAt(i) /\ w.words[CellAt(i)] = Held(CellAt(i), e(j))
        BY <1>3
      <3>2. j \in 1 .. n
        BY <1>0
      <3>3. j = i
        BY <1>9, <3>1, <3>2, CellsAt
      <3>4. e(i) \in Values /\ CellAt(i) \in WordAddresses
        BY ValuesAre, CellsAt
      <3> QED
        BY <1>9, <3>1, <3>3, <3>4, ValuesHeld
    <2> QED
      BY <1>2, <1>6, <1>7, <2>1
  <1> QED
    BY <1>2, <1>3, <1>4, <1>5, <1>8, <1>9 DEF r, w, W, R

-----------------------------------------------------------------------------
(* The quick test.                                                         *)

(* The highest bit, the pattern after p, what a pass writes to word i.     *)
Top(p) == BitOf(p, DataLines - 1)
Following(p) == IF Top(p) = 1 THEN TwoTo[DataLines] - p ELSE TwoTo[DataLines] - 1 - p
ValueWritten(p, s, i) == (p + (i - 1) * s) % TwoTo[DataLines]

(* A pattern whose highest bit is 0 is followed by values that are the     *)
(* inverse ones, and one whose highest bit is 1 by such a pattern, unless  *)
(* it is its own negative.                                                 *)
LEMMA Turn ==
    ASSUME NEW p \in Values
    PROVE  /\ Top(p) \in {0, 1} /\ Following(p) \in Values
           /\ Top(p) = 0 => \A s \in {1, -1}, i \in Nat : 
                  ValueWritten(Following(p), -s, i) = TwoTo[DataLines] - 1 - ValueWritten(p, s, i)
           /\ Top(p) = 1 /\ p # TwoTo[DataLines - 1] => Top(Following(p)) = 0
           /\ Top(0) = 0
  <1> DEFINE M == TwoTo[DataLines]
             H == TwoTo[DataLines - 1]
  <1>1. M \in Nat \ {0} /\ H \in Nat \ {0} /\ M = 2 * H /\ DataLines \in 1 .. DataLines
    BY Widths
  <1>2. Values = 0 .. M - 1
    BY DEF Values
  <1>3. \A x \in 0 .. M - 1 : Top(x) = IF x >= H THEN 1 ELSE 0
    BY <1>1, HighestBit DEF Top
  <1>4. Following(p) = IF Top(p) = 1 THEN M - p ELSE M - 1 - p
    BY DEF Following
  <1>5. \A q, s, i : ValueWritten(q, s, i) = (q + (i - 1) * s) % M
    BY DEF ValueWritten
  <1> HIDE DEF M, H
  <1>6. p \in 0 .. M - 1
    BY <1>2
  <1>7. Top(p) = IF p >= H THEN 1 ELSE 0
    BY <1>3, <1>6
  <1>8. Following(p) \in 0 .. M - 1
    BY <1>1, <1>4, <1>6, <1>7
  <1>9. Top(p) = 1 /\ p # H => Top(Following(p)) = 0
    BY <1>1, <1>3, <1>4, <1>6, <1>7, <1>8
  <1>10. \A x \in Int : (M - 1 - x) % M = M - 1 - (x % M)
    <2> TAKE x \in Int
    <2> DEFINE k == x \div M
               y == x % M
    <2>1. x = M * k + y /\ y \in 0 .. M - 1 /\ k \in Int
      BY <1>1
    <2> HIDE DEF k, y
    <2>2. M - 1 - x = M * (0 - k) + (M - 1 - y) /\ M - 1 - y \in 0 .. M - 1 /\ 0 - k \in Int /\ M - 1 - x \in Int
      <3>1. M * (0 - k) = 0 - M * k /\ M * k \in Int
        BY <1>1, <2>1
      <3> QED
        BY <1>1, <2>1, <3>1
    <2>3. \A z \in Int, q \in Int, t \in 0 .. M - 1 : z = M * q + t => t = z % M
      BY <1>1
    <2> QED
      BY <2>2, <2>3 DEF y
  <1>11. ASSUME Top(p) = 0, NEW s \in {1, -1}, NEW i \in Nat
         PROVE  ValueWritten(Following(p), -s, i) = M - 1 - ValueWritten(p, s, i)
    <2> DEFINE x == p + (i - 1) * s
    <2>1. x \in Int /\ Following(p) + (i - 1) * (-s) = M - 1 - x
      BY <1>1, <1>4, <1>6, <1>11
    <2> HIDE DEF x
    <2> QED
      BY <1>5, <1>10, <2>1 DEF x
  <1>12. Top(0) = 0
    BY <1>1, <1>3
  <1> QED
    BY <1>2, <1>7, <1>8, <1>9, <1>11, <1>12 DEF M, H

(* Values of one pass are all different.                                   *)
LEMMA Different ==
    ASSUME Tested, NEW p \in Int, NEW s \in {1, -1}, NEW i \in 1 .. region.words, NEW j \in 1 .. region.words,
           ValueWritten(p, s, i) = ValueWritten(p, s, j)
    PROVE  i = j
  <1> DEFINE M == TwoTo[DataLines]
             x == p + (i - 1) * s
             y == p + (j - 1) * s
  <1>1. M \in Nat \ {0} /\ region.words \in Nat /\ region.words < M
    BY Widths, RegionIs
  <1>2. x \in Int /\ y \in Int /\ (x = y => i = j) /\ x - y < M /\ y - x < M
    BY <1>1
  <1>3. x % M = y % M
    BY DEF ValueWritten
  <1> HIDE DEF M, x, y
  <1>a. \A z \in Int : z \div M \in Int /\ z = M * (z \div M) + (z % M)
    BY <1>1
  <1>4. PICK k \in Int : x = M * k + (x % M)
    BY <1>2, <1>a
  <1>5. PICK l \in Int : y = M * l + (x % M)
    BY <1>2, <1>3, <1>a
  <1>6. x % M \in Int
    BY <1>1, <1>2
  <1>7. CASE k = l
    BY <1>2, <1>4, <1>5, <1>7
  <1>8. CASE k > l
    <2>1. PICK d \in Nat : k = l + 1 + d
      <3>1. k - l - 1 \in Nat /\ k = l + 1 + (k - l - 1)
        BY <1>8
      <3> QED
        BY <3>1
    <2>2. M * k = M * l + M + M * d /\ M * d \in Nat /\ M * l \in Int
      BY <1>1, <2>1
    <2> QED
      BY <1>1, <1>2, <1>4, <1>5, <1>6, <2>2
  <1>9. CASE l > k
    <2>1. PICK d \in Nat : l = k + 1 + d
      <3>1. l - k - 1 \in Nat /\ l = k + 1 + (l - k - 1)
        BY <1>9
      <3> QED
        BY <3>1
    <2>2. M * l = M * k + M + M * d /\ M * d \in Nat /\ M * k \in Int
      BY <1>1, <2>1
    <2> QED
      BY <1>1, <1>2, <1>4, <1>5, <1>6, <2>2
  <1> QED
    BY <1>7, <1>8, <1>9

(* The types of mtest.                                                     *)
TestTypes ==
    /\ Tested /\ alternate \in BOOLEAN /\ words \in [WordAddresses -> Values]
    /\ first \in Values /\ pattern \in Values /\ incr \in {1, -1}
    /\ passes \in Nat /\ failures \in BOOLEAN /\ ended \in BOOLEAN

(* A pass begins with a run that has not ended.                            *)
LEMMA NewRunIs == TestTypes => NewRun \in Runs /\ ~NewRun.ended /\ Fair(NewRun) /\ NewRun.failures = failures
  BY DEF TestTypes, NewRun, Runs, Fair

(* What one pass of the quick test finds.                                  *)
LEMMA QuickPassIs ==
    ASSUME TestTypes
    PROVE  LET r == QuickRun(NewRun)
           IN  /\ r \in Runs /\ (failures => r.failures) /\ (fault.kind = "none" => r.failures = failures)
               /\ ~r.failures =>
                      /\ fault.kind \in {"address", "shorted"} => ~\E i, j \in 1 .. region.words : Aliased(i, j)
                      /\ fault.kind \in {"data", "cell"} =>
                             \A i \in 1 .. region.words : StuckAt(i) => FitsLevel(ValueWritten(pattern, incr, i))
  <1> DEFINE n == region.words
             run == NewRun
             e(i) == QuickValues[i] % TwoTo[DataLines]
             w == Ran(run, Writing(QuickValues))
             r == Ran(w, Reading(QuickValues))
  <1>0. Tested /\ n \in Nat /\ pattern \in Int /\ incr \in {1, -1}
    BY RegionIs, ValuesAre DEF TestTypes
  <1>1. QuickValues \in [1 .. n -> Int] /\ \A i \in 1 .. n : QuickValues[i] = pattern + (i - 1) * incr
    BY <1>0 DEF QuickValues
  <1>2. run \in Runs /\ ~run.ended /\ Fair(run) /\ run.failures = failures
    BY NewRunIs
  <1> HIDE DEF run
  <1>3. \A i \in 1 .. n : e(i) = ValueWritten(pattern, incr, i) /\ e(i) \in Values
    BY <1>0, <1>1, ValuesAre DEF ValueWritten
  <1>4. /\ \A i \in 1 .. n :
               \E j \in i .. n : CellAt(j) = CellAt(i) /\ w.words[CellAt(i)] = Held(CellAt(i), e(j))
        /\ r \in Runs /\ (run.failures => r.failures)
        /\ fault.kind = "none" => r.failures = run.failures
        /\ ~r.failures => \A i \in 1 .. n : w.words[CellAt(i)] = e(i)
    BY <1>0, <1>1, <1>2, ReadBack
  <1>5. QuickRun(NewRun) = r
    BY DEF QuickRun, run
  <1> HIDE DEF w, r
  <1>6. ASSUME ~r.failures, NEW i \in 1 .. n, NEW j \in 1 .. n, Aliased(i, j) PROVE FALSE
    <2>1. e(i) = e(j)
      BY <1>4, <1>6 DEF Aliased
    <2>2. i = j
      BY <1>0, <1>3, <2>1, Different
    <2> QED
      BY <1>6, <2>2 DEF Aliased
  <1>7. ASSUME ~r.failures, fault.kind \in {"data", "cell"}, NEW i \in 1 .. n, StuckAt(i)
        PROVE  FitsLevel(ValueWritten(pattern, incr, i))
    <2>1. PICK j \in i .. n : CellAt(j) = CellAt(i) /\ w.words[CellAt(i)] = Held(CellAt(i), e(j))
      BY <1>4
    <2>2. j \in 1 .. n
      BY <1>0
    <2>3. j = i
      BY <1>0, <1>7, <2>1, <2>2, CellsAt
    <2>4. Held(CellAt(i), e(i)) = e(i)
      BY <1>4, <1>7, <2>1, <2>3
    <2>5. CellAt(i) \in WordAddresses /\ e(i) \in Values
      BY <1>0, <1>3, CellsAt
    <2>6. BitOf(e(i), fault.line) = fault.level
      BY <1>0, <1>7, <2>4, <2>5, ValuesHeld DEF StuckAt
    <2> QED
      BY <1>3, <2>6 DEF FitsLevel
  <1> QED
    BY <1>2, <1>4, <1>5, <1>6, <1>7

(* What the passes of the quick test have found.                           *)
FitsFirst(i) == FitsLevel(ValueWritten(first, 1, i))
FitsSecond(i) == Top(first) = 1 /\ FitsLevel(ValueWritten(Following(first), -1, i))
QuickInv ==
    /\ passes = 0 => pattern = first /\ incr = 1
    /\ passes = 1 => pattern = Following(first) /\ incr = -1
    /\ passes = 2 => pattern = Following(Following(first)) /\ incr = 1
    /\ passes >= 1 /\ ~failures /\ fault.kind \in {"address", "shorted"} => ~\E i, j \in 1 .. region.words : Aliased(i, j)
    /\ ~failures /\ fault.kind \in {"data", "cell"} =>
           \A i \in 1 .. region.words : StuckAt(i) =>
               /\ passes = 1 => FitsFirst(i)
               /\ passes = 2 => FitsSecond(i)
               /\ passes >= 3 => first = TwoTo[DataLines - 1]

(* A stuck bit that agrees with two passes: the first pattern was          *)
(* negative.                                                               *)
LEMMA NotBoth ==
    ASSUME TestTypes, fault.kind \in {"data", "cell"}, NEW p \in Values, NEW s \in {1, -1}, NEW t \in {1, -1}, s + t = 0,
           NEW i \in 1 .. region.words, FitsLevel(ValueWritten(p, s, i)), FitsLevel(ValueWritten(Following(p), t, i))
    PROVE  Top(p) = 1
  <1> SUFFICES ASSUME Top(p) = 0 PROVE FALSE
    BY Turn
  <1> DEFINE x == ValueWritten(p, s, i)
  <1>0. Tested
    BY DEF TestTypes
  <1>1. i \in Nat /\ p \in Int /\ s \in Int /\ p + (i - 1) * s \in Int
    BY <1>0, RegionIs, ValuesAre
  <1>2. x \in Values
    BY <1>1, ValuesAre DEF ValueWritten
  <1>3. fault.line \in 0 .. DataLines - 1 /\ fault.level \in {0, 1}
    BY <1>0, FaultKinds
  <1>4. ValueWritten(Following(p), t, i) = TwoTo[DataLines] - 1 - x
    <2>1. t = -s
      OBVIOUS
    <2> QED
      BY <1>1, <2>1, Turn
  <1> HIDE DEF x
  <1>5. DataLines \in 1 .. DataLines /\ x \in 0 .. TwoTo[DataLines] - 1
    BY <1>2, Widths DEF Values
  <1>6. BitOf(TwoTo[DataLines] - 1 - x, fault.line) = 1 - BitOf(x, fault.line)
    BY <1>3, <1>5, InverseBit
  <1>7. BitOf(x, fault.line) = fault.level /\ BitOf(TwoTo[DataLines] - 1 - x, fault.line) = fault.level
    BY <1>4 DEF FitsLevel, x
  <1> QED
    BY <1>3, <1>6, <1>7

(* A pass of the quick test keeps the invariant.                           *)
LEMMA QuickKeeps ==
    ASSUME TestTypes, QuickInv, QuickPass
    PROVE  TestTypes' /\ QuickInv' /\ (fault.kind = "none" /\ ~failures => ~failures')
  <1> DEFINE n == region.words
             r == QuickRun(NewRun)
             stuck == fault.kind \in {"data", "cell"}
  <1>1. /\ words' = r.words /\ failures' = r.failures /\ ended' = r.ended
        /\ pattern' = Following(pattern) /\ incr' = -incr /\ passes' = passes + 1
        /\ fault' = fault /\ region' = region /\ alternate' = alternate /\ first' = first
    BY DEF QuickPass, Ends, NextPattern, NextIncr, Following, Top
  <1>2. /\ r \in Runs /\ (failures => r.failures) /\ (fault.kind = "none" => r.failures = failures)
        /\ ~r.failures =>
               /\ fault.kind \in {"address", "shorted"} => ~\E i, j \in 1 .. n : Aliased(i, j)
               /\ stuck => \A i \in 1 .. n : StuckAt(i) => FitsLevel(ValueWritten(pattern, incr, i))
    BY QuickPassIs
  <1> HIDE DEF r
  <1>3. Following(pattern) \in Values /\ Following(first) \in Values /\ -incr \in {1, -1}
    BY Turn DEF TestTypes
  <1>4. TestTypes'
    <2>1. r.words \in [WordAddresses -> Values] /\ r.failures \in BOOLEAN /\ r.ended \in BOOLEAN
      BY <1>2 DEF Runs
    <2>2. passes + 1 \in Nat /\ TwoTo' = TwoTo
      BY DEF TestTypes
    <2> QED
      BY <1>1, <1>3, <2>1, <2>2 DEF TestTypes, Tested, WordAddresses, Values, Faults, Stuck, Shorted
  <1>5. \A i : (CellAt(i))' = CellAt(i) /\ (StuckAt(i))' = StuckAt(i)
    BY <1>1 DEF CellAt, StuckAt, Selected, WithBit, BitOf
  <1>6. \A v : (FitsLevel(v))' <=> FitsLevel(v)
    BY <1>1 DEF FitsLevel, BitOf
  <1>7. \A i, j : (Aliased(i, j))' <=> Aliased(i, j)
    BY <1>5 DEF Aliased
  <1>8. passes \in Nat /\ first \in Values
    BY DEF TestTypes
  <1>9. ASSUME ~r.failures, stuck, NEW i \in 1 .. n, StuckAt(i)
        PROVE  /\ passes + 1 = 1 => FitsFirst(i)
               /\ passes + 1 = 2 => FitsSecond(i)
               /\ passes + 1 >= 3 => first = TwoTo[DataLines - 1]
    <2>1. FitsLevel(ValueWritten(pattern, incr, i)) /\ ~failures
      BY <1>2, <1>9
    <2>2. CASE passes = 0
      BY <2>1, <2>2 DEF QuickInv, FitsFirst
    <2>3. CASE passes = 1
      <3>1. pattern = Following(first) /\ incr = -1 /\ FitsLevel(ValueWritten(first, 1, i))
        BY <1>9, <2>1, <2>3 DEF QuickInv, FitsFirst
      <3>2. Top(first) = 1
        BY <1>8, <1>9, <2>1, <3>1, NotBoth
      <3> QED
        BY <2>1, <2>3, <3>1, <3>2 DEF FitsSecond
    <2>4. CASE passes = 2
      <3>1. /\ pattern = Following(Following(first)) /\ incr = 1 /\ Top(first) = 1
            /\ FitsLevel(ValueWritten(Following(first), -1, i))
        BY <1>9, <2>1, <2>4 DEF QuickInv, FitsSecond
      <3>2. -1 \in {1, -1} /\ -1 + 1 = 0
        OBVIOUS
      <3>3. Top(Following(first)) = 1
        BY <1>3, <1>9, <2>1, <3>1, <3>2, NotBoth
      <3>4. first = TwoTo[DataLines - 1]
        BY <1>8, <3>1, <3>3, Turn
      <3> QED
        BY <2>4, <3>4
    <2>5. CASE passes >= 3
      <3>1. first = TwoTo[DataLines - 1]
        BY <1>9, <2>1, <2>5 DEF QuickInv
      <3> QED
        BY <1>8, <2>5, <3>1
    <2> QED
      BY <1>8, <2>2, <2>3, <2>4, <2>5
  <1>10. /\ passes + 1 # 0
         /\ passes + 1 = 1 => Following(pattern) = Following(first) /\ -incr = -1
         /\ passes + 1 = 2 => Following(pattern) = Following(Following(first)) /\ -incr = 1
    BY <1>8 DEF QuickInv
  <1>11. QuickInv'
    <2>3. \A i : ((FitsFirst(i))' <=> FitsFirst(i)) /\ ((FitsSecond(i))' <=> FitsSecond(i))
      BY <1>1 DEF FitsFirst, FitsSecond, FitsLevel, BitOf, ValueWritten, Following, Top
    <2>4. passes' >= 1 /\ ~failures' /\ fault'.kind \in {"address", "shorted"} => ~\E i, j \in 1 .. region'.words : (Aliased(i, j))'
      BY <1>1, <1>2, <1>7
    <2>5. ASSUME ~failures', fault'.kind \in {"data", "cell"}, NEW i \in 1 .. region'.words, (StuckAt(i))'
          PROVE  /\ passes' = 1 => (FitsFirst(i))'
                 /\ passes' = 2 => (FitsSecond(i))'
                 /\ passes' >= 3 => first' = TwoTo[DataLines - 1]
      <3>1. ~r.failures /\ stuck /\ i \in 1 .. n /\ StuckAt(i)
        BY <1>1, <1>5, <2>5
      <3>2. /\ passes + 1 = 1 => FitsFirst(i)
            /\ passes + 1 = 2 => FitsSecond(i)
            /\ passes + 1 >= 3 => first = TwoTo[DataLines - 1]
        BY <1>9, <3>1
      <3> QED
        BY <1>1, <2>3, <3>2
    <2>6. /\ passes' = 0 => pattern' = first' /\ incr' = 1
          /\ passes' = 1 => pattern' = (Following(first))' /\ incr' = -1
          /\ passes' = 2 => pattern' = (Following(Following(first)))' /\ incr' = 1
      <3>1. (Following(first))' = Following(first) /\ (Following(Following(first)))' = Following(Following(first))
        BY <1>1 DEF Following, Top, BitOf
      <3> QED
        BY <1>1, <1>10, <3>1
    <2> QED
      BY <2>4, <2>5, <2>6 DEF QuickInv
  <1> QED
    BY <1>1, <1>2, <1>4, <1>11

-----------------------------------------------------------------------------
(* The alternate test.                                                     *)

(* The data lines: every pattern fails at a stuck one, or its inverse.     *)
LEMMA DataTestedIs ==
    ASSUME Tested, NEW run \in Runs, Fair(run)
    PROVE  LET r == DataTested(run)
           IN  /\ r \in Runs /\ Fair(r) /\ (run.failures => r.failures)
               /\ fault.kind = "none" => r.failures = run.failures /\ (~run.ended => ~r.ended)
               /\ fault.kind = "data" => r.failures
  <1> DEFINE M == TwoTo[DataLines]
             c == Selected(region.base)
             bad == ~\A v \in DataValues : Held(c, v) = v /\ Held(c, Inverted(v)) = Inverted(v)
             x == Held(c, Inverted(LastValue))
             w == [run.words EXCEPT ![c] = x]
             r == DataTested(run)
  <1>0. M \in Nat \ {0, 1} /\ DataLines \in Nat /\ DataLines >= 2 /\ LastValue \in Nat /\ Values = 0 .. M - 1
    BY Widths DEF LastValue, Values
  <1>1. c \in WordAddresses
    <2>1. 1 \in 1 .. region.words /\ region.base + 1 - 1 = region.base /\ region.base + 1 - 1 \in WordAddresses
      BY RegionIs
    <2> QED
      BY <2>1, CellsReached
  <1>2. DataValues \subseteq Values
    <2> SUFFICES ASSUME NEW v \in DataValues PROVE v \in Values
      OBVIOUS
    <2>1. PICK q \in Range(BitPattern), s \in 0 .. DataLines - 1 : v = (q * TwoTo[s]) % M
      BY DEF DataValues
    <2>2. q \in Int /\ TwoTo[s] \in Int
      <3>1. q \in {1, 3, 7, 15, 5, 21, 85, 170}
        BY DEF Range, BitPattern
      <3>2. s \in 0 .. DataLines
        BY <1>0
      <3> QED
        BY <3>1, <3>2, Powers
    <2>3. q * TwoTo[s] \in Int
      BY <2>2
    <2> QED
      BY <2>1, <2>3, ValuesAre
  <1>3. 1 \in DataValues
    <2>1. 1 \in Range(BitPattern)
      <3>1. 1 \in DOMAIN BitPattern /\ BitPattern[1] = 1
        BY DEF BitPattern
      <3> QED
        BY <3>1 DEF Range
    <2>2. 0 \in 0 .. DataLines - 1 /\ TwoTo[0] = 1
      BY <1>0, Powers
    <2>3. (1 * TwoTo[0]) % M = 1
      BY <1>0, <2>2
    <2>4. 1 \in {(1 * TwoTo[s]) % TwoTo[DataLines] : s \in 0 .. DataLines - 1}
      BY <2>2, <2>3
    <2> DEFINE Shifts(q) == {(q * TwoTo[s]) % TwoTo[DataLines] : s \in 0 .. DataLines - 1}
    <2> DEFINE All == {Shifts(q) : q \in Range(BitPattern)}
    <2>5. DataValues = (UNION All) \ {0}
      BY DEF DataValues
    <2>6. 1 \in Shifts(1)
      BY <2>4
    <2> HIDE DEF Shifts
    <2>7. Shifts(1) \in All
      BY <2>1
    <2> HIDE DEF All
    <2>8. 1 \in UNION All
      BY <2>6, <2>7
    <2> QED
      BY <2>5, <2>8
  <1>4. \A v \in DataValues : Inverted(v) \in Values
    BY <1>2, ValuesAre
  <1>5. x \in Values
    <2>1. Inverted(LastValue) \in Values
      <3>1. LastValue \in Int
        BY <1>0
      <3> HIDE DEF Values
      <3> QED
        BY <3>1, ValuesAre
    <2> QED
      BY <1>1, <2>1, ValuesHeld
  <1>6. r = [run EXCEPT !.failures = @ \/ bad, !.words[c] = x]
    BY DEF DataTested
  <1>7. bad \in BOOLEAN /\ run.words \in [WordAddresses -> Values] /\ run.failures \in BOOLEAN /\ run.ended \in BOOLEAN
    BY DEF Runs
  <1>8. (fault.kind = "none" => ~bad) /\ (fault.kind = "data" => bad)
    <2>1. ASSUME fault.kind = "none", NEW v \in DataValues PROVE Held(c, v) = v /\ Held(c, Inverted(v)) = Inverted(v)
      BY <1>1, <1>2, <1>4, <2>1, ValuesHeld
    <2>2. ASSUME fault.kind = "data", Held(c, 1) = 1, Held(c, Inverted(1)) = Inverted(1) PROVE FALSE
      <3>1. 1 \in Values /\ Inverted(1) \in Values /\ fault.line \in 0 .. DataLines - 1
        BY <1>2, <1>3, <1>4, <2>2, FaultKinds
      <3>2. BitOf(1, fault.line) = fault.level /\ BitOf(Inverted(1), fault.line) = fault.level
        BY <1>1, <2>2, <3>1, ValuesHeld
      <3>3. BitOf(Inverted(1), fault.line) = 1 - BitOf(1, fault.line) /\ BitOf(1, fault.line) \in {0, 1}
        BY <3>1, ValuesAre
      <3> QED
        BY <3>2, <3>3
    <2> QED
      BY <1>3, <2>1, <2>2
  <1> HIDE DEF bad, x, c, r
  <1>9. w \in [WordAddresses -> Values]
    BY <1>1, <1>5, <1>7
  <1>10. r \in Runs /\ (r.failures <=> run.failures \/ bad) /\ r.ended = run.ended
    <2>1. r.words = w /\ r.ended = run.ended /\ r.failures = (run.failures \/ bad)
      BY <1>6 DEF Runs
    <2>2. r = [words |-> r.words, failures |-> r.failures, ended |-> r.ended]
      BY <1>6 DEF Runs
    <2>3. r.failures \in BOOLEAN
      BY <2>1
    <2> HIDE DEF w
    <2>4. r \in Runs
      BY <1>7, <1>9, <2>1, <2>2, <2>3 DEF Runs
    <2> QED
      BY <1>7, <2>1, <2>4
  <1> QED
    BY <1>8, <1>10 DEF Fair, r, Runs

(* The walking offsets are words of the region behind the first, all       *)
(* different.                                                              *)
LEMMA WalkingIs ==
    ASSUME Tested
    PROVE  \E u \in Nat : /\ Walking \in [1 .. u -> 1 .. region.words - 1] /\ Len(Walking) = u
                          /\ Walking \in Seq(0 .. region.words - 1)
                          /\ \A a, b \in 1 .. u : Walking[a] = Walking[b] => a = b
  <1> DEFINE T == {b \in 0 .. AddressLines : BitOf(region.words - 1, b) = 0}
             u == Min(T)
  <1>0. /\ AddressLines \in 1 .. DataLines - 1 /\ DataLines \in Nat /\ region.words \in Nat \ {0}
        /\ region.words <= TwoTo[AddressLines] /\ TwoTo[AddressLines] \in Nat
    BY Widths, RegionIs
  <1>1. AddressLines \in T
    <2>1. AddressLines \in 0 .. DataLines /\ region.words - 1 \in Nat /\ region.words - 1 < TwoTo[AddressLines]
      BY <1>0
    <2>2. BitOf(region.words - 1, AddressLines) = 0
      BY <2>1, LowBits
    <2> QED
      BY <1>0, <2>2
  <1>2. \E m \in T : \A y \in T : m <= y
    <2>1. T \in SUBSET Nat /\ T # {}
      BY <1>0, <1>1
    <2> HIDE DEF T
    <2> QED
      BY <2>1, LeastNumber
  <1>3. u \in T /\ \A y \in T : u <= y
    BY <1>2 DEF Min
  <1>4. u \in 0 .. AddressLines /\ u \in Nat
    BY <1>0, <1>3
  <1>5. Walking = [b \in 1 .. u |-> TwoTo[b - 1]]
    BY DEF Walking
  <1> HIDE DEF u
  <1>6. ASSUME NEW b \in 1 .. u PROVE TwoTo[b - 1] \in 1 .. region.words - 1
    <2>1. b - 1 \in 0 .. AddressLines /\ b - 1 \in 0 .. DataLines /\ b - 1 < u
      BY <1>0, <1>4
    <2>2. b - 1 \notin T
      BY <1>3, <1>4, <2>1
    <2>3. BitOf(region.words - 1, b - 1) # 0
      BY <2>1, <2>2
    <2>4. region.words - 1 \in Nat
      BY <1>0
    <2>5. BitOf(region.words - 1, b - 1) = 1
      BY <2>1, <2>3, <2>4, BitSplit
    <2>6. region.words - 1 >= TwoTo[b - 1] /\ TwoTo[b - 1] \in Nat \ {0}
      BY <2>1, <2>4, <2>5, LowBits, Powers
    <2> QED
      BY <2>4, <2>6
  <1>7. \A b \in 1 .. u : Walking[b] = TwoTo[b - 1]
    BY <1>5
  <1>8. Walking \in [1 .. u -> 1 .. region.words - 1] /\ Walking \in [1 .. u -> 0 .. region.words - 1]
    <2>1. \A b \in 1 .. u : TwoTo[b - 1] \in 0 .. region.words - 1
      BY <1>0, <1>6
    <2> QED
      BY <1>5, <1>6, <2>1
  <1>9. Walking \in Seq(0 .. region.words - 1) /\ Len(Walking) = u
    <2> DEFINE D == 0 .. region.words - 1
               f == Walking
    <2>1. u \in Nat /\ f \in [1 .. u -> D]
      BY <1>4, <1>8
    <2> HIDE DEF D, f
    <2>2. f \in Seq(D) /\ Len(f) = u
      BY <2>1, SeqDef, LenProperties
    <2> QED
      BY <2>2 DEF D, f
  <1>10. ASSUME NEW a \in 1 .. u, NEW b \in 1 .. u, Walking[a] = Walking[b] PROVE a = b
    <2>1. a - 1 \in 0 .. DataLines /\ b - 1 \in 0 .. DataLines /\ TwoTo[a - 1] = TwoTo[b - 1]
      BY <1>0, <1>4, <1>7, <1>10
    <2>2. TwoTo[a - 1] \in Nat \ {0}
      BY <2>1, Powers
    <2>3. CASE a < b
      <3>1. b - 1 \in 1 .. DataLines /\ a - 1 \in 0 .. (b - 1) - 1
        BY <1>0, <1>4, <2>3
      <3> QED
        BY <2>1, <2>2, <3>1, PowersGrow
    <2>4. CASE b < a
      <3>1. a - 1 \in 1 .. DataLines /\ b - 1 \in 0 .. (a - 1) - 1
        BY <1>0, <1>4, <2>4
      <3> QED
        BY <2>1, <2>2, <3>1, PowersGrow
    <2> QED
      BY <2>3, <2>4
  <1> QED
    BY <1>4, <1>8, <1>9, <1>10

(* The cell of an offset.                                                  *)
CellOf(offset) == Selected(region.base + offset)

(* It is the word behind it.                                               *)
LEMMA CellOfIs ==
    ASSUME Tested, NEW o \in 0 .. region.words - 1
    PROVE  CellOf(o) \in WordAddresses /\ (fault.kind = "none" => CellOf(o) = region.base + o)
  <1>1. region.base \in Nat /\ region.words \in Nat /\ o + 1 \in 1 .. region.words /\ region.base + (o + 1) - 1 = region.base + o
    BY RegionIs
  <1>2. region.base + o \in WordAddresses
    BY <1>1, RegionIs
  <1> QED
    BY <1>2, CellsReached DEF CellOf

(* The accesses of a reading.                                              *)
LEMMA LastReadings ==
    ASSUME Tested, NEW o \in 0 .. region.words - 1, NEW v \in Int
    PROVE  /\ RLast(o, v) \in Accesses /\ ~RLast(o, v).store /\ RLast(o, v).check
           /\ RLast(o, v).offset = o /\ RLast(o, v).expect = v % TwoTo[DataLines]
  BY Forms

(* The items of a sequence.                                                *)
LEMMA Items ==
    ASSUME NEW D, NEW s \in Seq(D)
    PROVE  Len(s) \in Nat /\ DOMAIN s = 1 .. Len(s) /\ \A i \in 1 .. Len(s) : s[i] \in D
  OBVIOUS

(* A reading is a script that only checks.                                 *)
LEMMA ReadingIs ==
    ASSUME Tested, NEW offsets \in Seq(0 .. region.words - 1), NEW v \in Int
    PROVE  LET script == ReadingAll(offsets, v)
           IN  /\ script \in Seq(Accesses) /\ Len(script) = Len(offsets) /\ OnlyChecks(script)
               /\ \A i \in 1 .. Len(offsets) : /\ Cell(script[i]) = CellOf(offsets[i])
                                               /\ script[i].expect = v % TwoTo[DataLines]
  <1> DEFINE n == Len(offsets)
             s == ReadingAll(offsets, v)
  <1>1. n \in Nat /\ DOMAIN offsets = 1 .. n /\ \A i \in 1 .. n : offsets[i] \in 0 .. region.words - 1
    <2> DEFINE D == 0 .. region.words - 1
    <2>1. offsets \in Seq(D)
      OBVIOUS
    <2> HIDE DEF D
    <2>2. Len(offsets) \in Nat /\ DOMAIN offsets = 1 .. Len(offsets) /\ \A i \in 1 .. Len(offsets) : offsets[i] \in D
      BY <2>1, Items
    <2> QED
      BY <2>2 DEF D
  <1>2. s = [i \in 1 .. n |-> RLast(offsets[i], v)]
    BY <1>1 DEF ReadingAll
  <1> HIDE DEF n, s
  <1>3. ASSUME NEW i \in 1 .. n
        PROVE  s[i] \in Accesses /\ ~s[i].store /\ s[i].check /\ s[i].offset = offsets[i] /\ s[i].expect = v % TwoTo[DataLines]
    <2> DEFINE o == offsets[i]
    <2>1. o \in 0 .. region.words - 1 /\ s[i] = RLast(o, v)
      BY <1>1, <1>2
    <2> HIDE DEF o
    <2>2. /\ RLast(o, v) \in Accesses /\ ~RLast(o, v).store /\ RLast(o, v).check
          /\ RLast(o, v).offset = o /\ RLast(o, v).expect = v % TwoTo[DataLines]
      <3>1. v \in Int /\ o \in 0 .. region.words - 1
        BY <2>1
      <3> QED
        BY <3>1, LastReadings, Zenon
    <2> QED
      BY <2>1, <2>2 DEF o
  <1>4. s \in [1 .. n -> Accesses]
    <2>1. s = [i \in 1 .. n |-> s[i]]
      BY <1>2
    <2> QED
      BY <1>3, <2>1
  <1>5. s \in Seq(Accesses) /\ Len(s) = n
    BY <1>1, <1>4, ScriptIs
  <1>6. \A i \in 1 .. n : Cell(s[i]) = CellOf(offsets[i])
    BY <1>3 DEF Cell, CellOf
  <1> QED
    BY <1>3, <1>5, <1>6 DEF OnlyChecks, s, n

(* One access alone.                                                       *)
LEMMA OneWrite ==
    ASSUME Tested, NEW run \in Runs, Fair(run), NEW o \in 0 .. region.words - 1, NEW v \in Int
    PROVE  LET r == Access(run, Wr(o, v))
           IN  /\ r \in Runs /\ Fair(r) /\ (run.failures => r.failures)
               /\ ~run.ended => /\ ~r.ended /\ r.failures = run.failures
                                /\ r.words[CellOf(o)] = Held(CellOf(o), v % TwoTo[DataLines])
               /\ \A c \in WordAddresses \ {CellOf(o)} : r.words[c] = run.words[c]
  <1> DEFINE acc == Wr(o, v)
             r == Access(run, acc)
             x == v % TwoTo[DataLines]
  <1>1. acc \in Accesses /\ acc.store /\ ~acc.check /\ acc.offset = o /\ acc.value = x
    BY Forms
  <1>2. Cell(acc) = CellOf(o) /\ CellOf(o) \in WordAddresses /\ Passes(run, acc)
    BY <1>1, CellOfIs DEF Cell, CellOf, Passes
  <1> HIDE DEF acc, x
  <1>3. /\ r \in Runs /\ (run.ended => r = run) /\ (run.failures => r.failures)
        /\ ~run.ended => r.failures = run.failures /\ ~r.ended
        /\ ~run.ended => r.words = [run.words EXCEPT ![CellOf(o)] = Held(CellOf(o), x)]
        /\ \A c \in WordAddresses \ {CellOf(o)} : r.words[c] = run.words[c]
    BY <1>1, <1>2, AccessIs
  <1> HIDE DEF r
  <1>4. ~run.ended => r.words[CellOf(o)] = Held(CellOf(o), x)
    BY <1>2, <1>3 DEF Runs
  <1>5. Fair(r)
    BY <1>3 DEF Fair
  <1> QED
    BY <1>3, <1>4, <1>5 DEF r, acc, x

(* The pattern of the address test is a value.                             *)
LEMMA PatternIs == AddressPattern \in Int /\ AddressPattern % TwoTo[DataLines] \in Values /\ Inverted(AddressPattern) \in Int
  <1>1. TwoTo[DataLines] \in Nat
    BY Widths
  <1>2. AddressPattern \in Int
    BY <1>1 DEF AddressPattern
  <1>3. Inverted(AddressPattern) \in Values /\ AddressPattern % TwoTo[DataLines] \in Values
    BY <1>2, ValuesAre
  <1> QED
    BY <1>2, <1>3, ValuesAre

(* The word at o holds the pattern.                                        *)
AtPattern(r, o) == r.words[CellOf(o)] = AddressPattern % TwoTo[DataLines]

(* Changing one word fails when another one is the same cell, and does not *)
(* when memory is good.                                                    *)
LEMMA ChangingIs ==
    ASSUME Tested, NEW run \in Runs, Fair(run), NEW o \in 0 .. region.words - 1, NEW offsets \in Seq(0 .. region.words - 1)
    PROVE  LET r == Changing(run, o, offsets)
           IN  /\ r \in Runs /\ Fair(r) /\ (run.failures => r.failures)
               /\ /\ fault.kind = "none" /\ ~run.ended
                  /\ \A i \in 1 .. Len(offsets) : offsets[i] # o /\ AtPattern(run, offsets[i])
                  => /\ ~r.ended /\ r.failures = run.failures /\ AtPattern(r, o)
                     /\ \A c \in WordAddresses \ {CellOf(o)} : r.words[c] = run.words[c]
  <1> DEFINE p == AddressPattern
             n == Len(offsets)
             s == ReadingAll(offsets, p)
             a == Access(run, Wr(o, Inverted(p)))
             b == Ran(a, s)
             r == Access(b, Wr(o, p))
             x == p % TwoTo[DataLines]
  <1>1. p \in Int /\ x \in Values /\ Inverted(p) \in Int
    BY PatternIs
  <1>2. n \in Nat /\ \A i \in 1 .. n : offsets[i] \in 0 .. region.words - 1
    <2> DEFINE D == 0 .. region.words - 1
    <2>1. offsets \in Seq(D)
      OBVIOUS
    <2> HIDE DEF D
    <2>2. Len(offsets) \in Nat /\ DOMAIN offsets = 1 .. Len(offsets) /\ \A i \in 1 .. Len(offsets) : offsets[i] \in D
      BY <2>1, Items
    <2> QED
      BY <2>2 DEF D
  <1>3. Changing(run, o, offsets) = r
    BY DEF Changing
  <1>4. AddressPattern = p
    OBVIOUS
  <1> HIDE DEF p
  <1>5. /\ s \in Seq(Accesses) /\ Len(s) = n /\ OnlyChecks(s)
        /\ \A i \in 1 .. n : Cell(s[i]) = CellOf(offsets[i]) /\ s[i].expect = x
    BY <1>1, ReadingIs
  <1>6. /\ a \in Runs /\ Fair(a) /\ (run.failures => a.failures)
        /\ ~run.ended => ~a.ended /\ a.failures = run.failures
        /\ \A c \in WordAddresses \ {CellOf(o)} : a.words[c] = run.words[c]
    BY <1>1, OneWrite
  <1> HIDE DEF a, s
  <1>7. b \in Runs /\ Fair(b) /\ (a.failures => b.failures)
    BY <1>5, <1>6, RanKeeps
  <1>8. /\ b.words = a.words
        /\ ~a.ended /\ (\A k \in 1 .. Len(s) : Passes(a, s[k])) => b.failures = a.failures /\ ~b.ended
    BY <1>5, <1>6, Checked
  <1> HIDE DEF b
  <1>9. /\ r \in Runs /\ Fair(r) /\ (b.failures => r.failures)
        /\ ~b.ended => /\ ~r.ended /\ r.failures = b.failures
                       /\ r.words[CellOf(o)] = Held(CellOf(o), x)
        /\ \A c \in WordAddresses \ {CellOf(o)} : r.words[c] = b.words[c]
    BY <1>1, <1>7, OneWrite
  <1> HIDE DEF r, x
  <1>10. ASSUME fault.kind = "none", ~run.ended,
                \A i \in 1 .. n : offsets[i] # o /\ AtPattern(run, offsets[i])
         PROVE  /\ ~r.ended /\ r.failures = run.failures /\ AtPattern(r, o)
                /\ \A c \in WordAddresses \ {CellOf(o)} : r.words[c] = run.words[c]
    <2>1. ASSUME NEW i \in 1 .. n PROVE Passes(a, s[i])
      <3> DEFINE q == offsets[i]
      <3>1. q \in 0 .. region.words - 1 /\ q # o /\ run.words[CellOf(q)] = x
        BY <1>2, <1>4, <1>10 DEF AtPattern, x
      <3> HIDE DEF q
      <3>2. CellOf(q) \in WordAddresses /\ CellOf(q) # CellOf(o)
        <4>1. region.base \in Nat /\ CellOf(q) = region.base + q /\ CellOf(o) = region.base + o /\ CellOf(q) \in WordAddresses
          BY <1>10, <3>1, RegionIs, CellOfIs
        <4> QED
          BY <3>1, <4>1
      <3>3. a.words[CellOf(q)] = x
        BY <1>6, <3>1, <3>2
      <3>4. Cell(s[i]) = CellOf(q) /\ s[i].expect = x
        BY <1>5 DEF q
      <3> QED
        BY <3>3, <3>4 DEF Passes
    <2>2. ~b.ended /\ b.failures = run.failures
      BY <1>5, <1>6, <1>8, <1>10, <2>1
    <2>3. CellOf(o) \in WordAddresses /\ Held(CellOf(o), x) = x
      BY <1>1, <1>10, CellOfIs, ValuesHeld DEF x
    <2>4. AtPattern(r, o)
      BY <1>4, <1>9, <2>2, <2>3 DEF AtPattern, x
    <2> QED
      BY <1>6, <1>8, <1>9, <2>2, <2>4
  <1> QED
    BY <1>3, <1>6, <1>7, <1>9, <1>10 DEF n

(* The runs that ended with a failure only.                                *)
FairRuns == {r \in Runs : Fair(r)}

(* The other walking offsets.                                              *)
LEMMA AllButIs ==
    ASSUME Tested, NEW k \in 1 .. Len(Walking)
    PROVE  /\ AllBut(k) \in Seq(0 .. region.words - 1)
           /\ \A i \in 1 .. Len(AllBut(k)) : AllBut(k)[i] # Walking[k] /\ \E b \in 1 .. Len(Walking) : AllBut(k)[i] = Walking[b]
  <1> DEFINE D == 0 .. region.words - 1
             n == Len(Walking)
             t(i) == IF i < k THEN i ELSE i + 1
             s == AllBut(k)
  <1>1. n \in Nat /\ Walking \in [1 .. n -> 1 .. region.words - 1] /\ \A a, b \in 1 .. n : Walking[a] = Walking[b] => a = b
    BY WalkingIs
  <1>2. s = [i \in 1 .. n - 1 |-> Walking[t(i)]]
    BY DEF AllBut
  <1> HIDE DEF n, s
  <1>3. k \in 1 .. n
    BY DEF n
  <1>4. \A i \in 1 .. n - 1 : t(i) \in 1 .. n /\ t(i) # k
    BY <1>1, <1>3
  <1>5. \A b \in 1 .. n : Walking[b] \in D
    <2> TAKE b \in 1 .. n
    <2>1. Walking[b] \in 1 .. region.words - 1
      BY <1>1
    <2> QED
      BY <2>1
  <1> HIDE DEF D, t
  <1>6. s \in [1 .. n - 1 -> D]
    BY <1>2, <1>4, <1>5
  <1>7. n - 1 \in Nat
    BY <1>1, <1>3
  <1>8. s \in Seq(D) /\ Len(s) = n - 1
    BY <1>6, <1>7, SeqDef, LenProperties
  <1>9. \A i \in 1 .. n - 1 : s[i] # Walking[k] /\ \E b \in 1 .. n : s[i] = Walking[b]
    BY <1>1, <1>2, <1>3, <1>4
  <1> QED
    BY <1>8, <1>9 DEF s, n, D

(* The address lines: nothing fails in good memory.                        *)
LEMMA AddressTestedIs ==
    ASSUME Tested, NEW run \in FairRuns
    PROVE  LET r == AddressTested(run)
           IN  /\ r \in FairRuns /\ (run.failures => r.failures)
               /\ fault.kind = "none" /\ ~run.ended => ~r.ended /\ r.failures = run.failures
  <1> DEFINE u == Len(Walking)
             W == [b \in DOMAIN Walking |-> Wr(Walking[b], AddressPattern)]
             w == Ran(run, W)
             start0 == Changing(w, 0, Walking)
             Body(f) == [k \in 0 .. u |-> IF k = 0 THEN start0 ELSE Changing(f[k - 1], Walking[k], AllBut(k))]
             F == [k \in 1 .. u |-> [r \in FairRuns |-> Changing(r, Walking[k], AllBut(k))]]
             Good(r) == ~r.ended /\ r.failures = run.failures /\ \A b \in 1 .. u : AtPattern(r, Walking[b])
  <1>0. /\ u \in Nat /\ DOMAIN Walking = 1 .. u /\ Walking \in Seq(0 .. region.words - 1)
        /\ \A b \in 1 .. u : Walking[b] \in 0 .. region.words - 1 /\ Walking[b] # 0
        /\ \A a, b \in 1 .. u : Walking[a] = Walking[b] => a = b
        /\ 0 \in 0 .. region.words - 1 /\ region.base \in Nat
    <2>1. /\ u \in Nat /\ Walking \in [1 .. u -> 1 .. region.words - 1] /\ Walking \in Seq(0 .. region.words - 1)
          /\ \A a, b \in 1 .. u : Walking[a] = Walking[b] => a = b
      BY WalkingIs
    <2>2. \A b \in 1 .. u : Walking[b] \in 1 .. region.words - 1
      BY <2>1
    <2>3. region.words \in Nat \ {0} /\ region.base \in Nat
      BY RegionIs
    <2>4. \A b \in 1 .. u : Walking[b] \in 0 .. region.words - 1 /\ Walking[b] # 0
      BY <2>2, <2>3
    <2> QED
      BY <2>1, <2>3, <2>4
  <1>a. AddressPattern \in Int /\ AddressPattern % TwoTo[DataLines] \in Values
    BY PatternIs
  <1> HIDE DEF u
  <1>1. /\ W \in Seq(Accesses) /\ Len(W) = u /\ OnlyStores(W)
        /\ \A b \in 1 .. u : Cell(W[b]) = CellOf(Walking[b]) /\ W[b].value = AddressPattern % TwoTo[DataLines]
    <2>1. W = [b \in 1 .. u |-> Wr(Walking[b], AddressPattern)]
      BY <1>0
    <2> HIDE DEF W
    <2>2. ASSUME NEW b \in 1 .. u
          PROVE  /\ W[b] \in Accesses /\ W[b].store /\ ~W[b].check /\ W[b].offset = Walking[b]
                 /\ W[b].value = AddressPattern % TwoTo[DataLines]
      <3> DEFINE o == Walking[b]
                 p == AddressPattern
      <3>1. o \in 0 .. region.words - 1 /\ p \in Int /\ W[b] = Wr(o, p)
        BY <1>0, <1>a, <2>1
      <3> HIDE DEF o, p
      <3>2. Wr(o, p) \in Accesses /\ Wr(o, p).store /\ ~Wr(o, p).check /\ Wr(o, p).offset = o /\ Wr(o, p).value = p % TwoTo[DataLines]
        BY <3>1, Forms
      <3> QED
        BY <3>1, <3>2 DEF o, p
    <2>3. W = [b \in 1 .. u |-> W[b]]
      BY <2>1
    <2>4. W \in [1 .. u -> Accesses]
      BY <2>2, <2>3
    <2>5. W \in Seq(Accesses) /\ Len(W) = u
      BY <1>0, <2>4, ScriptIs
    <2> QED
      BY <2>2, <2>5 DEF OnlyStores, Cell, CellOf
  <1> HIDE DEF W
  <1>2. run \in Runs /\ Fair(run)
    BY DEF FairRuns
  <1>3. w \in Runs /\ Fair(w) /\ (run.failures => w.failures)
    BY <1>1, <1>2, RanKeeps
  <1>4. ~run.ended => ~w.ended /\ w.failures = run.failures /\ StoredBy(w, W, u)
    BY <1>1, <1>2, Written
  <1> HIDE DEF w
  <1>5. fault.kind = "none" => \A a, b \in 0 .. region.words - 1 : CellOf(a) = CellOf(b) => a = b
    <2> SUFFICES ASSUME fault.kind = "none", NEW a \in 0 .. region.words - 1, NEW b \in 0 .. region.words - 1,
                        CellOf(a) = CellOf(b)
                 PROVE  a = b
      OBVIOUS
    <2>1. CellOf(a) = region.base + a /\ CellOf(b) = region.base + b
      BY CellOfIs
    <2> DEFINE x == region.base
    <2>2. x \in Int
      BY <1>0
    <2>3. a \in Int /\ b \in Int
      OBVIOUS
    <2>4. x + a = x + b
      BY <2>1
    <2> HIDE DEF x
    <2> QED
      BY <2>2, <2>3, <2>4
  <1>6. fault.kind = "none" /\ ~run.ended => Good(w)
    <2> SUFFICES ASSUME fault.kind = "none", ~run.ended, NEW b \in 1 .. u PROVE AtPattern(w, Walking[b])
      BY <1>4
    <2>1. PICK j \in b .. u : Cell(W[j]) = Cell(W[b]) /\ w.words[Cell(W[b])] = Held(Cell(W[b]), W[j].value)
      BY <1>4 DEF StoredBy
    <2>2. j \in 1 .. u
      BY <1>0
    <2>3. W[j].value = AddressPattern % TwoTo[DataLines] /\ Cell(W[b]) = CellOf(Walking[b]) /\ CellOf(Walking[b]) \in WordAddresses
      BY <1>0, <1>1, <2>2, CellOfIs
    <2>4. Held(CellOf(Walking[b]), AddressPattern % TwoTo[DataLines]) = AddressPattern % TwoTo[DataLines]
      BY <1>a, <2>3, ValuesHeld
    <2> QED
      BY <2>1, <2>3, <2>4 DEF AtPattern
  <1>7. ASSUME NEW r \in FairRuns, NEW o \in 0 .. region.words - 1, NEW offsets \in Seq(0 .. region.words - 1),
               \A i \in 1 .. Len(offsets) : offsets[i] # o /\ \E b \in 1 .. u : offsets[i] = Walking[b]
        PROVE  LET q == Changing(r, o, offsets)
               IN  /\ q \in FairRuns /\ (r.failures => q.failures)
                   /\ fault.kind = "none" /\ Good(r) => Good(q)
    <2> DEFINE q == Changing(r, o, offsets)
    <2>1. r \in Runs /\ Fair(r)
      BY DEF FairRuns
    <2>2. /\ q \in Runs /\ Fair(q) /\ (r.failures => q.failures)
          /\ /\ fault.kind = "none" /\ ~r.ended
             /\ \A i \in 1 .. Len(offsets) : offsets[i] # o /\ AtPattern(r, offsets[i])
             => /\ ~q.ended /\ q.failures = r.failures /\ AtPattern(q, o)
                /\ \A c \in WordAddresses \ {CellOf(o)} : q.words[c] = r.words[c]
      BY <2>1, ChangingIs
    <2> HIDE DEF q
    <2>3. ASSUME fault.kind = "none", Good(r) PROVE Good(q)
      <3>1. \A i \in 1 .. Len(offsets) : offsets[i] # o /\ AtPattern(r, offsets[i])
        BY <1>7, <2>3
      <3>2. /\ ~q.ended /\ q.failures = run.failures /\ AtPattern(q, o)
            /\ \A c \in WordAddresses \ {CellOf(o)} : q.words[c] = r.words[c]
        BY <2>2, <2>3, <3>1
      <3>3. ASSUME NEW b \in 1 .. u PROVE AtPattern(q, Walking[b])
        <4> DEFINE z == Walking[b]
        <4>1. z \in 0 .. region.words - 1 /\ AtPattern(r, z)
          BY <1>0, <2>3
        <4> HIDE DEF z
        <4>2. CASE z = o
          BY <3>2, <4>2 DEF z
        <4>3. CASE z # o
          <5>1. CellOf(z) \in WordAddresses \ {CellOf(o)}
            BY <1>5, <2>3, <4>1, <4>3, CellOfIs
          <5>2. AtPattern(q, z)
            BY <3>2, <4>1, <5>1 DEF AtPattern
          <5> QED
            BY <5>2 DEF z
        <4> QED
          BY <4>2, <4>3
      <3> QED
        BY <3>2, <3>3
    <2>4. q \in FairRuns
      BY <2>2 DEF FairRuns
    <2> QED
      BY <2>2, <2>3, <2>4 DEF q
  <1> HIDE DEF Good
  <1>8. /\ start0 \in FairRuns /\ (run.failures => start0.failures)
        /\ fault.kind = "none" /\ ~run.ended => Good(start0)
    <2>1. w \in FairRuns
      BY <1>3 DEF FairRuns
    <2>2. \A i \in 1 .. Len(Walking) : Walking[i] # 0 /\ \E b \in 1 .. u : Walking[i] = Walking[b]
      BY <1>0 DEF u
    <2>3. /\ start0 \in FairRuns /\ (w.failures => start0.failures)
          /\ fault.kind = "none" /\ Good(w) => Good(start0)
      BY <1>0, <1>7, <2>1, <2>2
    <2> HIDE DEF start0
    <2> QED
      BY <1>3, <1>6, <2>3
  <1> HIDE DEF start0
  <1>9. ASSUME NEW k \in 1 .. u, NEW r \in FairRuns
        PROVE  LET q == Changing(r, Walking[k], AllBut(k))
               IN  /\ q \in FairRuns /\ (r.failures => q.failures)
                   /\ fault.kind = "none" /\ Good(r) => Good(q)
    <2> DEFINE o == Walking[k]
               s == AllBut(k)
    <2>1. s \in Seq(0 .. region.words - 1) /\ \A i \in 1 .. Len(s) : s[i] # o /\ \E b \in 1 .. u : s[i] = Walking[b]
      BY AllButIs DEF u
    <2>2. o \in 0 .. region.words - 1
      BY <1>0
    <2> HIDE DEF o, s
    <2>3. /\ Changing(r, o, s) \in FairRuns /\ (r.failures => Changing(r, o, s).failures)
          /\ fault.kind = "none" /\ Good(r) => Good(Changing(r, o, s))
      BY <1>7, <2>1, <2>2
    <2> QED
      BY <2>3 DEF o, s
  <1>10. F \in [1 .. u -> [FairRuns -> FairRuns]]
    BY <1>9
  <1>11. \A k \in 1 .. u, r \in FairRuns : F[k][r] = Changing(r, Walking[k], AllBut(k))
    OBVIOUS
  <1> HIDE DEF F
  <1>12. PICK f : Iterates(f, F, u, FairRuns, start0)
    BY <1>0, <1>8, <1>10, Iteration
  <1>13. f \in [0 .. u -> FairRuns] /\ f[0] = start0 /\ \A k \in 1 .. u : f[k] = F[k][f[k - 1]]
    BY <1>12 DEF Iterates
  <1>14. \A k \in 1 .. u : f[k] = Changing(f[k - 1], Walking[k], AllBut(k))
    <2> TAKE k \in 1 .. u
    <2>1. k - 1 \in 0 .. u
      BY <1>0
    <2>2. f[k - 1] \in FairRuns
      BY <1>13, <2>1
    <2> QED
      BY <1>11, <1>13, <2>2
  <1>15. \A k \in 0 .. u : f[k] = IF k = 0 THEN start0 ELSE Changing(f[k - 1], Walking[k], AllBut(k))
    BY <1>0, <1>13, <1>14
  <1>16. f = [k \in 0 .. u |-> f[k]]
    BY <1>13
  <1>17. f = Body(f)
    BY <1>15, <1>16
  <1> DEFINE after == CHOOSE g : g = Body(g)
  <1>18. after = Body(after)
    BY <1>17
  <1>19. AddressTested(run) = after[u]
    BY DEF AddressTested, u, start0, w, W
  <1> HIDE DEF after
  <1>20. \A k \in 0 .. u : after[k] = IF k = 0 THEN start0 ELSE Changing(after[k - 1], Walking[k], AllBut(k))
    BY <1>18
  <1> DEFINE R == {r \in FairRuns : (run.failures => r.failures) /\ (fault.kind = "none" /\ ~run.ended => Good(r))}
             S == [k \in 0 .. u |-> R]
  <1>21. after[0] \in S[0]
    BY <1>0, <1>8, <1>20
  <1>22. \A k \in 1 .. u : after[k - 1] \in S[k - 1] => after[k] \in S[k]
    <2> TAKE k \in 1 .. u
    <2>1. k \in 0 .. u /\ k - 1 \in 0 .. u /\ k # 0
      BY <1>0
    <2>2. after[k] = Changing(after[k - 1], Walking[k], AllBut(k))
      BY <1>20, <2>1
    <2> SUFFICES ASSUME after[k - 1] \in R PROVE after[k] \in R
      BY <2>1
    <2> DEFINE r == after[k - 1]
    <2>3. r \in FairRuns /\ (run.failures => r.failures) /\ (fault.kind = "none" /\ ~run.ended => Good(r))
      OBVIOUS
    <2> HIDE DEF r
    <2>4. /\ Changing(r, Walking[k], AllBut(k)) \in FairRuns /\ (r.failures => Changing(r, Walking[k], AllBut(k)).failures)
          /\ fault.kind = "none" /\ Good(r) => Good(Changing(r, Walking[k], AllBut(k)))
      BY <1>9, <2>3
    <2>5. Changing(r, Walking[k], AllBut(k)) \in R
      BY <2>3, <2>4
    <2> QED
      BY <2>2, <2>5 DEF r
  <1>23. u \in 0 .. u /\ S[u] = R
    BY <1>0
  <1> HIDE DEF S
  <1>24. after[u] \in S[u]
    BY <1>0, <1>21, <1>22, Along
  <1>25. after[u] \in R
    BY <1>23, <1>24
  <1> QED
    BY <1>19, <1>25 DEF Good

(* Every word is checked and changed.                                      *)
Sweep(e, v) == [i \in 1 .. region.words |-> RLastThenWr(i - 1, e[i], v[i])]
Numbered == [1 .. region.words -> Int]

(* The accesses of a sweep.                                                *)
LEMMA SweepForms ==
    ASSUME Tested, NEW o \in 0 .. region.words - 1, NEW v \in Int, NEW w \in Int
    PROVE  /\ RLastThenWr(o, v, w) \in Accesses
           /\ RLastThenWr(o, v, w).store /\ RLastThenWr(o, v, w).check
           /\ RLastThenWr(o, v, w).offset = o /\ RLastThenWr(o, v, w).expect = v % TwoTo[DataLines]
           /\ RLastThenWr(o, v, w).value = w % TwoTo[DataLines]
  BY Forms

(* A sweep is a script.                                                    *)
LEMMA SweepIs ==
    ASSUME Tested, NEW e \in Numbered, NEW v \in Numbered
    PROVE  /\ Sweep(e, v) \in Seq(Accesses) /\ Len(Sweep(e, v)) = region.words
           /\ \A i \in 1 .. region.words :
                  /\ Sweep(e, v)[i] \in Accesses /\ Sweep(e, v)[i].store /\ Sweep(e, v)[i].check
                  /\ Cell(Sweep(e, v)[i]) = CellAt(i)
                  /\ Sweep(e, v)[i].expect = e[i] % TwoTo[DataLines] /\ Sweep(e, v)[i].value = v[i] % TwoTo[DataLines]
  <1> DEFINE n == region.words
             s == Sweep(e, v)
  <1>1. n \in Nat \ {0} /\ region.base \in Nat
    BY RegionIs
  <1>2. s = [i \in 1 .. n |-> RLastThenWr(i - 1, e[i], v[i])]
    BY DEF Sweep
  <1>3. \A i \in 1 .. n : i - 1 \in 0 .. n - 1 /\ e[i] \in Int /\ v[i] \in Int /\ region.base + (i - 1) = region.base + i - 1
    BY <1>1 DEF Numbered
  <1> HIDE DEF s, n
  <1>4. ASSUME NEW i \in 1 .. n
        PROVE  /\ s[i] \in Accesses /\ s[i].store /\ s[i].check /\ s[i].offset = i - 1
               /\ s[i].expect = e[i] % TwoTo[DataLines] /\ s[i].value = v[i] % TwoTo[DataLines]
    <2> DEFINE o == i - 1
               x == e[i]
               y == v[i]
    <2>1. o \in 0 .. region.words - 1 /\ x \in Int /\ y \in Int
      BY <1>3 DEF n
    <2>2. s[i] = RLastThenWr(o, x, y)
      BY <1>2
    <2> HIDE DEF o, x, y
    <2>3. /\ RLastThenWr(o, x, y) \in Accesses /\ RLastThenWr(o, x, y).store /\ RLastThenWr(o, x, y).check
          /\ RLastThenWr(o, x, y).offset = o /\ RLastThenWr(o, x, y).expect = x % TwoTo[DataLines]
          /\ RLastThenWr(o, x, y).value = y % TwoTo[DataLines]
      BY <2>1, SweepForms
    <2> QED
      BY <2>2, <2>3 DEF o, x, y
  <1>5. s \in [1 .. n -> Accesses]
    <2>1. s = [i \in 1 .. n |-> s[i]]
      BY <1>2
    <2> QED
      BY <1>4, <2>1
  <1>6. s \in Seq(Accesses) /\ Len(s) = n
    BY <1>1, <1>5, ScriptIs
  <1>7. \A i \in 1 .. n : Cell(s[i]) = CellAt(i)
    BY <1>3, <1>4 DEF Cell, CellAt
  <1> QED
    BY <1>4, <1>6, <1>7 DEF s, n

(* What a sweep without a failure says of the memory before and after it.  *)
LEMMA Swept ==
    ASSUME Tested, NEW run \in FairRuns, NEW e \in Numbered, NEW v \in Numbered
    PROVE  LET r == Ran(run, Sweep(e, v))
               n == region.words
           IN  /\ r \in FairRuns /\ (run.failures => r.failures)
               /\ ~r.failures =>
                      /\ \A i \in 1 .. n : (\A j \in 1 .. i - 1 : CellAt(j) # CellAt(i)) =>
                             run.words[CellAt(i)] = e[i] % TwoTo[DataLines]
                      /\ \A i \in 1 .. n : (\A j \in i + 1 .. n : CellAt(j) # CellAt(i)) =>
                             r.words[CellAt(i)] = Held(CellAt(i), v[i] % TwoTo[DataLines])
  <1> DEFINE n == region.words
             s == Sweep(e, v)
             r == Ran(run, s)
             x(i) == e[i] % TwoTo[DataLines]
             y(i) == v[i] % TwoTo[DataLines]
  <1>0. n \in Nat /\ run \in Runs /\ Fair(run)
    BY RegionIs DEF FairRuns
  <1>1. /\ s \in Seq(Accesses) /\ Len(s) = n
        /\ \A i \in 1 .. n : /\ s[i] \in Accesses /\ s[i].store /\ s[i].check /\ Cell(s[i]) = CellAt(i)
                             /\ s[i].expect = x(i) /\ s[i].value = y(i)
    BY SweepIs
  <1> HIDE DEF s, n, x, y
  <1>2. r \in Runs /\ Fair(r) /\ (run.failures => r.failures)
    BY <1>0, <1>1, RanKeeps
  <1>3. PICK f : Course(f, run, s) /\ r = f[n]
    BY <1>0, <1>1, RanIs
  <1> HIDE DEF r
  <1>4. f \in [0 .. n -> Runs] /\ f[0] = run /\ \A k \in 1 .. n : f[k] = Access(f[k - 1], s[k])
    BY <1>1, <1>3 DEF Course
  <1>5. \A i \in 1 .. n : CellAt(i) \in WordAddresses
    BY CellsAt DEF n
  <1>6. ASSUME ~r.failures, NEW i \in 1 .. n
        PROVE  ~f[i - 1].ended /\ Passes(f[i - 1], s[i])
    <2>1. i - 1 \in 0 .. Len(s) /\ n \in i - 1 .. Len(s) /\ i \in 1 .. Len(s)
      BY <1>0, <1>1
    <2>2. Passes(f[i - 1], s[i])
      BY <1>0, <1>1, <1>3, <1>6, <2>1, FailedSomewhere
    <2>3. Fair(f[i - 1]) /\ (f[i - 1].failures => f[n].failures)
      BY <1>0, <1>1, <1>3, <2>1, FailuresStay
    <2> QED
      BY <1>3, <1>6, <2>2, <2>3 DEF Fair
  <1>7. ASSUME ~r.failures, NEW i \in 1 .. n, \A j \in 1 .. i - 1 : CellAt(j) # CellAt(i)
        PROVE  run.words[CellAt(i)] = x(i)
    <2>1. 0 \in 0 .. Len(s) /\ i - 1 \in 0 .. Len(s) /\ \A k \in 0 + 1 .. i - 1 : k \in 1 .. n /\ k \in 1 .. i - 1
      BY <1>0, <1>1
    <2> DEFINE c == CellAt(i)
    <2>2. c \in WordAddresses /\ \A k \in 0 + 1 .. i - 1 : Cell(s[k]) # c
      BY <1>1, <1>5, <1>7, <2>1
    <2> HIDE DEF c
    <2>3. f[i - 1].words[c] = f[0].words[c]
      BY <1>1, <1>3, <2>1, <2>2, Untouched
    <2>4. f[i - 1].words[c] = x(i)
      BY <1>1, <1>6, <1>7 DEF Passes, c
    <2> QED
      BY <1>4, <2>3, <2>4 DEF c
  <1>8. ASSUME ~r.failures, NEW i \in 1 .. n, \A j \in i + 1 .. n : CellAt(j) # CellAt(i)
        PROVE  r.words[CellAt(i)] = Held(CellAt(i), y(i))
    <2> DEFINE c == CellAt(i)
               a == f[i - 1]
               acc == s[i]
    <2>1. i \in 0 .. Len(s) /\ i - 1 \in 0 .. n /\ n \in i .. Len(s) /\ \A k \in i + 1 .. n : k \in 1 .. n
      BY <1>0, <1>1
    <2>2. c \in WordAddresses /\ \A k \in i + 1 .. n : Cell(s[k]) # c
      BY <1>1, <1>5, <1>8, <2>1
    <2>3. a \in Runs /\ ~a.ended /\ Passes(a, acc)
      BY <1>4, <1>6, <1>8, <2>1
    <2>4. acc \in Accesses /\ acc.store /\ Cell(acc) = c /\ acc.value = y(i) /\ f[i] = Access(a, acc)
      BY <1>1, <1>4
    <2> HIDE DEF c, a, acc
    <2>5. Access(a, acc).words = [a.words EXCEPT ![Cell(acc)] = Held(Cell(acc), acc.value)]
      BY <2>3, <2>4, AccessIs
    <2>6. f[i].words[c] = Held(c, y(i))
      BY <2>2, <2>3, <2>4, <2>5 DEF Runs
    <2>7. f[n].words[c] = f[i].words[c]
      BY <1>1, <1>3, <2>1, <2>2, Untouched
    <2> QED
      BY <1>3, <2>6, <2>7 DEF c
  <1>9. r \in FairRuns
    BY <1>2 DEF FairRuns
  <1> QED
    BY <1>2, <1>7, <1>8, <1>9 DEF r, s, n, x, y

(* In good memory a sweep finds what was written before it.                *)
LEMMA SweptGood ==
    ASSUME Tested, fault.kind = "none", NEW run \in Runs, ~run.ended, NEW e \in Numbered, NEW v \in Numbered,
           \A i \in 1 .. region.words : run.words[CellAt(i)] = e[i] % TwoTo[DataLines]
    PROVE  LET r == Ran(run, Sweep(e, v))
           IN  /\ ~r.ended /\ r.failures = run.failures
               /\ \A i \in 1 .. region.words : r.words[CellAt(i)] = v[i] % TwoTo[DataLines]
  <1> DEFINE n == region.words
             s == Sweep(e, v)
             x(i) == e[i] % TwoTo[DataLines]
             y(i) == v[i] % TwoTo[DataLines]
             R(k) == {r \in Runs : /\ ~r.ended /\ r.failures = run.failures
                                   /\ \A i \in 1 .. n : r.words[CellAt(i)] = IF i <= k THEN y(i) ELSE x(i)}
             S == [k \in 0 .. n |-> R(k)]
  <1>0. n \in Nat
    BY RegionIs
  <1>1. /\ s \in Seq(Accesses) /\ Len(s) = n
        /\ \A i \in 1 .. n : /\ s[i] \in Accesses /\ s[i].store /\ s[i].check /\ Cell(s[i]) = CellAt(i)
                             /\ s[i].expect = x(i) /\ s[i].value = y(i)
    BY SweepIs
  <1>2. \A i \in 1 .. n : y(i) \in Values
    <2> TAKE i \in 1 .. n
    <2>1. v[i] \in Int
      BY DEF Numbered
    <2> QED
      BY <2>1, ValuesAre
  <1>3. \A i \in 1 .. n : run.words[CellAt(i)] = x(i)
    OBVIOUS
  <1>4. \A i, j \in 1 .. n : CellAt(i) \in WordAddresses /\ (CellAt(i) = CellAt(j) => i = j)
    BY CellsAt
  <1> HIDE DEF s, n, x, y
  <1>5. PICK f : Course(f, run, s) /\ Ran(run, s) = f[n]
    BY <1>1, RanIs
  <1>6. f \in [0 .. n -> Runs] /\ f[0] = run
    BY <1>1, <1>5 DEF Course
  <1>7. f[0] \in S[0]
    BY <1>0, <1>3, <1>6
  <1>8. ASSUME NEW k \in 1 .. n, f[k - 1] \in S[k - 1] PROVE Access(f[k - 1], s[k]) \in S[k]
    <2> DEFINE r == f[k - 1]
               acc == s[k]
               c == CellAt(k)
               q == Access(r, acc)
    <2>0. k \in Nat /\ k - 1 \in 0 .. n /\ k \in 0 .. n
      BY <1>0
    <2>1. /\ r \in Runs /\ ~r.ended /\ r.failures = run.failures
          /\ \A i \in 1 .. n : r.words[CellAt(i)] = IF i <= k - 1 THEN y(i) ELSE x(i)
      BY <1>8, <2>0
    <2>2. acc \in Accesses /\ acc.store /\ Cell(acc) = c /\ acc.expect = x(k) /\ acc.value = y(k) /\ c \in WordAddresses
      BY <1>1, <1>4
    <2>3. Passes(r, acc)
      BY <2>0, <2>1, <2>2 DEF Passes
    <2> HIDE DEF r, acc
    <2>4. /\ q \in Runs /\ ~q.ended /\ q.failures = run.failures
          /\ q.words = [r.words EXCEPT ![c] = Held(c, y(k))]
      BY <2>1, <2>2, <2>3, AccessIs
    <2>5. Held(c, y(k)) = y(k)
      BY <1>2, <2>2, ValuesHeld
    <2>6. q.words[c] = y(k) /\ \A d \in WordAddresses \ {c} : q.words[d] = r.words[d]
      BY <2>1, <2>2, <2>4, <2>5 DEF Runs
    <2> HIDE DEF q
    <2>7. ASSUME NEW i \in 1 .. n PROVE q.words[CellAt(i)] = IF i <= k THEN y(i) ELSE x(i)
      <3>1. CASE i = k
        BY <2>6, <3>1
      <3>2. CASE i # k
        <4>1. CellAt(i) \in WordAddresses \ {c}
          BY <1>4, <3>2
        <4>2. i <= k <=> i <= k - 1
          BY <2>0, <3>2
        <4> QED
          BY <2>1, <2>6, <4>1, <4>2
      <3> QED
        BY <3>1, <3>2
    <2>8. q \in R(k) /\ S[k] = R(k)
      BY <2>0, <2>4, <2>7
    <2> QED
      BY <2>8 DEF q, r, acc
  <1>9. S[n] = R(n)
    BY <1>0
  <1> HIDE DEF S
  <1>10. \A k \in 0 + 1 .. n : f[k - 1] \in S[k - 1] => Access(f[k - 1], s[k]) \in S[k]
    BY <1>8
  <1>11. 0 \in 0 .. Len(s) /\ n \in 0 .. Len(s)
    BY <1>0, <1>1
  <1>12. f[n] \in S[n]
    BY <1>1, <1>5, <1>7, <1>10, <1>11, CourseKeeps
  <1>13. f[n] \in R(n)
    BY <1>9, <1>12
  <1>14. \A i \in 1 .. n : f[n].words[CellAt(i)] = y(i)
    <2> TAKE i \in 1 .. n
    <2>1. i <= n
      BY <1>0
    <2> QED
      BY <1>13, <2>1
  <1> QED
    BY <1>5, <1>13, <1>14 DEF s, n, y

(* What the sweeps write.                                                  *)
Numbers == [i \in 1 .. region.words |-> i]
InvertedNumbers == [i \in 1 .. region.words |-> Inverted(i)]
Zeros == [i \in 1 .. region.words |-> 0]

(* Numbers and their inverses differ from word to word.                    *)
LEMMA NumbersAre ==
    ASSUME Tested
    PROVE  /\ Numbers \in Numbered /\ InvertedNumbers \in Numbered /\ Zeros \in Numbered
           /\ \A i \in 1 .. region.words :
                  /\ i \in Values /\ Inverted(i) \in Values
                  /\ Numbers[i] % TwoTo[DataLines] = i
                  /\ InvertedNumbers[i] % TwoTo[DataLines] = Inverted(i)
  <1>1. region.words \in Nat /\ region.words < TwoTo[DataLines] /\ TwoTo[DataLines] \in Nat \ {0}
    BY Widths, RegionIs
  <1>2. ASSUME NEW i \in 1 .. region.words PROVE i \in Values /\ i \in Int
    BY <1>1 DEF Values
  <1>3. ASSUME NEW i \in 1 .. region.words
        PROVE  Inverted(i) \in Values /\ Inverted(i) \in Int /\ i % TwoTo[DataLines] = i /\ Inverted(i) % TwoTo[DataLines] = Inverted(i)
    <2>1. i \in Values /\ i \in Int
      BY <1>2
    <2>2. Inverted(i) \in Values
      BY <2>1, ValuesAre
    <2> DEFINE y == Inverted(i)
    <2>3. y \in Values
      BY <2>2
    <2> HIDE DEF y
    <2>4. y % TwoTo[DataLines] = y /\ y \in Nat
      BY <2>3, ValuesAre
    <2>5. i % TwoTo[DataLines] = i
      BY <2>1, ValuesAre
    <2> QED
      BY <2>2, <2>4, <2>5 DEF y
  <1>4. Numbers \in Numbered /\ Zeros \in Numbered
    BY <1>2 DEF Numbers, Zeros, Numbered
  <1>5. InvertedNumbers \in Numbered
    BY <1>3 DEF InvertedNumbers, Numbered
  <1> QED
    BY <1>2, <1>3, <1>4, <1>5 DEF Numbers, InvertedNumbers

(* Every word: two that are the same and a bit that is stuck are found.    *)
LEMMA WordsTestedIs ==
    ASSUME Tested, NEW run \in FairRuns
    PROVE  LET r == WordsTested(run)
           IN  /\ r \in FairRuns /\ (run.failures => r.failures)
               /\ fault.kind = "none" /\ ~run.ended => r.failures = run.failures
               /\ fault.kind \in {"address", "shorted"} /\ (\E i, j \in 1 .. region.words : Aliased(i, j)) => r.failures
               /\ fault.kind = "cell" /\ (\E i \in 1 .. region.words : StuckAt(i)) => r.failures
  <1> DEFINE n == region.words
             w0 == Ran(run, Writing(Numbers))
             w1 == Ran(w0, Sweep(Numbers, InvertedNumbers))
             w2 == Ran(w1, Sweep(InvertedNumbers, Zeros))
  <1>0. n \in Nat /\ run \in Runs /\ Fair(run)
    BY RegionIs DEF FairRuns
  <1>1. WordsTested(run) = w2
    <2>1. Sweep(Numbers, InvertedNumbers) = [i \in 1 .. region.words |-> RLastThenWr(i - 1, i, Inverted(i))]
      BY DEF Sweep, Numbers, InvertedNumbers
    <2>2. Sweep(InvertedNumbers, Zeros) = [i \in 1 .. region.words |-> RLastThenWr(i - 1, Inverted(i), 0)]
      BY DEF Sweep, InvertedNumbers, Zeros
    <2> QED
      BY <2>1, <2>2 DEF WordsTested, Numbers
  <1>2. /\ Numbers \in Numbered /\ InvertedNumbers \in Numbered /\ Zeros \in Numbered
        /\ \A i \in 1 .. n : /\ i \in Values /\ Inverted(i) \in Values
                             /\ Numbers[i] % TwoTo[DataLines] = i
                             /\ InvertedNumbers[i] % TwoTo[DataLines] = Inverted(i)
    BY NumbersAre
  <1>3. w0 \in Runs /\ Fair(w0) /\ (run.failures => w0.failures)
    <2>1. Writing(Numbers) \in Seq(Accesses)
      BY <1>2, InOrder DEF Numbered
    <2> QED
      BY <1>0, <2>1, RanKeeps
  <1>4. ~run.ended =>
            /\ ~w0.ended /\ w0.failures = run.failures
            /\ \A i \in 1 .. n : \E j \in i .. n : CellAt(j) = CellAt(i) /\ w0.words[CellAt(i)] = Held(CellAt(i), j)
    <2> SUFFICES ASSUME ~run.ended
                 PROVE  /\ ~w0.ended /\ w0.failures = run.failures
                        /\ \A i \in 1 .. n :
                               \E j \in i .. n : CellAt(j) = CellAt(i) /\ w0.words[CellAt(i)] = Held(CellAt(i), j)
      OBVIOUS
    <2> DEFINE v == Numbers
    <2>1. v \in [1 .. region.words -> Int]
      BY <1>2 DEF Numbered
    <2>2. \A i \in 1 .. n : v[i] % TwoTo[DataLines] = i
      BY <1>2
    <2> HIDE DEF v
    <2> DEFINE w == Ran(run, Writing(v))
    <2>3. /\ ~w.ended /\ w.failures = run.failures
          /\ \A i \in 1 .. n :
                 \E j \in i .. n : CellAt(j) = CellAt(i) /\ w.words[CellAt(i)] = Held(CellAt(i), v[j] % TwoTo[DataLines])
      BY <1>0, <2>1, ReadBack
    <2> HIDE DEF w
    <2>4. ASSUME NEW i \in 1 .. n PROVE \E j \in i .. n : CellAt(j) = CellAt(i) /\ w.words[CellAt(i)] = Held(CellAt(i), j)
      <3>1. PICK j \in i .. n : CellAt(j) = CellAt(i) /\ w.words[CellAt(i)] = Held(CellAt(i), v[j] % TwoTo[DataLines])
        BY <2>3
      <3>2. j \in 1 .. n
        BY <1>0
      <3> QED
        BY <2>2, <3>1, <3>2
    <2> QED
      BY <2>3, <2>4 DEF w, v
  <1> HIDE DEF w0
  <1>5. w0 \in FairRuns
    BY <1>3 DEF FairRuns
  <1>6. /\ w1 \in FairRuns /\ (w0.failures => w1.failures)
        /\ ~w1.failures =>
               /\ \A i \in 1 .. n : (\A j \in 1 .. i - 1 : CellAt(j) # CellAt(i)) =>
                      w0.words[CellAt(i)] = Numbers[i] % TwoTo[DataLines]
               /\ \A i \in 1 .. n : (\A j \in i + 1 .. n : CellAt(j) # CellAt(i)) =>
                      w1.words[CellAt(i)] = Held(CellAt(i), InvertedNumbers[i] % TwoTo[DataLines])
    BY <1>2, <1>5, Swept
  <1>7. ASSUME fault.kind = "none", ~run.ended
        PROVE  /\ ~w1.ended /\ w1.failures = w0.failures
               /\ \A i \in 1 .. n : w1.words[CellAt(i)] = InvertedNumbers[i] % TwoTo[DataLines]
    <2>1. ASSUME NEW i \in 1 .. n PROVE w0.words[CellAt(i)] = Numbers[i] % TwoTo[DataLines]
      <3>1. PICK j \in i .. n : CellAt(j) = CellAt(i) /\ w0.words[CellAt(i)] = Held(CellAt(i), j)
        BY <1>4, <1>7
      <3>2. j \in 1 .. n
        BY <1>0
      <3>3. j = i /\ CellAt(i) \in WordAddresses
        BY <1>7, <3>1, <3>2, CellsAt
      <3> QED
        BY <1>2, <1>7, <3>1, <3>3, ValuesHeld
    <2> QED
      BY <1>2, <1>3, <1>4, <1>7, <2>1, SweptGood
  <1> HIDE DEF w1
  <1>8. /\ w2 \in FairRuns /\ (w1.failures => w2.failures)
        /\ ~w2.failures =>
               \A i \in 1 .. n : (\A j \in 1 .. i - 1 : CellAt(j) # CellAt(i)) =>
                      w1.words[CellAt(i)] = InvertedNumbers[i] % TwoTo[DataLines]
    BY <1>2, <1>6, Swept
  <1>9. ASSUME fault.kind = "none", ~run.ended PROVE w2.failures = run.failures
    <2>1. w1 \in Runs
      BY <1>6 DEF FairRuns
    <2>2. w2.failures = w1.failures
      BY <1>2, <1>7, <1>9, <2>1, SweptGood
    <2> QED
      BY <1>4, <1>7, <1>9, <2>2
  <1> HIDE DEF w2
  <1>10. ASSUME ~w2.failures PROVE ~w1.failures /\ ~run.ended
    BY <1>0, <1>3, <1>6, <1>8, <1>10 DEF Fair
  <1>11. ASSUME fault.kind \in {"address", "shorted"}, NEW i \in 1 .. n, NEW j \in 1 .. n, Aliased(i, j), ~w2.failures
         PROVE  FALSE
    <2> DEFINE T == {k \in 1 .. n : CellAt(k) = CellAt(i)}
    <2>1. T \in SUBSET Nat /\ T # {}
      OBVIOUS
    <2>2. PICK a \in T : \A k \in T : a <= k
      <3> HIDE DEF T
      <3> QED
        BY <2>1, LeastNumber
    <2>3. a \in 1 .. n /\ a \in Nat /\ CellAt(a) = CellAt(i) /\ \A k \in 1 .. a - 1 : CellAt(k) # CellAt(a)
      <3>1. a \in 1 .. n /\ a \in Nat /\ CellAt(a) = CellAt(i)
        BY <2>2
      <3>2. ASSUME NEW k \in 1 .. a - 1, CellAt(k) = CellAt(a) PROVE FALSE
        <4>1. k \in 1 .. n /\ k < a
          BY <1>0, <3>1
        <4>2. k \in T
          BY <3>1, <3>2, <4>1
        <4> QED
          BY <2>2, <3>1, <4>1, <4>2
      <3> QED
        BY <3>1, <3>2
    <2>4. PICK b \in {i, j} : b # a
      BY <1>11 DEF Aliased
    <2>5. b \in 1 .. n /\ CellAt(b) = CellAt(a) /\ b > a
      <3>1. b \in 1 .. n /\ CellAt(b) = CellAt(a) /\ b \in T
        BY <1>11, <2>3, <2>4 DEF Aliased
      <3>2. a <= b
        BY <2>2, <3>1
      <3> QED
        BY <2>3, <2>4, <3>1, <3>2
    <2>6. PICK c \in b .. n : w0.words[CellAt(b)] = Held(CellAt(b), c)
      BY <1>4, <1>10, <1>11, <2>5
    <2>7. c \in 1 .. n /\ c > a
      BY <1>0, <2>3, <2>5
    <2>8. Held(CellAt(b), c) = c
      <3>1. CellAt(b) \in WordAddresses /\ c \in Values
        BY <1>2, <2>5, <2>7, CellsAt
      <3> QED
        BY <1>11, <3>1, ValuesHeld
    <2>9. w0.words[CellAt(a)] = a
      BY <1>2, <1>6, <1>10, <1>11, <2>3
    <2> QED
      BY <2>5, <2>6, <2>7, <2>8, <2>9
  <1>12. ASSUME fault.kind = "cell", NEW i \in 1 .. n, StuckAt(i), ~w2.failures
         PROVE  FALSE
    <2> DEFINE c == CellAt(i)
    <2>1. /\ c \in WordAddresses /\ c = fault.other /\ i \in Values /\ Inverted(i) \in Values
          /\ \A j \in 1 .. n : CellAt(j) = c => j = i
      BY <1>2, <1>12, CellsAt DEF StuckAt
    <2>2. (\A j \in 1 .. i - 1 : CellAt(j) # CellAt(i)) /\ (\A j \in i + 1 .. n : CellAt(j) # CellAt(i))
      <3>1. \A j \in 1 .. i - 1 : j \in 1 .. n /\ j # i
        BY <1>0
      <3>2. \A j \in i + 1 .. n : j \in 1 .. n /\ j # i
        BY <1>0
      <3> QED
        BY <2>1, <3>1, <3>2
    <2>3. w0.words[c] = i /\ w1.words[c] = Held(c, Inverted(i)) /\ w1.words[c] = Inverted(i)
      BY <1>2, <1>6, <1>8, <1>10, <1>12, <2>2
    <2>4. PICK j \in i .. n : CellAt(j) = c /\ w0.words[c] = Held(c, j)
      BY <1>4, <1>10, <1>12
    <2>5. j = i
      <3>1. j \in 1 .. n
        BY <1>0
      <3> QED
        BY <2>1, <2>4, <3>1
    <2> HIDE DEF c
    <2>6. Held(c, i) = i /\ Held(c, Inverted(i)) = Inverted(i)
      BY <2>3, <2>4, <2>5
    <2>7. BitOf(i, fault.line) = fault.level /\ BitOf(Inverted(i), fault.line) = fault.level
      BY <1>12, <2>1, <2>6, ValuesHeld
    <2>8. fault.line \in 0 .. DataLines - 1
      BY <1>12, FaultKinds
    <2>9. BitOf(Inverted(i), fault.line) = 1 - BitOf(i, fault.line) /\ BitOf(i, fault.line) \in {0, 1}
      BY <2>1, <2>8, ValuesAre
    <2> QED
      BY <2>7, <2>9
  <1> QED
    BY <1>1, <1>3, <1>6, <1>8, <1>9, <1>11, <1>12

(* The inductive invariant of mtest.                                       *)
MemTestInv ==
    /\ TestTypes
    /\ fault.kind = "none" => ~failures
    /\ ~alternate => QuickInv
    /\ alternate /\ passes >= 1 /\ Shows => failures

(* The alternate pass finds what shows, and nothing in good memory.        *)
LEMMA AlternateIs ==
    ASSUME TestTypes
    PROVE  LET r == WordsTested(AddressTested(DataTested(NewRun)))
           IN  /\ r \in FairRuns /\ (failures => r.failures)
               /\ fault.kind = "none" => r.failures = failures
               /\ Shows => r.failures
  <1> DEFINE d == DataTested(NewRun)
             a == AddressTested(d)
             r == WordsTested(a)
  <1>0. Tested /\ NewRun \in Runs /\ ~NewRun.ended /\ Fair(NewRun) /\ NewRun.failures = failures
    BY NewRunIs DEF TestTypes
  <1>1. /\ d \in Runs /\ Fair(d) /\ (failures => d.failures)
        /\ fault.kind = "none" => d.failures = failures /\ ~d.ended
        /\ fault.kind = "data" => d.failures
    BY <1>0, DataTestedIs
  <1> HIDE DEF d
  <1>2. d \in FairRuns
    BY <1>1 DEF FairRuns
  <1>3. /\ a \in FairRuns /\ (d.failures => a.failures)
        /\ fault.kind = "none" /\ ~d.ended => ~a.ended /\ a.failures = d.failures
    BY <1>0, <1>2, AddressTestedIs
  <1> HIDE DEF a
  <1>4. /\ r \in FairRuns /\ (a.failures => r.failures)
        /\ fault.kind = "none" /\ ~a.ended => r.failures = a.failures
        /\ fault.kind \in {"address", "shorted"} /\ (\E i, j \in 1 .. region.words : Aliased(i, j)) => r.failures
        /\ fault.kind = "cell" /\ (\E i \in 1 .. region.words : StuckAt(i)) => r.failures
    BY <1>0, <1>3, WordsTestedIs
  <1> HIDE DEF r
  <1>5. Shows => r.failures
    BY <1>0, <1>1, <1>3, <1>4, WhatShows
  <1> QED
    BY <1>1, <1>3, <1>4, <1>5 DEF r, a, d

(* The invariant of mtest holds at the start.                              *)
LEMMA MemTestStarts == MemTestInit => MemTestInv
  <1> SUFFICES ASSUME MemTestInit PROVE MemTestInv
    OBVIOUS
  <1>1. 0 \in Values
    BY Widths DEF Values
  <1>2. TestPatterns \subseteq Values
    BY MemTestAssumption DEF Values
  <1>3. TestTypes
    <2>1. first \in Values /\ pattern \in Values
      BY <1>1, <1>2 DEF MemTestInit
    <2>2. words \in [WordAddresses -> Values]
      BY <1>1 DEF MemTestInit
    <2> QED
      BY <2>1, <2>2 DEF MemTestInit, TestTypes, Tested
  <1>4. QuickInv
    BY DEF MemTestInit, QuickInv
  <1> QED
    BY <1>3, <1>4 DEF MemTestInit, MemTestInv

(* The alternate pass keeps it.                                            *)
LEMMA AlternateKeeps ==
    ASSUME MemTestInv, AlternatePass
    PROVE  MemTestInv'
  <1> DEFINE r == WordsTested(AddressTested(DataTested(NewRun)))
  <1>0. TestTypes /\ alternate
    BY DEF MemTestInv, AlternatePass
  <1>1. /\ words' = r.words /\ failures' = r.failures /\ ended' = r.ended /\ passes' = passes + 1
        /\ fault' = fault /\ region' = region /\ alternate' = alternate
        /\ pattern' = pattern /\ incr' = incr /\ first' = first
    BY DEF AlternatePass, Ends
  <1>2. /\ r \in FairRuns /\ (failures => r.failures) /\ (fault.kind = "none" => r.failures = failures)
        /\ Shows => r.failures
    BY <1>0, AlternateIs
  <1> HIDE DEF r
  <1>3. TestTypes'
    <2>1. r.words \in [WordAddresses -> Values] /\ r.failures \in BOOLEAN /\ r.ended \in BOOLEAN
      BY <1>2 DEF FairRuns, Runs
    <2>2. passes + 1 \in Nat
      BY <1>0 DEF TestTypes
    <2> QED
      BY <1>0, <1>1, <2>1, <2>2 DEF TestTypes, Tested, WordAddresses, Values, Faults, Stuck, Shorted
  <1>4. Shows' <=> Shows
    BY <1>1 DEF Shows, RegionCells, Selected, WithBit, BitOf
  <1> QED
    BY <1>0, <1>1, <1>2, <1>3, <1>4 DEF MemTestInv

(* Ctrl-C keeps it.                                                        *)
LEMMA CtrlCKeeps ==
    ASSUME MemTestInv, UNCHANGED <<fault, region, alternate, words, pattern, incr, first, passes, failures>>, ended' \in BOOLEAN
    PROVE  MemTestInv'
  <1>1. TestTypes'
    BY DEF MemTestInv, TestTypes, Tested, WordAddresses, Values, Faults, Stuck, Shorted
  <1>2. Shows' <=> Shows
    BY DEF Shows, RegionCells, Selected, WithBit, BitOf
  <1>3. ~alternate => QuickInv'
    <2> SUFFICES ASSUME QuickInv PROVE QuickInv'
      BY DEF MemTestInv
    <2>1. \A i : (CellAt(i))' = CellAt(i)
      BY DEF CellAt, Selected, WithBit, BitOf
    <2>2. \A i : (StuckAt(i))' <=> StuckAt(i)
      BY <2>1 DEF StuckAt
    <2>3. \A i, j : (Aliased(i, j))' <=> Aliased(i, j)
      BY <2>1 DEF Aliased
    <2>4. \A i : ((FitsFirst(i))' <=> FitsFirst(i)) /\ ((FitsSecond(i))' <=> FitsSecond(i))
      BY DEF FitsFirst, FitsSecond, FitsLevel, BitOf, ValueWritten, Following, Top
    <2>5. (Following(first))' = Following(first) /\ (Following(Following(first)))' = Following(Following(first))
      BY DEF Following, Top, BitOf
    <2> QED
      BY <2>2, <2>3, <2>4, <2>5 DEF QuickInv
  <1> QED
    BY <1>1, <1>2, <1>3 DEF MemTestInv

(* Every step of mtest keeps it.                                           *)
LEMMA MemTestKeeps == MemTestInv /\ [MemTestNext]_memTestVars => MemTestInv'
  <1> SUFFICES ASSUME MemTestInv, [MemTestNext]_memTestVars PROVE MemTestInv'
    OBVIOUS
  <1>1. CASE QuickPass
    <2>1. TestTypes /\ QuickInv /\ ~alternate /\ alternate' = alternate /\ fault' = fault
      BY <1>1 DEF MemTestInv, QuickPass
    <2>2. TestTypes' /\ QuickInv' /\ (fault.kind = "none" /\ ~failures => ~failures')
      BY <1>1, <2>1, QuickKeeps
    <2> QED
      BY <2>1, <2>2 DEF MemTestInv
  <1>2. CASE AlternatePass
    BY <1>2, AlternateKeeps
  <1>3. CASE CtrlC
    BY <1>3, CtrlCKeeps DEF CtrlC
  <1>4. CASE UNCHANGED memTestVars
    <2>1. ended \in BOOLEAN
      BY DEF MemTestInv, TestTypes
    <2> QED
      BY <1>4, <2>1, CtrlCKeeps DEF memTestVars
  <1> QED
    BY <1>1, <1>2, <1>3, <1>4 DEF MemTestNext

(* It finds the faults in the passes that FaultIsFound names.              *)
LEMMA FaultsFound == MemTestInv => FaultIsFound
  <1> SUFFICES ASSUME MemTestInv PROVE FaultIsFound
    OBVIOUS
  <1>0. TestTypes /\ Tested /\ passes \in Nat /\ first \in Values /\ failures \in BOOLEAN
    BY DEF MemTestInv, TestTypes
  <1>1. ASSUME ~alternate, Shows, passes >= 1, ~failures
        PROVE  fault.kind \in {"data", "cell"} /\ \E i \in 1 .. region.words : StuckAt(i)
    <2>1. fault.kind \in {"address", "shorted"} => ~\E i, j \in 1 .. region.words : Aliased(i, j)
      BY <1>1 DEF MemTestInv, QuickInv
    <2> QED
      BY <1>0, <1>1, <2>1, WhatShows
  <1>2. ASSUME ~alternate, Shows, passes >= 3, first # TwoTo[DataLines - 1] PROVE failures
    <2> SUFFICES ASSUME ~failures PROVE FALSE
      OBVIOUS
    <2>1. fault.kind \in {"data", "cell"} /\ \E i \in 1 .. region.words : StuckAt(i)
      BY <1>0, <1>1, <1>2
    <2>2. PICK i \in 1 .. region.words : StuckAt(i)
      BY <2>1
    <2> QED
      BY <1>2, <2>1, <2>2 DEF MemTestInv, QuickInv
  <1>3. ASSUME ~alternate, Shows, passes >= 2, first = 0 PROVE failures
    <2>1. TwoTo[DataLines - 1] # 0
      BY Widths
    <2>2. CASE passes = 2
      <3> SUFFICES ASSUME ~failures PROVE FALSE
        OBVIOUS
      <3>1. fault.kind \in {"data", "cell"} /\ \E i \in 1 .. region.words : StuckAt(i)
        BY <1>0, <1>1, <1>3
      <3>2. PICK i \in 1 .. region.words : StuckAt(i)
        BY <3>1
      <3>3. Top(first) = 1
        BY <1>3, <2>2, <3>1, <3>2 DEF MemTestInv, QuickInv, FitsSecond
      <3>4. Top(0) = 0
        BY <1>0, Turn
      <3> QED
        BY <1>3, <3>3, <3>4
    <2> QED
      BY <1>0, <1>2, <1>3, <2>1, <2>2
  <1> QED
    BY <1>2, <1>3 DEF MemTestInv, FaultIsFound

-----------------------------------------------------------------------------
(* The memory commands.                                                    *)

(* Functions on the addresses, sizes of objects, what a copy repeats.      *)
OnAddresses(m) == m = [x \in Addresses |-> m[x]]
ObjectSizes == {1, 2, 4}
Period(from, a, n) == IF a \in from + 1 .. from + n - 1 THEN a - from ELSE n
(* What the copy of the first n bytes leaves at x.                         *)
CopiedAt(m, from, a, n, p, x) == IF x \in a .. a + n - 1 THEN m[from + ((x - a) % p)] ELSE m[x]

(* The places of a copy.                                                   *)
CopyFits(from, a, size, count) ==
    /\ size \in ObjectSizes /\ count \in Nat \ {0} /\ from \in Nat /\ a \in Nat
    /\ from + count * size <= MemSize /\ a + count * size <= MemSize
    /\ from % size = 0 /\ a % size = 0

(* The copy of one more object.                                            *)
LEMMA OneObject ==
    ASSUME NEW from, NEW a, NEW size, NEW count, CopyFits(from, a, size, count), NEW m, NEW g,
           NEW k \in 1 .. count,
           \A x \in Addresses : g[x] = CopiedAt(m, from, a, (k - 1) * size, Period(from, a, count * size), x),
           NEW x \in Addresses
    PROVE  Store(g, a + (k - 1) * size, LoadObject(g, from + (k - 1) * size, size))[x] =
               CopiedAt(m, from, a, k * size, Period(from, a, count * size), x)
  <1> DEFINE n == count * size
             q == (k - 1) * size
             p == Period(from, a, n)
             bytes == LoadObject(g, from + q, size)
             b == a + q
  <1>0. /\ MemSize \in Nat \ {0} /\ Addresses = 0 .. MemSize - 1
        /\ size \in ObjectSizes /\ size \in Nat \ {0} /\ from \in Nat /\ a \in Nat /\ from + n <= MemSize /\ a + n <= MemSize
        /\ k \in Nat /\ count \in Nat
    BY MemoryAssumption DEF CopyFits, ObjectSizes, Addresses
  <1>1. q \in Nat /\ k * size = q + size /\ q + size <= n /\ n \in Nat
    <2>1. size = 1 \/ size = 2 \/ size = 4
      BY <1>0 DEF ObjectSizes
    <2> QED
      BY <1>0, <2>1
  <1>2. a - from > 0 => a - from >= size
    <2>1. size = 1 \/ size = 2 \/ size = 4
      BY <1>0 DEF ObjectSizes
    <2>2. from % size = 0 /\ a % size = 0
      BY DEF CopyFits
    <2> QED
      BY <1>0, <2>1, <2>2
  <1>3. Len(bytes) = size /\ \A i \in 1 .. size : bytes[i] = g[from + q + i - 1]
    <2>1. bytes = [i \in 1 .. size |-> g[from + q + i - 1]]
      BY DEF LoadObject
    <2> QED
      BY <1>0, <2>1
  <1> HIDE DEF bytes
  <1>4. Store(g, b, bytes)[x] = IF x \in b .. b + size - 1 THEN bytes[x - b + 1] ELSE g[x]
    BY <1>3 DEF Store
  <1>5. x \in Int /\ \A y \in Addresses : g[y] = CopiedAt(m, from, a, q, p, y)
    BY <1>0
  <1>6. p = IF a \in from + 1 .. from + n - 1 THEN a - from ELSE n
    BY DEF Period
  <1>7. Store(g, b, bytes)[x] = CopiedAt(m, from, a, q + size, p, x)
    <2> HIDE DEF p, n, q
    <2>1. CASE x \notin b .. b + size - 1
      <3>1. x \in a .. a + (q + size) - 1 <=> x \in a .. a + q - 1
        BY <1>0, <1>1, <1>5, <2>1
      <3> QED
        BY <1>4, <1>5, <2>1, <3>1 DEF CopiedAt
    <2>2. CASE x \in b .. b + size - 1
      <3> DEFINE z == x - a
                 y == from + z
      <3>1. z \in Nat /\ z >= q /\ z < q + size /\ x \in a .. a + (q + size) - 1 /\ y \in Nat /\ y \in Addresses
        BY <1>0, <1>1, <2>2
      <3>2. x - b + 1 \in 1 .. size /\ from + q + (x - b + 1) - 1 = y
        BY <1>0, <1>1, <1>5, <2>2
      <3>3. Store(g, b, bytes)[x] = g[y]
        BY <1>3, <1>4, <2>2, <3>2
      <3>4. CopiedAt(m, from, a, q + size, p, x) = m[from + (z % p)]
        BY <3>1 DEF CopiedAt
      <3>5. g[y] = CopiedAt(m, from, a, q, p, y)
        BY <1>5, <3>1
      <3>6. CASE y \in a .. a + q - 1
        <4>1. from < a /\ a - from <= z /\ a - from < n
          BY <1>0, <1>1, <3>1, <3>6
        <4>2. p = a - from /\ p \in Nat \ {0} /\ y - a = z - p /\ z - p \in Nat
          BY <1>0, <1>1, <1>6, <3>1, <4>1
        <4>3. (z - p) % p = z % p
          <5> HIDE DEF z
          <5>1. \A i \in Nat, d \in Nat \ {0} : (i + d) % d = i % d
            <6> TAKE i \in Nat, d \in Nat \ {0}
            <6>1. i = d * (i \div d) + (i % d) /\ i \div d \in Nat /\ i % d \in 0 .. d - 1
              BY DivMod
            <6> DEFINE u == i \div d
                       v == i % d
            <6>2. u \in Nat /\ v \in 0 .. d - 1 /\ i = d * u + v
              BY <6>1
            <6> HIDE DEF u, v
            <6>3. i + d = d * (u + 1) + v /\ u + 1 \in Nat /\ i + d \in Nat
              BY <6>2
            <6>4. v = (i + d) % d
              <7> DEFINE w == u + 1
                         j == i + d
              <7>1. w \in Nat /\ j \in Nat /\ j = d * w + v
                BY <6>3
              <7> HIDE DEF w, j
              <7>2. v = j % d
                BY <6>2, <7>1, DivMod
              <7> QED
                BY <7>2 DEF j
            <6> QED
              BY <6>4 DEF v
          <5> DEFINE i == z - p
          <5>2. i \in Nat /\ i + p = z /\ p \in Nat \ {0}
            BY <3>1, <4>2
          <5> HIDE DEF i
          <5>3. (i + p) % p = i % p
            BY <5>1, <5>2
          <5> QED
            BY <5>2, <5>3 DEF i
        <4>4. g[y] = m[from + ((y - a) % p)]
          BY <3>5, <3>6 DEF CopiedAt
        <4> QED
          BY <3>3, <3>4, <4>2, <4>3, <4>4
      <3>7. CASE y \notin a .. a + q - 1
        <4>1. g[y] = m[y]
          BY <3>5, <3>7 DEF CopiedAt
        <4>2. p \in Nat /\ z < p
          BY <1>0, <1>1, <1>2, <1>6, <3>1, <3>7
        <4>3. z % p = z
          BY <3>1, <4>2
        <4> QED
          BY <3>3, <3>4, <4>1, <4>3
      <3> QED
        BY <3>6, <3>7
    <2> QED
      BY <2>1, <2>2
  <1> QED
    BY <1>1, <1>7 DEF bytes

(* What cp leaves: the induction over its objects.                         *)
LEMMA CopyIs ==
    ASSUME NEW from, NEW a, NEW size, NEW count, CopyFits(from, a, size, count), NEW m, OnAddresses(m)
    PROVE  LET r == CpResult(m, from, a, size, count)
               n == count * size
           IN  OnAddresses(r) /\ \A x \in Addresses : r[x] = CopiedAt(m, from, a, n, Period(from, a, n), x)
  <1> DEFINE n == count * size
             p == Period(from, a, n)
             V == {m[x] : x \in Addresses}
             D == [Addresses -> V]
             NextCopy(g, k) == Store(g, a + (k - 1) * size, LoadObject(g, from + (k - 1) * size, size))
             Body(f) == [k \in 0 .. count |-> IF k = 0 THEN m ELSE NextCopy(f[k - 1], k)]
             F == [k \in 1 .. count |-> [g \in D |-> NextCopy(g, k)]]
  <1>0. /\ MemSize \in Nat \ {0} /\ Addresses = 0 .. MemSize - 1
        /\ size \in {1, 2, 4} /\ from \in Nat /\ a \in Nat /\ from + n <= MemSize
        /\ count \in Nat \ {0}
    BY MemoryAssumption DEF CopyFits, ObjectSizes, Addresses
  <1>1. m \in D
    BY DEF OnAddresses
  <1>2. ASSUME NEW g \in D, NEW k \in 1 .. count PROVE NextCopy(g, k) \in D
    <2> DEFINE q == (k - 1) * size
               b == a + q
               o == LoadObject(g, from + q, size)
    <2>1. q \in Nat /\ q + size <= n
      <3>1. size = 1 \/ size = 2 \/ size = 4
        BY <1>0
      <3>2. k \in Nat /\ k >= 1 /\ k <= count /\ count \in Nat
        BY <1>0
      <3>3. CASE size = 1
        BY <3>2, <3>3
      <3>4. CASE size = 2
        BY <3>2, <3>4
      <3>5. CASE size = 4
        BY <3>2, <3>5
      <3> QED
        BY <3>1, <3>3, <3>4, <3>5
    <2>2. o = [i \in 1 .. size |-> g[from + q + i - 1]]
      BY DEF LoadObject
    <2>3. Len(o) = size
      BY <1>0, <2>2
    <2>4. NextCopy(g, k) = [x \in Addresses |-> IF x \in b .. b + Len(o) - 1 THEN o[x - b + 1] ELSE g[x]]
      BY DEF Store
    <2> HIDE DEF q, n
    <2>5. ASSUME NEW x \in Addresses, x \in b .. b + size - 1 PROVE o[x - b + 1] \in V
      <3>1. x - b + 1 \in 1 .. size /\ from + q + (x - b + 1) - 1 \in Addresses
        <4>1. x \in Int /\ size \in Nat /\ b \in Nat /\ b <= x /\ x <= b + size - 1
          BY <1>0, <2>1, <2>5
        <4>2. x - b + 1 \in 1 .. size
          BY <4>1
        <4>3. from + q + (x - b + 1) - 1 = from + q + (x - b) /\ n \in Nat
          BY <1>0, <2>1, <4>1 DEF n
        <4> HIDE DEF b
        <4>4. from + q + (x - b) \in 0 .. MemSize - 1
          <5> DEFINE d == x - b
          <5>1. d \in Nat /\ d <= size - 1
            BY <4>1
          <5>2. from \in Nat /\ from + n <= MemSize /\ MemSize \in Nat /\ size \in Nat
            BY <1>0, <4>1
          <5> HIDE DEF d
          <5>3. from + q + d \in 0 .. MemSize - 1
            BY <2>1, <4>3, <5>1, <5>2
          <5> QED
            BY <5>3 DEF d
        <4> QED
          BY <1>0, <4>2, <4>3, <4>4
      <3>2. o[x - b + 1] = g[from + q + (x - b + 1) - 1]
        BY <2>2, <3>1
      <3> QED
        BY <3>1, <3>2
    <2> HIDE DEF o, V
    <2>6. \A x \in Addresses : (IF x \in b .. b + Len(o) - 1 THEN o[x - b + 1] ELSE g[x]) \in V
      BY <2>3, <2>5
    <2> HIDE DEF b
    <2> QED
      BY <2>4, <2>6
  <1> HIDE DEF NextCopy
  <1>3. F \in [1 .. count -> [D -> D]]
    <2> HIDE DEF D
    <2> QED
      BY <1>2
  <1>4. \A k \in 1 .. count, g \in D : F[k][g] = NextCopy(g, k)
    OBVIOUS
  <1> HIDE DEF F, D
  <1>5. PICK f : Iterates(f, F, count, D, m)
    BY <1>0, <1>1, <1>3, Iteration
  <1>6. f \in [0 .. count -> D] /\ f[0] = m /\ \A k \in 1 .. count : f[k] = F[k][f[k - 1]]
    BY <1>5 DEF Iterates
  <1>7. \A k \in 1 .. count : f[k] = NextCopy(f[k - 1], k)
    <2> TAKE k \in 1 .. count
    <2>1. k - 1 \in 0 .. count
      BY <1>0
    <2>2. f[k - 1] \in D
      BY <1>6, <2>1
    <2> QED
      BY <1>4, <1>6, <2>2
  <1>8. \A k \in 0 .. count : f[k] = IF k = 0 THEN m ELSE NextCopy(f[k - 1], k)
    BY <1>0, <1>6, <1>7
  <1>9. f = [k \in 0 .. count |-> f[k]]
    BY <1>6
  <1>10. f = Body(f)
    BY <1>8, <1>9
  <1> DEFINE copy == CHOOSE g : g = Body(g)
  <1>11. copy = Body(copy)
    BY <1>10
  <1>12. CpResult(m, from, a, size, count) = copy[count]
    BY DEF CpResult, NextCopy
  <1> HIDE DEF copy
  <1>13. \A k \in 0 .. count : copy[k] = IF k = 0 THEN m ELSE NextCopy(copy[k - 1], k)
    BY <1>11
  <1> DEFINE R(k) == {g \in D : \A x \in Addresses : g[x] = CopiedAt(m, from, a, k * size, p, x)}
             S == [k \in 0 .. count |-> R(k)]
  <1> HIDE DEF p
  <1>14. copy[0] \in S[0]
    <2>1. copy[0] = m /\ 0 \in 0 .. count
      BY <1>0, <1>13
    <2>2. 0 * size = 0 /\ \A x \in Addresses : x \notin a .. a + 0 - 1
      BY <1>0
    <2>3. \A x \in Addresses : m[x] = CopiedAt(m, from, a, 0 * size, p, x)
      BY <2>2 DEF CopiedAt
    <2>4. m \in R(0)
      BY <1>1, <2>3
    <2> QED
      BY <2>1, <2>4
  <1>15. \A k \in 1 .. count : copy[k - 1] \in S[k - 1] => copy[k] \in S[k]
    <2> TAKE k \in 1 .. count
    <2>1. k \in 0 .. count /\ k - 1 \in 0 .. count /\ k # 0 /\ S[k] = R(k) /\ S[k - 1] = R(k - 1)
      BY <1>0
    <2> SUFFICES ASSUME copy[k - 1] \in R(k - 1) PROVE copy[k] \in R(k)
      BY <2>1
    <2> DEFINE g == copy[k - 1]
    <2>2. g \in D /\ \A x \in Addresses : g[x] = CopiedAt(m, from, a, (k - 1) * size, p, x)
      OBVIOUS
    <2>3. copy[k] = NextCopy(g, k)
      BY <1>13, <2>1
    <2> HIDE DEF g
    <2>4. NextCopy(g, k) \in D
      BY <1>2, <2>2 DEF D
    <2>5. \A x \in Addresses : NextCopy(g, k)[x] = CopiedAt(m, from, a, k * size, p, x)
      <3> TAKE x \in Addresses
      <3>1. \A z \in Addresses : g[z] = CopiedAt(m, from, a, (k - 1) * size, Period(from, a, count * size), z)
        BY <2>2 DEF p
      <3>2. Store(g, a + (k - 1) * size, LoadObject(g, from + (k - 1) * size, size))[x] =
                CopiedAt(m, from, a, k * size, Period(from, a, count * size), x)
        BY <3>1, OneObject
      <3> QED
        BY <3>2 DEF NextCopy, p
    <2> QED
      BY <2>3, <2>4, <2>5
  <1>16. count \in Nat /\ count \in 0 .. count /\ S[count] = R(count)
    BY <1>0
  <1> HIDE DEF S
  <1>17. copy[count] \in S[count]
    BY <1>14, <1>15, <1>16, Along
  <1>18. copy[count] \in D /\ \A x \in Addresses : copy[count][x] = CopiedAt(m, from, a, n, p, x)
    BY <1>16, <1>17
  <1> QED
    BY <1>12, <1>18 DEF OnAddresses, D, p, n

-----------------------------------------------------------------------------

(* The types of the memory commands.                                       *)
JobTypes == [name : {"none", "md", "mw", "cp", "mm", "nm"}, addr : Int, from : Int, size : Nat, left : Int]
MemTypes ==
    /\ OnAddresses(mem) /\ job \in JobTypes
    /\ dp \in [addr : Int, size : Nat, length : Nat] /\ shown \in [addr : Int, size : Nat]
    /\ mm \in [addr : Int, size : Nat]

(* What Enter goes on with is what the last line showed.                   *)
GoesOn == job.name # "md" /\ "md" \in last => dp.addr = shown.addr /\ dp.size = shown.size

(* The inductive invariant of the memory commands.                         *)
MemInv == MemTypes /\ GoesOn /\ CopyIsForward /\ ShowsInTurn

(* The sizes that are typed.                                               *)
LEMMA SizesAre ==
    ASSUME NEW suffix, DataSize(suffix) > 0, suffix \in SizeSuffixes
    PROVE  DataSize(suffix) \in ObjectSizes /\ DataSize(suffix) \in Nat
  <1>1. suffix \in {"none", ".b", ".w", ".l", ".s", ".x"}
    BY MemoryAssumption
  <1> QED
    BY <1>1 DEF DataSize, ObjectSizes

(* No command runs.                                                        *)
LEMMA NoJob == NoMemoryJob \in JobTypes /\ NoMemoryJob.name = "none"
  BY DEF NoMemoryJob, JobTypes

(* The command that runs.                                                  *)
LEMMA JobIs ==
    ASSUME NEW name \in {"none", "md", "mw", "cp", "mm", "nm"}, NEW a \in Int, NEW from \in Int, NEW size \in Nat, NEW left \in Int
    PROVE  LET j == Job(name, a, from, size, left)
           IN  j \in JobTypes /\ j.name = name /\ j.addr = a /\ j.from = from /\ j.size = size /\ j.left = left
  BY DEF Job, JobTypes

(* The invariant of the memory commands holds at the start.                *)
LEMMA MemoryStartsWell == MemoryInit => MemInv
  <1> SUFFICES ASSUME MemoryInit PROVE MemInv
    OBVIOUS
  <1>1. mem = [a \in Addresses |-> IF a \in {0, 3, 4} THEN 1 ELSE 0] /\ job = NoMemoryJob /\ last = {}
        /\ dp = [addr |-> 0, size |-> 0, length |-> DefaultLength] /\ shown = [addr |-> 0, size |-> 4]
        /\ mm = [addr |-> 0, size |-> 0]
    BY DEF MemoryInit
  <1>2. OnAddresses(mem)
    BY <1>1 DEF OnAddresses
  <1>3. DefaultLength \in Nat
    BY MemoryAssumption
  <1>4. MemTypes
    BY <1>1, <1>2, <1>3, NoJob DEF MemTypes
  <1> QED
    BY <1>1, <1>4, NoJob DEF MemInv, GoesOn, CopyIsForward, ShowsInTurn

(* Stores and fills leave functions on the addresses.                      *)
LEMMA StoreIs ==
    ASSUME NEW m, NEW a, NEW b
    PROVE  OnAddresses(Store(m, a, b)) /\ \A x \in Addresses : x \notin a .. a + Len(b) - 1 => Store(m, a, b)[x] = m[x]
  BY DEF OnAddresses, Store

(* A command that begins at the prompt and is not md, mm, nm or cp.        *)
LEMMA Lines ==
    ASSUME NEW name, OnLine(name), "md" \in last', name # "md"
    PROVE  "md" \in last
  BY DEF OnLine

(* At the prompt nothing is left of an md.                                 *)
LEMMA PromptIs == AtPrompt => job.name # "md"
  BY DEF AtPrompt

(* The addresses that are typed.                                           *)
LEMMA StartsAre == MemSize \in Nat \ {0} /\ \A a \in MemoryStarts : a \in Nat /\ a \in Int /\ a <= MemSize - 1
  BY MemoryAssumption

(* A command other than md, typed or repeated, keeps what Enter goes on    *)
(* with.                                                                   *)
LEMMA OtherLine ==
    ASSUME MemInv, AtPrompt, NEW name, name # "md", OnLine(name) \/ last' = last, UNCHANGED <<dp, shown>>
    PROVE  GoesOn'
  <1>1. "md" \in last' => "md" \in last
    BY DEF OnLine
  <1> QED
    BY <1>1, PromptIs DEF MemInv, GoesOn

(* Each command, and each object of mm, keeps the invariant.               *)
LEMMA KeepsMd == ASSUME MemInv, Md PROVE MemInv'
  <1>1. PICK suffix \in SizeSuffixes, a \in MemoryStarts, length \in {dp.length} \cup MemoryCounts :
            /\ CommandTyped("md", suffix)
            /\ BeginMemory(Job("md", a, a, DataSize(suffix), length * DataSize(suffix)))
            /\ dp' = [dp EXCEPT !.length = length]
            /\ shown' = [addr |-> a, size |-> DataSize(suffix)]
            /\ UNCHANGED <<mem, mm>>
    BY DEF Md
  <1> DEFINE size == DataSize(suffix)
             j == Job("md", a, a, size, length * size)
  <1>2. size \in Nat /\ a \in Int /\ length \in Nat
    <2>1. dp.length \in Nat /\ MemoryCounts \subseteq Nat
      BY MemoryAssumption DEF MemInv, MemTypes
    <2> QED
      BY <1>1, <2>1, SizesAre, StartsAre DEF CommandTyped
  <1>3. job' = j /\ old' = mem /\ mem' = mem /\ mm' = mm /\ shown' = [addr |-> a, size |-> size]
        /\ dp' = [dp EXCEPT !.length = length]
    BY <1>1 DEF BeginMemory
  <1> HIDE DEF size
  <1>4. length * size \in Int
    BY <1>2
  <1>5. j \in JobTypes /\ j.name = "md" /\ j.addr = a /\ j.from = a /\ j.size = size
    BY <1>2, <1>4, JobIs
  <1> HIDE DEF j
  <1>6. MemTypes'
    BY <1>2, <1>3, <1>5 DEF MemInv, MemTypes
  <1> QED
    BY <1>3, <1>5, <1>6 DEF MemInv, GoesOn, CopyIsForward, ShowsInTurn

LEMMA KeepsMdAgain == ASSUME MemInv, MdAgain PROVE MemInv'
  <1> DEFINE a == dp.addr
             size == dp.size
             left == dp.length * size
             j == Job("md", a, a, size, left)
  <1>1. job' = j /\ old' = mem /\ mem' = mem /\ mm' = mm /\ shown' = shown /\ dp' = dp /\ "md" \in last /\ AtPrompt
    BY DEF MdAgain, BeginMemory, Remembered, Again
  <1>2. a \in Int /\ size \in Nat /\ dp.length \in Nat
    BY DEF MemInv, MemTypes
  <1>3. left \in Int
    BY <1>2
  <1>4. a = shown.addr /\ size = shown.size
    BY <1>1, PromptIs DEF MemInv, GoesOn
  <1> HIDE DEF a, size, left
  <1>5. j \in JobTypes /\ j.name = "md" /\ j.addr = a /\ j.from = a /\ j.size = size
    BY <1>2, <1>3, JobIs
  <1> HIDE DEF j
  <1>6. MemTypes'
    BY <1>1, <1>5 DEF MemInv, MemTypes
  <1> QED
    BY <1>1, <1>4, <1>5, <1>6 DEF MemInv, GoesOn, CopyIsForward, ShowsInTurn

LEMMA KeepsMdLine == ASSUME MemInv, MdLine PROVE MemInv'
  <1> DEFINE n == IF job.left > LineLen THEN LineLen ELSE job.left
             to == job.addr + n
  <1>0. job \in JobTypes /\ job.name = "md" /\ dp \in [addr : Int, size : Nat, length : Nat]
        /\ shown \in [addr : Int, size : Nat] /\ mm \in [addr : Int, size : Nat] /\ OnAddresses(mem)
    BY DEF MemInv, MemTypes, MdLine
  <1>1. job.addr \in Int /\ job.left \in Int /\ job.size \in Nat
    BY <1>0 DEF JobTypes
  <1>2. n \in Int /\ to \in Int
    BY <1>1, MemoryAssumption
  <1>3. mem = old /\ job.addr = shown.addr /\ job.size = shown.size
    BY <1>0 DEF MemInv, ShowsInTurn
  <1>4. /\ shown' = [shown EXCEPT !.addr = to] /\ UNCHANGED <<mem, mm, old>>
        /\ \/ job' = NoMemoryJob /\ dp' = [dp EXCEPT !.addr = to, !.size = job.size]
           \/ job' = [job EXCEPT !.addr = @ + n, !.left = @ - n] /\ dp' = dp
    BY DEF MdLine
  <1> HIDE DEF n
  <1>5. shown' \in [addr : Int, size : Nat] /\ shown'.addr = to /\ shown'.size = shown.size
    BY <1>0, <1>2, <1>4
  <1>6. CASE job' = NoMemoryJob /\ dp' = [dp EXCEPT !.addr = to, !.size = job.size]
    <2>1. dp' \in [addr : Int, size : Nat, length : Nat] /\ dp'.addr = to /\ dp'.size = job.size
      BY <1>0, <1>1, <1>2, <1>6
    <2>2. MemTypes'
      BY <1>0, <1>4, <1>5, <1>6, <2>1, NoJob DEF MemTypes
    <2>3. job'.name = "none"
      BY <1>6, NoJob
    <2> QED
      BY <1>3, <1>5, <2>1, <2>2, <2>3 DEF MemInv, GoesOn, CopyIsForward, ShowsInTurn
  <1>7. CASE job' = [job EXCEPT !.addr = @ + n, !.left = @ - n] /\ dp' = dp
    <2> DEFINE left == job.left - n
    <2>0. job' = [job EXCEPT !.addr = to, !.left = left] /\ left \in Int
      BY <1>1, <1>2, <1>7
    <2> HIDE DEF left, to
    <2>1. job' \in JobTypes /\ job'.name = "md" /\ job'.addr = to /\ job'.size = job.size
      BY <1>0, <1>2, <2>0 DEF JobTypes
    <2>2. MemTypes'
      BY <1>0, <1>4, <1>5, <1>7, <2>1 DEF MemTypes
    <2> QED
      BY <1>3, <1>4, <1>5, <2>1, <2>2 DEF MemInv, GoesOn, CopyIsForward, ShowsInTurn
  <1> QED
    BY <1>4, <1>6, <1>7

LEMMA KeepsMw == ASSUME MemInv, Mw PROVE MemInv'
  <1>1. PICK suffix \in SizeSuffixes, a \in MemoryStarts, v \in MemoryValues, count \in MemoryCounts :
            /\ CommandTyped("mw", suffix)
            /\ mem' = Filled(mem, a, DataSize(suffix), v, count)
            /\ BeginMemory(Job("mw", a, v, DataSize(suffix), count))
            /\ UNCHANGED <<dp, mm, shown>>
    BY DEF Mw
  <1> DEFINE size == DataSize(suffix)
             j == Job("mw", a, v, size, count)
  <1>2. size \in Nat /\ a \in Int /\ v \in Int /\ count \in Int
    BY <1>1, SizesAre, StartsAre, MemoryAssumption DEF CommandTyped
  <1>4. job' = j
    BY <1>1 DEF BeginMemory
  <1> HIDE DEF size
  <1>3. j \in JobTypes /\ j.name = "mw"
    BY <1>2, JobIs
  <1> HIDE DEF j
  <1>5. OnAddresses(mem')
    BY <1>1 DEF OnAddresses, Filled
  <1>6. MemTypes'
    BY <1>1, <1>3, <1>4, <1>5 DEF MemInv, MemTypes
  <1>7. GoesOn'
    BY <1>1, OtherLine DEF CommandTyped
  <1> QED
    BY <1>3, <1>4, <1>6, <1>7 DEF MemInv, CopyIsForward, ShowsInTurn

LEMMA KeepsCp == ASSUME MemInv, Cp PROVE MemInv'
  <1>1. PICK suffix \in SizeSuffixes, a \in MemoryStarts, from \in MemoryStarts, count \in MemoryCounts \ {0} :
            LET size == DataSize(suffix)
            IN  /\ CommandTyped("cp", suffix)
                /\ Aligned(a, size) /\ Inside(a, count * size) /\ Aligned(from, size) /\ Inside(from, count * size)
                /\ mem' = CpResult(mem, from, a, size, count)
                /\ BeginMemory(Job("cp", a, from, size, count))
                /\ UNCHANGED <<dp, mm, shown>>
    BY DEF Cp
  <1> DEFINE size == DataSize(suffix)
             j == Job("cp", a, from, size, count)
             n == count * size
  <1>2. /\ size \in ObjectSizes /\ size \in Nat /\ a \in Nat /\ from \in Nat /\ count \in Nat \ {0}
        /\ a \in Int /\ from \in Int /\ count \in Int
    BY <1>1, SizesAre, StartsAre, MemoryAssumption DEF CommandTyped
  <1>3. /\ Aligned(a, size) /\ Inside(a, n) /\ Aligned(from, size) /\ Inside(from, n)
        /\ mem' = CpResult(mem, from, a, size, count) /\ job' = j /\ old' = mem /\ UNCHANGED <<dp, mm, shown>>
        /\ AtPrompt /\ OnLine("cp")
    BY <1>1 DEF BeginMemory, CommandTyped
  <1> HIDE DEF size
  <1>4. j \in JobTypes /\ j.name = "cp" /\ j.addr = a /\ j.from = from /\ j.size = size /\ j.left = count
    BY <1>2, JobIs
  <1> HIDE DEF j
  <1>5. CopyFits(from, a, size, count)
    BY <1>2, <1>3 DEF CopyFits, Inside, Aligned
  <1>6. OnAddresses(mem)
    BY DEF MemInv, MemTypes
  <1>7. OnAddresses(mem') /\ \A x \in Addresses : mem'[x] = CopiedAt(mem, from, a, n, Period(from, a, n), x)
    BY <1>3, <1>5, <1>6, CopyIs
  <1>8. size * count = n
    BY <1>2
  <1>9. CopyIsForward'
    <2> HIDE DEF n
    <2>1. job'.addr = a /\ job'.from = from /\ job'.size * job'.left = n
      BY <1>3, <1>4, <1>8
    <2> QED
      BY <1>3, <1>7, <2>1 DEF CopyIsForward, CopiedAt, Period
  <1>10. MemTypes'
    BY <1>3, <1>4, <1>7 DEF MemInv, MemTypes
  <1>11. GoesOn'
    BY <1>3, OtherLine
  <1> QED
    BY <1>3, <1>4, <1>9, <1>10, <1>11 DEF MemInv, ShowsInTurn

LEMMA KeepsMod == ASSUME MemInv, Mod \/ ModAgain PROVE MemInv'
  <1>1. /\ \E name \in {"mm", "nm"}, a \in Int, size \in Nat :
               /\ AtPrompt /\ (OnLine(name) \/ last' = last) /\ BeginMemory(Job(name, a, a, size, 0))
        /\ UNCHANGED <<mem, dp, mm, shown>>
    <2>1. CASE Mod
      <3>1. PICK name \in {"mm", "nm"}, suffix \in SizeSuffixes, a \in MemoryStarts :
                /\ CommandTyped(name, suffix) /\ BeginMemory(Job(name, a, a, DataSize(suffix), 0))
                /\ UNCHANGED <<mem, dp, mm, shown>>
        BY <2>1 DEF Mod
      <3>2. a \in Int /\ DataSize(suffix) \in Nat
        BY <3>1, SizesAre, StartsAre DEF CommandTyped
      <3> QED
        BY <3>1, <3>2 DEF CommandTyped
    <2>2. CASE ModAgain
      <3>1. mm.addr \in Int /\ mm.size \in Nat
        BY DEF MemInv, MemTypes
      <3> QED
        BY <2>2, <3>1 DEF ModAgain, Again
    <2> QED
      BY <2>1, <2>2
  <1>2. PICK name \in {"mm", "nm"}, a \in Int, size \in Nat :
            AtPrompt /\ (OnLine(name) \/ last' = last) /\ BeginMemory(Job(name, a, a, size, 0))
    BY <1>1
  <1> DEFINE j == Job(name, a, a, size, 0)
  <1>3. j \in JobTypes /\ j.name = name
    BY JobIs
  <1>4. job' = j /\ old' = mem /\ mem' = mem
    BY <1>1, <1>2 DEF BeginMemory
  <1> HIDE DEF j
  <1>5. MemTypes'
    BY <1>1, <1>3, <1>4 DEF MemInv, MemTypes
  <1>6. GoesOn'
    BY <1>1, <1>2, OtherLine
  <1> QED
    BY <1>3, <1>4, <1>5, <1>6 DEF MemInv, CopyIsForward, ShowsInTurn

LEMMA KeepsModMove == ASSUME MemInv, ModMove PROVE MemInv'
  <1>0. job \in JobTypes /\ job.name \in {"mm", "nm"}
    BY DEF ModMove, Asking, MemInv, MemTypes
  <1>1. Stride \in Int /\ job.addr \in Int
    BY <1>0 DEF Stride, JobTypes
  <1>2. (\E to \in Int : job' = [job EXCEPT !.addr = to]) /\ UNCHANGED <<mem, dp, mm, old, last, shown>>
    <2>1. PICK back \in BOOLEAN : job' = [job EXCEPT !.addr = IF back THEN job.addr - Stride ELSE job.addr + Stride]
      BY DEF ModMove
    <2>2. (IF back THEN job.addr - Stride ELSE job.addr + Stride) \in Int
      BY <1>1
    <2> QED
      BY <2>1, <2>2 DEF ModMove
  <1>3. PICK to \in Int : job' = [job EXCEPT !.addr = to]
    BY <1>2
  <1>4. job' \in JobTypes /\ job'.name = job.name /\ job'.from = job.from /\ job'.size = job.size
    BY <1>0, <1>3 DEF JobTypes
  <1>5. MemTypes'
    BY <1>2, <1>4 DEF MemInv, MemTypes
  <1> QED
    BY <1>0, <1>2, <1>4, <1>5 DEF MemInv, GoesOn, CopyIsForward, ShowsInTurn

LEMMA KeepsModWrite == ASSUME MemInv, ModWrite PROVE MemInv'
  <1>0. job \in JobTypes /\ job.name \in {"mm", "nm"}
    BY DEF ModWrite, Asking, MemInv, MemTypes
  <1>1. Stride \in Int /\ job.addr \in Int /\ job.size \in Nat
    BY <1>0 DEF Stride, JobTypes
  <1>2. PICK v \in MemoryValues :
            /\ mem' = Store(mem, job.addr, Digits(v, job.size)) /\ old' = mem
            /\ job' = [job EXCEPT !.addr = @ + Stride, !.from = job.addr]
    BY DEF ModWrite
  <1> DEFINE to == job.addr + Stride
             from == job.addr
  <1>7. job' = [job EXCEPT !.addr = to, !.from = from] /\ to \in Int /\ from \in Int
    BY <1>1, <1>2
  <1> HIDE DEF to, from
  <1>8. job' \in JobTypes /\ job'.name = job.name /\ job'.from = from /\ job'.size = job.size
    BY <1>0, <1>7 DEF JobTypes
  <1>3. job' \in JobTypes /\ job'.name = job.name /\ job'.from = job.addr /\ job'.size = job.size
    BY <1>8 DEF from
  <1>4. Len(Digits(v, job.size)) = job.size
    BY <1>1 DEF Digits
  <1>5. OnAddresses(mem') /\ \A x \in Addresses : x \notin job'.from .. job'.from + job'.size - 1 => mem'[x] = old'[x]
    BY <1>2, <1>3, <1>4, StoreIs
  <1>6. UNCHANGED <<dp, mm, last, shown>>
    BY DEF ModWrite
  <1>9. MemTypes'
    BY <1>3, <1>5, <1>6 DEF MemInv, MemTypes
  <1> QED
    BY <1>0, <1>3, <1>5, <1>6, <1>9 DEF MemInv, GoesOn, CopyIsForward, ShowsInTurn

LEMMA KeepsModEnd == ASSUME MemInv, ModEnd PROVE MemInv'
  <1>1. job.name \in {"mm", "nm"} /\ mm' = [addr |-> job.addr, size |-> job.size] /\ job' = NoMemoryJob
        /\ UNCHANGED <<mem, dp, old, last, shown>>
    BY DEF ModEnd
  <1>2. job.addr \in Int /\ job.size \in Nat
    BY DEF MemInv, MemTypes, JobTypes
  <1>3. MemTypes'
    BY <1>1, <1>2, NoJob DEF MemInv, MemTypes
  <1> QED
    BY <1>1, <1>3, NoJob DEF MemInv, GoesOn, CopyIsForward, ShowsInTurn

LEMMA KeepsRefused == ASSUME MemInv, RefusedSize PROVE MemInv'
  <1>1. job' = NoMemoryJob /\ last' = {} /\ UNCHANGED <<mem, dp, mm, shown>>
    BY DEF RefusedSize, BeginMemory
  <1> QED
    BY <1>1, NoJob DEF MemInv, MemTypes, GoesOn, CopyIsForward, ShowsInTurn

(* Every step of the memory commands keeps it.                             *)
LEMMA MemoryKeeps == MemInv /\ [MemoryNext]_memoryVars => MemInv'
  <1> SUFFICES ASSUME MemInv, [MemoryNext]_memoryVars PROVE MemInv'
    OBVIOUS
  <1>1. CASE UNCHANGED memoryVars
    BY <1>1 DEF memoryVars, MemInv, MemTypes, GoesOn, CopyIsForward, ShowsInTurn
  <1> QED
    BY <1>1, KeepsMd, KeepsMdAgain, KeepsMdLine, KeepsMw, KeepsCp, KeepsMod, KeepsModMove, KeepsModWrite, KeepsModEnd,
       KeepsRefused DEF MemoryNext

-----------------------------------------------------------------------------

(* Both invariants, each for its part of the board.                        *)
BoardInv == (part = "memory" => MemInv) /\ (part = "mtest" => MemTestInv)

(* For every memory, every region, pattern and fault of mtest and every    *)
(* line of commands: a copy repeats what lies between its two places and   *)
(* leaves the rest, Enter after md goes on where md ended, mm changes the  *)
(* object it shows, and mtest finds every fault that shows and none where  *)
(* there is none (do_mem_cp, do_mem_md, mod_mem, do_mem_mtest).            *)
THEOREM MemoryExact == BoardSpec => []MemoryIsExact
  <1>1. BoardInit => BoardInv
    BY MemoryStartsWell, MemTestStarts DEF BoardInit, BoardInv
  <1>2. BoardInv /\ [BoardNext]_boardVars => BoardInv'
    <2> SUFFICES ASSUME BoardInv, [BoardNext]_boardVars PROVE BoardInv'
      OBVIOUS
    <2>1. part' = part
      BY DEF BoardNext, boardVars, Flashing, Moving, Testing, Switching
    <2>2. part = "memory" => [MemoryNext]_memoryVars
      BY DEF BoardNext, boardVars, Flashing, Moving, Testing, Switching
    <2>3. part = "mtest" => [MemTestNext]_memTestVars
      BY DEF BoardNext, boardVars, Flashing, Moving, Testing, Switching
    <2> QED
      BY <2>1, <2>2, <2>3, MemoryKeeps, MemTestKeeps DEF BoardInv
  <1>3. BoardInv => MemoryIsExact
    BY FaultsFound DEF BoardInv, MemInv, MemoryIsExact
  <1> QED
    BY <1>1, <1>2, <1>3, PTL DEF BoardSpec
=============================================================================
