------------------------------- MODULE Memory -------------------------------
(***************************************************************************)
(* The memory commands md, mm, nm, mw and cp of common/cmd_mem.c on RAM (a *)
(* copy to flash is in SpiFlash).  Memory is bytes of base ByteBase, most  *)
(* significant first; addresses are aligned to the size of the objects,    *)
(* as the processor demands.  What a command found is kept in old, what it *)
(* was asked for in job.                                                   *)
(***************************************************************************)
EXTENDS Integers, SequencesExt

CONSTANTS
    MemSize,            \* bytes of memory
    ByteBase,           \* number of values of a byte
    LineLen,            \* DISP_LINE_LEN
    DefaultLength,      \* objects md shows when nothing else was said
    SizeSuffixes,       \* sizes the user types behind the command's name
    MemoryCounts,       \* counts the user types
    MemoryValues,        \* numbers the user types
    MemoryStarts,       \* addresses the user types
    MaxMemoryCommands   \* bound on the commands and new values typed

ASSUME MemoryAssumption ==
    /\ MemSize \in Nat \ {0} /\ ByteBase \in Nat \ {0, 1}
    /\ LineLen \in {4, 8, 16} /\ DefaultLength \in Nat
    /\ MemoryStarts \subseteq 0 .. MemSize - 1
    /\ SizeSuffixes \subseteq {"none", ".b", ".w", ".l", ".s", ".x"} /\ MemoryCounts \subseteq Nat
    /\ MemoryValues \subseteq Nat /\ MaxMemoryCommands \in Nat

VARIABLES
    mem,                \* the bytes
    dp,                 \* dp_last_addr, dp_last_size, dp_last_length
    mm,                 \* mm_last_addr, mm_last_size
    job,                \* the command that runs or ran
    old,                \* the memory before it
    last,               \* the commands of the last line, if Enter repeats it
    shown,              \* the object behind the last one md showed
    typed               \* commands so far

memoryVars == <<mem, dp, mm, job, old, last, shown, typed>>

Addresses == 0 .. MemSize - 1

(* cmd_get_data_size: negative for what is no size of an object.           *)
DataSize(suffix) ==
    CASE suffix = ".b" -> 1 [] suffix = ".w" -> 2 [] suffix \in {".l", "none"} -> 4
      [] suffix = ".s" -> -2 [] suffix = ".x" -> -1

(* An object in memory; a number too large loses its high digits.          *)
LoadObject(m, a, size) == [i \in 1 .. size |-> m[a + i - 1]]
Digits(v, size) == [i \in 1 .. size |-> (v \div (ByteBase ^ (size - i))) % ByteBase]
Store(m, a, bytes) == [x \in Addresses |-> IF x \in a .. a + Len(bytes) - 1 THEN bytes[x - a + 1] ELSE m[x]]

NoMemoryJob == [name |-> "none", addr |-> 0, from |-> 0, size |-> 4, left |-> 0]
Job(name, addr, from, size, left) == [name |-> name, addr |-> addr, from |-> from, size |-> size, left |-> left]

Inside(a, n) == n >= 0 /\ a + n <= MemSize
Aligned(a, size) == a % size = 0

AtPrompt == job.name \in {"none", "cp", "mw"} /\ typed < MaxMemoryCommands

(* run_command: a line may hold several commands, and Enter repeats it     *)
(* with CMD_FLAG_REPEAT unless one of them failed; which of its commands   *)
(* comes next is left open.                                                *)
OnLine(name) == last' = {name} \/ (last # {} /\ last' = last \cup {name})
Again(name) == AtPrompt /\ name \in last /\ UNCHANGED last

BeginMemory(j) == job' = j /\ old' = mem /\ typed' = typed + 1

CommandTyped(name, suffix) == AtPrompt /\ DataSize(suffix) > 0 /\ OnLine(name)
RefusedSize ==
    /\ AtPrompt /\ \E suffix \in SizeSuffixes : DataSize(suffix) < 0
    /\ last' = {} /\ BeginMemory(NoMemoryJob)
    /\ UNCHANGED <<mem, dp, mm, shown>>

(* do_mem_md, typed anew: without a length the last one holds.             *)
Md ==
    \E suffix \in SizeSuffixes, a \in MemoryStarts, length \in {dp.length} \cup MemoryCounts :
        /\ CommandTyped("md", suffix)
        /\ Aligned(a, DataSize(suffix)) /\ Inside(a, length * DataSize(suffix))
        /\ BeginMemory(Job("md", a, a, DataSize(suffix), length * DataSize(suffix)))
        /\ dp' = [dp EXCEPT !.length = length]
        /\ shown' = [addr |-> a, size |-> DataSize(suffix)]
        /\ UNCHANGED <<mem, mm>>

(* Mutant: a repeated md takes the object size of the last mm.             *)
RememberedByMm == [dp EXCEPT !.size = IF mm.size = 0 THEN @ ELSE mm.size]

(* CMD_FLAG_REPEAT: it goes on where the last md ended.                    *)
Remembered == dp

MdAgain ==
    /\ Again("md")
    /\ LET d == Remembered
       IN  /\ Inside(d.addr, d.length * d.size)
           /\ BeginMemory(Job("md", d.addr, d.addr, d.size, d.length * d.size))
    /\ UNCHANGED <<mem, dp, mm, shown>>

(* One line is shown, at least one even of length 0; Ctrl-C stops behind   *)
(* it as an error, and the address reached is kept either way.             *)
MdLine ==
    /\ job.name = "md"
    /\ LET n == IF job.left > LineLen THEN LineLen ELSE job.left
       IN  /\ shown' = [shown EXCEPT !.addr = job.addr + n]
           /\ \E ctrlc \in BOOLEAN :
                  /\ last' = IF ctrlc THEN {} ELSE last
                  /\ IF ctrlc \/ job.left = n
                     THEN job' = NoMemoryJob /\ dp' = [dp EXCEPT !.addr = job.addr + n, !.size = job.size]
                     ELSE job' = [job EXCEPT !.addr = @ + n, !.left = @ - n] /\ UNCHANGED dp
    /\ UNCHANGED <<mem, mm, old, typed>>

(* do_mem_mw: the same number, count times.                                *)
Filled(m, a, size, v, count) ==
    [x \in Addresses |->
        IF x \in a .. a + count * size - 1 THEN Digits(v, size)[((x - a) % size) + 1] ELSE m[x]]

Mw ==
    \E suffix \in SizeSuffixes, a \in MemoryStarts, v \in MemoryValues, count \in MemoryCounts :
        /\ CommandTyped("mw", suffix)
        /\ LET size == DataSize(suffix)
           IN  /\ Aligned(a, size) /\ Inside(a, count * size)
               /\ mem' = Filled(mem, a, size, v, count)
               /\ BeginMemory(Job("mw", a, v, size, count))
        /\ UNCHANGED <<dp, mm, shown>>

(* Mutant: a copy upwards is made from the end, as memmove does.           *)
CopiedWhole(m, from, a, size, count) == Store(m, a, LoadObject(m, from, size * count))

(* do_mem_cp: object by object from the first one on.                      *)
CpResult(m, from, a, size, count) ==
    LET copy[n \in 0 .. count] ==
            IF n = 0 THEN m
            ELSE Store(copy[n - 1], a + (n - 1) * size, LoadObject(copy[n - 1], from + (n - 1) * size, size))
    IN  copy[count]

Cp ==
    \E suffix \in SizeSuffixes, a \in MemoryStarts, from \in MemoryStarts, count \in MemoryCounts \ {0} :
        /\ CommandTyped("cp", suffix)
        /\ LET size == DataSize(suffix)
           IN  /\ Aligned(a, size) /\ Inside(a, count * size)
               /\ Aligned(from, size) /\ Inside(from, count * size)
               /\ mem' = CpResult(mem, from, a, size, count)
               /\ BeginMemory(Job("cp", a, from, size, count))
        /\ UNCHANGED <<dp, mm, shown>>

(* mod_mem: mm and nm ask for object after object.                         *)
Mod ==
    \E name \in {"mm", "nm"}, suffix \in SizeSuffixes, a \in MemoryStarts :
        /\ CommandTyped(name, suffix) /\ Aligned(a, DataSize(suffix))
        /\ BeginMemory(Job(name, a, a, DataSize(suffix), 0))
        /\ UNCHANGED <<mem, dp, mm, shown>>

ModAgain ==
    /\ \E name \in {"mm", "nm"} : Again(name) /\ BeginMemory(Job(name, mm.addr, mm.addr, mm.size, 0))
    /\ UNCHANGED <<mem, dp, mm, shown>>

Asking == job.name \in {"mm", "nm"} /\ Inside(job.addr, job.size)
Stride == IF job.name = "mm" THEN job.size ELSE 0

(* Enter keeps the object and goes on, "-" goes back.                      *)
ModMove ==
    /\ Asking
    /\ \E back \in BOOLEAN :
           /\ (back => job.addr >= Stride)
           /\ job' = [job EXCEPT !.addr = IF back THEN @ - Stride ELSE @ + Stride]
    /\ UNCHANGED <<mem, dp, mm, old, last, shown, typed>>

ModWrite ==
    /\ Asking
    /\ \E v \in MemoryValues :
           /\ mem' = Store(mem, job.addr, Digits(v, job.size))
           /\ old' = mem
           /\ job' = [job EXCEPT !.addr = @ + Stride, !.from = job.addr]
    /\ typed < MaxMemoryCommands /\ typed' = typed + 1
    /\ UNCHANGED <<dp, mm, last, shown>>

(* What is no number ends the command.                                     *)
ModEnd ==
    /\ job.name \in {"mm", "nm"}
    /\ mm' = [addr |-> job.addr, size |-> job.size]
    /\ job' = NoMemoryJob
    /\ UNCHANGED <<mem, dp, old, last, shown, typed>>

MemoryInit ==
    /\ mem = [a \in Addresses |-> IF a \in {0, 3, 4} THEN 1 ELSE 0]
    /\ dp = [addr |-> 0, size |-> 0, length |-> DefaultLength]
    /\ mm = [addr |-> 0, size |-> 0]
    /\ job = NoMemoryJob /\ old = mem /\ typed = 0
    /\ last = {} /\ shown = [addr |-> 0, size |-> 4]

MemoryNext ==
    \/ Md \/ MdAgain \/ MdLine \/ Mw \/ Cp \/ Mod \/ ModAgain \/ ModMove \/ ModWrite \/ ModEnd \/ RefusedSize

MemorySpec == MemoryInit /\ [][MemoryNext]_memoryVars

MemoryTypeOK ==
    /\ mem \in [Addresses -> 0 .. ByteBase - 1] /\ old \in [Addresses -> 0 .. ByteBase - 1]
    /\ dp.size \in {0, 1, 2, 4} /\ mm.size \in {0, 1, 2, 4}

(* A copy onto itself from below repeats what lies between the two places, *)
(* any other copy is what the source held; nothing else changes            *)
(* (cmd_mem.c, do_mem_cp).                                                 *)
CopyIsForward ==
    job.name = "cp" =>
        LET n == job.size * job.left
            period == IF job.addr \in job.from + 1 .. job.from + n - 1 THEN job.addr - job.from ELSE n
        IN  \A x \in Addresses :
                mem[x] = IF x \in job.addr .. job.addr + n - 1 THEN old[job.from + ((x - job.addr) % period)] ELSE old[x]

(* A repeated md goes on with the object behind the last one shown and in  *)
(* its size, whatever mm did on the same line; no md changes memory, and   *)
(* mm writes the object it showed and no other one (cmd_mem.c, do_mem_md,  *)
(* mod_mem).                                                               *)
ShowsInTurn ==
    /\ (job.name = "md" => mem = old /\ job.addr = shown.addr /\ job.size = shown.size)
    /\ (job.name \in {"mm", "nm"} =>
            \A x \in Addresses : mem[x] # old[x] => x \in job.from .. job.from + job.size - 1)

-----------------------------------------------------------------------------
(***************************************************************************)
(* do_mem_mtest of common/cmd_mem.c on a memory with at most one fault: an *)
(* address or data line that is stuck, two address lines that are shorted, *)
(* or a bit of a cell that is stuck.  Addresses and values are words; one  *)
(* pass of the test is one step.                                           *)
(***************************************************************************)
CONSTANTS
    AddressLines,       \* number of address lines
    DataLines,          \* number of data lines
    TestRegions,        \* what the user tests: base and number of words
    TestPatterns,       \* the patterns the user types, 0 is the default
    MaxPasses           \* bound on the passes until Ctrl-C

TwoTo[n \in 0 .. DataLines] == IF n = 0 THEN 1 ELSE 2 * TwoTo[n - 1]

ASSUME MemTestAssumption ==
    /\ AddressLines \in Nat \ {0} /\ DataLines \in Nat /\ DataLines > AddressLines
    /\ \A r \in TestRegions : r.words \in Nat \ {0} /\ r.base \in Nat /\ r.base + r.words <= TwoTo[AddressLines]
    /\ TestPatterns \subseteq 0 .. TwoTo[DataLines] - 1 /\ MaxPasses \in Nat

VARIABLES
    fault, region,
    alternate,          \* CFG_ALT_MEMTEST
    words,              \* the cells
    pattern, incr,
    first,              \* the pattern typed
    passes,             \* passes so far
    failures,           \* an error was shown
    ended               \* mtest returned

memTestVars == <<fault, region, alternate, words, pattern, incr, first, passes, failures, ended>>

WordAddresses == 0 .. TwoTo[AddressLines] - 1
Values == 0 .. TwoTo[DataLines] - 1
BitOf(x, b) == (x \div TwoTo[b]) % 2
WithBit(x, b, v) == x + (v - BitOf(x, b)) * TwoTo[b]

-----------------------------------------------------------------------------
(* The memory and its fault.                                               *)

NoFault == [kind |-> "none", line |-> 0, other |-> 0, level |-> 0]
Stuck(kinds, lines) == [kind : kinds, line : lines, other : {0}, level : {0, 1}]
(* Shorted lines carry the AND or the OR of what they are driven to.       *)
Shorted == {f \in [kind : {"shorted"}, line : 0 .. AddressLines - 1, other : 0 .. AddressLines - 1, level : {0, 1}] :
                f.line < f.other}
Faults == {NoFault} \cup Stuck({"address"}, 0 .. AddressLines - 1) \cup Shorted
              \cup Stuck({"data"}, 0 .. DataLines - 1)
              \cup [kind : {"cell"}, line : 0 .. DataLines - 1, other : WordAddresses, level : {0, 1}]

Selected(a) ==
    CASE fault.kind = "address" -> WithBit(a, fault.line, fault.level)
      [] fault.kind = "shorted" /\ BitOf(a, fault.line) # BitOf(a, fault.other) ->
             WithBit(WithBit(a, fault.line, fault.level), fault.other, fault.level)
      [] OTHER -> a
Held(cell, v) ==
    IF fault.kind = "data" \/ (fault.kind = "cell" /\ cell = fault.other) THEN WithBit(v, fault.line, fault.level) ELSE v

(* An access checks what it reads, stores, or does first the one and then  *)
(* the other; the test goes on after a failed check, or ends with it.      *)
Wr(offset, v) ==
    [offset |-> offset, check |-> FALSE, expect |-> 0, last |-> FALSE, store |-> TRUE, value |-> v % TwoTo[DataLines]]
Rd(offset, v) ==
    [offset |-> offset, check |-> TRUE, expect |-> v % TwoTo[DataLines], last |-> FALSE, store |-> FALSE, value |-> 0]
RLast(offset, v) == [Rd(offset, v) EXCEPT !.last = TRUE]
RLastThenWr(offset, v, w) == [RLast(offset, v) EXCEPT !.store = TRUE, !.value = w % TwoTo[DataLines]]

Access(run, op) ==
    LET cell == Selected(region.base + op.offset)
    IN  IF run.ended THEN run
        ELSE IF op.check /\ run.words[cell] # op.expect THEN [run EXCEPT !.failures = TRUE, !.ended = op.last]
        ELSE IF op.store THEN [run EXCEPT !.words[cell] = Held(cell, op.value)] ELSE run

Ran(run, script) ==
    LET after[k \in 0 .. Len(script)] == IF k = 0 THEN run ELSE Access(after[k - 1], script[k])
    IN  after[Len(script)]

NewRun == [words |-> words, failures |-> failures, ended |-> FALSE]
Ends(run) == words' = run.words /\ failures' = run.failures /\ ended' = run.ended

-----------------------------------------------------------------------------
(* The quick test.                                                         *)

QuickValues == [i \in 1 .. region.words |-> pattern + (i - 1) * incr]
Writing(values) == [i \in 1 .. region.words |-> Wr(i - 1, values[i])]
Reading(values) == [i \in 1 .. region.words |-> Rd(i - 1, values[i])]

QuickRun(run) == Ran(Ran(run, Writing(QuickValues)), Reading(QuickValues))

NextPattern ==
    IF BitOf(pattern, DataLines - 1) = 1 THEN TwoTo[DataLines] - pattern ELSE TwoTo[DataLines] - 1 - pattern

(* Mutant: every pass counts upwards.                                      *)
NextIncrUp == incr

NextIncr == -incr

QuickPass ==
    /\ ~alternate /\ ~ended /\ passes < MaxPasses
    /\ \E run \in {QuickRun(NewRun)} : Ends(run)
    /\ pattern' = NextPattern /\ incr' = NextIncr
    /\ passes' = passes + 1
    /\ UNCHANGED <<fault, region, alternate, first>>

-----------------------------------------------------------------------------
(* The alternate test: data lines, address lines, every word.              *)

BitPattern == <<1, 3, 7, 15, 5, 21, 85, 170>>
Inverted(v) == TwoTo[DataLines] - 1 - (v % TwoTo[DataLines])

(* Each pattern is shifted up until nothing of it is left; every value and *)
(* its inverse is written to the first word and read back at once (the     *)
(* word at the parking address is no part of the region).                  *)
DataValues == (UNION {{(p * TwoTo[s]) % TwoTo[DataLines] : s \in 0 .. DataLines - 1} : p \in Range(BitPattern)}) \ {0}
LastValue == TwoTo[DataLines - 1]

DataTested(run) ==
    LET cell == Selected(region.base)
        Kept(v) == Held(cell, v) = v
    IN  [run EXCEPT !.failures = @ \/ ~\A v \in DataValues : Kept(v) /\ Kept(Inverted(v)),
                    !.words[cell] = Held(cell, Inverted(LastValue))]

(* The powers of 2 from 1 on that are bits of addr_mask.                   *)
Walking ==
    LET upto == Min({b \in 0 .. AddressLines : BitOf(region.words - 1, b) = 0})
    IN  [b \in 1 .. upto |-> TwoTo[b - 1]]

AllBut(k) == [b \in 1 .. Len(Walking) - 1 |-> Walking[IF b < k THEN b ELSE b + 1]]
ReadingAll(offsets, v) == [i \in DOMAIN offsets |-> RLast(offsets[i], v)]

(* A word is changed for the time of one reading of other ones.            *)
AddressPattern == (2 * (TwoTo[DataLines] - 1)) \div 3
Changing(run, offset, offsets) ==
    Access(Ran(Access(run, Wr(offset, Inverted(AddressPattern))), ReadingAll(offsets, AddressPattern)),
           Wr(offset, AddressPattern))

(* The walking offsets are written and then read, while the first word and *)
(* then each of them is changed.                                           *)
AddressTested(run) ==
    LET after[k \in 0 .. Len(Walking)] ==
            IF k = 0 THEN Changing(Ran(run, [b \in DOMAIN Walking |-> Wr(Walking[b], AddressPattern)]), 0, Walking)
            ELSE Changing(after[k - 1], Walking[k], AllBut(k))
    IN  after[Len(Walking)]

(* Every word is numbered, then inverted, then set to 0.                   *)
WordsTested(run) ==
    LET numbers == [i \in 1 .. region.words |-> i]
        inverting == [i \in 1 .. region.words |-> RLastThenWr(i - 1, i, Inverted(i))]
        clearing == [i \in 1 .. region.words |-> RLastThenWr(i - 1, Inverted(i), 0)]
    IN  Ran(Ran(Ran(run, Writing(numbers)), inverting), clearing)

AlternatePass ==
    /\ alternate /\ ~ended /\ passes < MaxPasses
    /\ \E run \in {WordsTested(AddressTested(DataTested(NewRun)))} : Ends(run)
    /\ passes' = passes + 1
    /\ UNCHANGED <<fault, region, alternate, pattern, incr, first>>

CtrlC ==
    /\ ~ended /\ ended' = TRUE
    /\ UNCHANGED <<fault, region, alternate, words, pattern, incr, first, passes, failures>>

MemTestInit ==
    /\ fault \in Faults /\ region \in TestRegions /\ alternate \in BOOLEAN
    /\ words = [a \in WordAddresses |-> 0]
    /\ first \in (IF alternate THEN {0} ELSE TestPatterns) /\ pattern = first /\ incr = 1
    /\ passes = 0 /\ failures = FALSE /\ ended = FALSE

MemTestNext == QuickPass \/ AlternatePass \/ CtrlC

-----------------------------------------------------------------------------
RegionCells == region.base .. region.base + region.words - 1

(* A fault shows in the region when one of its bits is stuck or two of its *)
(* words are the same.                                                     *)
Shows ==
    CASE fault.kind = "data" -> TRUE
      [] fault.kind = "cell" -> fault.other \in RegionCells
      [] OTHER -> \E a, b \in RegionCells : a # b /\ Selected(a) = Selected(b)

(* Good memory never fails.  Whatever shows is found: by the quick test in *)
(* two passes from the default pattern on and in three from any other but  *)
(* the one that is its own negative, by the alternate test in the first    *)
(* (cmd_mem.c, do_mem_mtest).                                              *)
FaultIsFound ==
    /\ (fault.kind = "none" => ~failures)
    /\ (~alternate /\ passes >= 2 /\ first = 0 /\ Shows => failures)
    /\ (~alternate /\ passes >= 3 /\ first # TwoTo[DataLines - 1] /\ Shows => failures)
    /\ (alternate /\ passes >= 1 /\ Shows => failures)
=============================================================================
