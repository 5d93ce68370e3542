------------------------------- MODULE BitOps -------------------------------
(***************************************************************************)
(* include/asm-mips/bitops.h: changes of single bits of a region of words  *)
(* by two actors, and the searches for a zero bit.  With CPU_HAS_LLSC the  *)
(* actors are processors or an interrupt (load linked, store conditional); *)
(* without, the second is an interrupt handler, kept out by __cli; the     *)
(* plain versions (__set_bit and the like) are for one actor alone.        *)
(***************************************************************************)
EXTENDS Integers, SequencesExt

CONSTANTS
    WordWidth,          \* bits of a word, a power of 2
    ByteWidth,          \* bits of a byte
    RegionWords,        \* words of the region
    BitTargets,         \* numbers of the bits that are changed
    MaxBitOps           \* bound on the operations

ASSUME BitOpsAssumption ==
    /\ WordWidth \in {2, 4, 8, 16, 32} /\ ByteWidth \in {1, 2, 4, 8} /\ WordWidth % ByteWidth = 0
    /\ RegionWords \in Nat \ {0} /\ MaxBitOps \in Nat
    /\ BitTargets \subseteq 0 .. WordWidth * RegionWords - 1

VARIABLES
    machine,            \* "llsc", "cli" or "alone"
    start, region,      \* the words at first and now, each the set of its one bits
    actor,              \* what each of the actors is at
    interrupts,         \* the first actor's interrupt enable
    log                 \* the operations in the order in which they took effect

bitOpsVars == <<machine, start, region, actor, interrupts, log>>

Actors == {1, 2}
Ops == {"set_bit", "clear_bit", "change_bit", "test_and_set_bit", "test_and_clear_bit", "test_and_change_bit"}

Ones == 0 .. WordWidth - 1
WordOf(nr) == nr \div WordWidth
BitIn(nr) == nr % WordWidth

(* What an operation makes of a word, and what it returns: the old value,  *)
(* of test_and_change_bit too, which its comments (:263, :511) deny.       *)
Changed(op, word, bit) ==
    CASE op \in {"set_bit", "test_and_set_bit"} -> word \cup {bit}
      [] op \in {"clear_bit", "test_and_clear_bit"} -> word \ {bit}
      [] op \in {"change_bit", "test_and_change_bit"} -> IF bit \in word THEN word \ {bit} ELSE word \cup {bit}
Returned(op, word, bit) ==
    op \in {"test_and_set_bit", "test_and_clear_bit", "test_and_change_bit"} /\ bit \in word
test_bit(r, nr) == BitIn(nr) \in r[WordOf(nr)]

Resting == [pc |-> "idle", op |-> "set_bit", nr |-> 0, word |-> {}, linked |-> FALSE]

(* The handler runs to its end before the code it interrupted goes on.     *)
Runs(a) == machine = "llsc" \/ a = 2 \/ actor[2].pc = "idle"

BeginBitOp(a) ==
    /\ Runs(a) /\ actor[a].pc = "idle"
    /\ Len(log) + Cardinality({b \in Actors : actor[b].pc # "idle"}) < MaxBitOps
    /\ (a = 2 => machine = "llsc" \/ (machine = "cli" /\ interrupts))
    /\ \E op \in Ops, nr \in BitTargets :
           actor' = [actor EXCEPT ![a] = [Resting EXCEPT !.pc = IF machine = "cli" THEN "cli" ELSE "load", !.op = op, !.nr = nr]]
    /\ UNCHANGED <<machine, start, region, interrupts, log>>

(* Mutant: the flags are saved but interrupts stay enabled.                *)
SaveFlagsOnly(a) == interrupts

(* __bi_save_and_cli.                                                      *)
Masked(a) == FALSE

SaveAndCli(a) ==
    /\ Runs(a) /\ actor[a].pc = "cli"
    /\ interrupts' = Masked(a)
    /\ actor' = [actor EXCEPT ![a].pc = "load"]
    /\ UNCHANGED <<machine, start, region, log>>

(* ll, or the load of *a.                                                  *)
LoadWord(a) ==
    /\ Runs(a) /\ actor[a].pc = "load"
    /\ actor' = [actor EXCEPT ![a].pc = "store", ![a].word = region[WordOf(actor[a].nr)], ![a].linked = TRUE]
    /\ UNCHANGED <<machine, start, region, interrupts, log>>

(* sc fails when another store broke the link, and the loop starts again;  *)
(* the other versions store in any case and restore the flags.             *)
StoreFails(a) ==
    /\ Runs(a) /\ actor[a].pc = "store" /\ machine = "llsc" /\ ~actor[a].linked
    /\ actor' = [actor EXCEPT ![a].pc = "load"]
    /\ UNCHANGED <<machine, start, region, interrupts, log>>

StoreWord(a) ==
    LET x == actor[a]
        w == WordOf(x.nr)
    IN  /\ Runs(a) /\ x.pc = "store" /\ (machine = "llsc" => x.linked)
        /\ region' = [region EXCEPT ![w] = Changed(x.op, x.word, BitIn(x.nr))]
        /\ log' = Append(log, [op |-> x.op, nr |-> x.nr, old |-> Returned(x.op, x.word, BitIn(x.nr))])
        /\ actor' = [b \in Actors |-> IF b = a THEN Resting
                                      ELSE [actor[b] EXCEPT !.linked = @ /\ WordOf(actor[b].nr) # w]]
        /\ interrupts' = (interrupts \/ (machine = "cli" /\ (a = 1 \/ actor[1].pc \in {"idle", "cli"})))
        /\ UNCHANGED <<machine, start>>

BitOpsInit ==
    /\ machine \in {"llsc", "cli", "alone"}
    /\ start \in {[w \in 0 .. RegionWords - 1 |-> {}], [w \in 0 .. RegionWords - 1 |-> Ones]} /\ region = start
    /\ actor = [a \in Actors |-> Resting] /\ interrupts = TRUE /\ log = <<>>

BitOpsNext == \E a \in Actors : BeginBitOp(a) \/ SaveAndCli(a) \/ LoadWord(a) \/ StoreFails(a) \/ StoreWord(a)

-----------------------------------------------------------------------------
(* Searches.                                                               *)

(* ffz counts past a word without a zero; generic_ffs halves the word.     *)
ffz(word) == Min((Ones \ word) \cup {WordWidth})
Shifted(word, k) == {b - k : b \in {c \in word : c >= k}}
generic_ffs(word) ==
    LET f[h \in 0 .. WordWidth, x \in SUBSET Ones] ==
            IF h = 0 THEN 1
            ELSE IF x \cap (0 .. h - 1) = {} THEN h + f[h \div 2, Shifted(x, h)] ELSE f[h \div 2, x]
    IN  IF word = {} THEN 0 ELSE f[WordWidth \div 2, word]

(* generic_hweight: sums of neighbours, then of neighbouring sums, each in *)
(* a field as wide as what it sums.                                        *)
generic_hweight(word) ==
    LET sums[w \in 1 .. WordWidth] ==
            IF w = 1 THEN [i \in 1 .. WordWidth |-> IF i - 1 \in word THEN 1 ELSE 0]
            ELSE [i \in 1 .. WordWidth \div w |-> (sums[w \div 2][2 * i - 1] + sums[w \div 2][2 * i]) % 2 ^ w]
    IN  sums[WordWidth][1]

(* From a whole word on: words of ones are skipped, the last one may have  *)
(* fewer than WordWidth bits; r is the words as they are seen.             *)
FromWord(r, w, size) ==
    LET at[v \in w .. RegionWords] ==
            IF v * WordWidth >= size THEN v * WordWidth
            ELSE IF (v + 1) * WordWidth <= size THEN IF r[v] = Ones THEN at[v + 1] ELSE v * WordWidth + ffz(r[v])
            ELSE v * WordWidth + ffz(r[v] \cup (size - v * WordWidth .. WordWidth - 1))
    IN  at[w]

(* Mutant: the bits before the start are not covered in the first word.    *)
FirstWordBare(r, w, from, size) ==
    IF r[w] = Ones THEN FromWord(r, w + 1, size) ELSE w * WordWidth + ffz(r[w])

(* The word the search starts in the middle of, its bits below the start   *)
(* taken as ones.                                                          *)
FirstWord(r, w, from, size) ==
    LET tmp == r[w] \cup (0 .. from - 1)
        last == size - w * WordWidth < WordWidth
    IN  IF last THEN w * WordWidth + ffz(tmp \cup (size - w * WordWidth .. WordWidth - 1))
        ELSE IF tmp = Ones THEN FromWord(r, w + 1, size) ELSE w * WordWidth + ffz(tmp)

SearchFrom(r, size, offset) ==
    IF offset >= size THEN size
    ELSE IF offset % WordWidth = 0 THEN FromWord(r, WordOf(offset), size)
    ELSE FirstWord(r, WordOf(offset), offset % WordWidth, size)

find_next_zero_bit(r, size, offset) == SearchFrom(r, size, offset)

(* The little-endian versions do not cut off at size within a word.        *)
find_first_zero_bit_le(r, w, size) ==
    LET at[v \in w .. RegionWords] ==
            IF (v - w) * WordWidth >= size THEN (v - w) * WordWidth
            ELSE IF r[v] = Ones THEN at[v + 1] ELSE (v - w) * WordWidth + ffz(r[v])
    IN  IF size = 0 THEN 0 ELSE at[w]
find_next_zero_bit_le(r, size, offset) ==
    LET w == WordOf(offset)
        bit == BitIn(offset)
        set == Min({b \in bit .. WordWidth : b \notin r[w]}) - bit
    IN  IF bit = 0 THEN offset + find_first_zero_bit_le(r, w, size - WordWidth * w)
        ELSE IF set < WordWidth - bit THEN offset + set
        ELSE offset + set + find_first_zero_bit_le(r, w + 1, size - WordWidth * (w + 1))

(* ext2 numbers the bits of the bytes in memory: the bytes of a word are   *)
(* swapped on this big-endian processor.                                   *)
Swab(word) == {(WordWidth - ByteWidth) - ByteWidth * (b \div ByteWidth) + (b % ByteWidth) : b \in word}
ext2_place(nr) == WordOf(nr) * WordWidth + (CHOOSE b \in Swab({BitIn(nr)}) : TRUE)
ext2_test_bit(r, nr) == test_bit(r, ext2_place(nr))
ext2_find_next_zero_bit(r, size, offset) == SearchFrom([w \in DOMAIN r |-> Swab(r[w])], size, offset)

-----------------------------------------------------------------------------
(* What the words are after the first k operations, one after the other.   *)
Effect(r, e) == [r EXCEPT ![WordOf(e.nr)] = Changed(e.op, @, BitIn(e.nr))]
InTurn(l) ==
    LET upto[k \in 0 .. Len(l)] == IF k = 0 THEN start ELSE Effect(upto[k - 1], l[k])
    IN  upto

(* No operation is lost between two actors, and of two that set or clear   *)
(* the same bit only one is told that it was the first: memory and results *)
(* are those of the operations one after the other, each returning the old *)
(* value, also test_and_change_bit (bitops.h:271, :518), for which the     *)
(* comments at :263 and :511 say the new one.                              *)
NoBitIsLost ==
    LET upto == InTurn(log)
    IN  /\ region = upto[Len(log)]
        /\ \A k \in 1 .. Len(log) :
               log[k].old = Returned(log[k].op, upto[k - 1][WordOf(log[k].nr)], BitIn(log[k].nr))

(* A search returns the first zero bit in its range, and a number not      *)
(* below size when there is none; the little-endian one may read on to the *)
(* end of the last word (bitops.h, linux/bitops.h).                        *)
SearchesAreExact ==
    (\A a \in Actors : actor[a].pc = "idle") =>
    LET zero(r, size, offset, T(_, _)) == {nr \in offset .. size - 1 : ~T(r, nr)}
        Exact(found, zeros, size) == IF zeros = {} THEN found >= size ELSE found = Min(zeros)
    IN  /\ \A size \in 1 .. WordWidth * RegionWords, offset \in 0 .. WordWidth * RegionWords - 1 :
               /\ Exact(find_next_zero_bit(region, size, offset), zero(region, size, offset, test_bit), size)
               /\ Exact(ext2_find_next_zero_bit(region, size, offset), zero(region, size, offset, ext2_test_bit), size)
               /\ (offset < size =>
                       Exact(find_next_zero_bit_le(region, size, offset), zero(region, size, offset, test_bit), size))
        /\ \A w \in 0 .. RegionWords - 1 :
               /\ generic_ffs(region[w]) = IF region[w] = {} THEN 0 ELSE Min(region[w]) + 1
               /\ generic_hweight(region[w]) = Cardinality(region[w])
=============================================================================
