----------------------------- MODULE BootProofs -----------------------------
(***************************************************************************)
(* Four parts of the boot: the layout of the memory, for every size of     *)
(* the memory and of the programs that leaves room for them, the decoder,  *)
(* which stays inside its buffers for every text, buffer and stream, the   *)
(* PHYs behind the switch, for every number of them, and the bit           *)
(* operations, for every number of words and of their bits.                *)
(***************************************************************************)
EXTENDS Lzma, StartUp, Switch, BitOps, FiniteSetTheorems, SequenceTheorems,
        WellFoundedInduction, TLAPS

-----------------------------------------------------------------------------
(* The decoder.                                                            *)

(* The inductive invariant: while the decoder runs, a distance is 1 or     *)
(* does not reach before the output. ReadsInside alone is not inductive:   *)
(* it says nothing of the distances before the first byte.                 *)
RepInside(r) == r \in Nat /\ r >= 1 /\ (r = 1 \/ r <= nowPos)
RepsInside == RepInside(rep0) /\ RepInside(rep1) /\ RepInside(rep2) /\ RepInside(rep3)
LzmaInv ==
    /\ LzmaTypeOK
    /\ result = "decoding" => RepsInside
    /\ result = "decoding" /\ state >= kNumLitStates => nowPos > 0

(* What MemoryAt gives may be stored in the output.                        *)
LEMMA MemoryIsByte ==
    ASSUME LzmaTypeOK, NEW i PROVE MemoryAt(i) \in Bytes \cup {0}
BY DEF LzmaTypeOK, MemoryAt, nowPos

(* A match that is not refused makes the output longer, and the new output *)
(* is one of bytes that fits the buffer.                                   *)
LEMMA CopyGrows ==
    ASSUME LzmaTypeOK, Decoding, NEW dist \in Nat, NEW n \in kMatchMinLen .. MaxLen
    PROVE  /\ Copied(dist, n) \in Seq(Bytes \cup {0})
           /\ Len(Copied(dist, n)) \in nowPos + 1 .. outSize
<1>0. nowPos \in Nat /\ outSize \in Nat /\ n \in Nat /\ n >= 2 /\ nowPos < outSize
    BY LzmaAssumption DEF LzmaTypeOK, Decoding, nowPos, kMatchMinLen
<1>1. CopySize(n) \in Nat /\ CopySize(n) \in nowPos + 1 .. outSize
    BY <1>0 DEF CopySize
<1>2. \A i \in 1 .. CopySize(n) : Copied(dist, n)[i] \in Bytes \cup {0}
    <2> TAKE i \in 1 .. CopySize(n)
    <2>1. MemoryAt(Source(i, dist)) \in Bytes \cup {0}
        BY MemoryIsByte
    <2>2. i <= nowPos => out[i] \in Bytes \cup {0}
        BY <1>0, <1>1 DEF LzmaTypeOK, nowPos
    <2> QED
        BY <2>1, <2>2 DEF Copied
<1>3. Copied(dist, n) = [i \in 1 .. CopySize(n) |-> Copied(dist, n)[i]]
    BY DEF Copied
<1>4. Copied(dist, n) \in [1 .. CopySize(n) -> Bytes \cup {0}]
    BY <1>2, <1>3
<1> QED
    BY <1>1, <1>4

(* The states and the distances after each kind of packet.                 *)
LEMMA StateStays ==
    ASSUME LzmaTypeOK PROVE LiteralState(state) \in 0 .. 11
BY DEF LzmaTypeOK, LiteralState

LEMMA InitInv == LzmaInit => LzmaInv
<1> SUFFICES ASSUME LzmaInit PROVE LzmaInv
    OBVIOUS
<1>1. nowPos = 0 /\ out \in Seq(Bytes \cup {0})
    BY DEF LzmaInit, nowPos
<1> QED
    BY <1>1, LzmaAssumption DEF LzmaInit, LzmaInv, LzmaTypeOK, RepsInside, RepInside, kNumLitStates

(* One byte more, with the same distances.                                 *)
LEMMA AppendKeeps ==
    ASSUME LzmaInv, Decoding, NEW b \in Bytes \cup {0}, out' = Append(out, b), state' \in 0 .. 11,
           UNCHANGED <<target, damaged, outSize, result, rep0, rep1, rep2, rep3>>
    PROVE  LzmaInv'
<1>1. nowPos \in Nat /\ outSize \in Nat /\ nowPos < outSize
    BY LzmaAssumption DEF LzmaInv, Decoding, LzmaTypeOK, nowPos
<1>2. out' \in Seq(Bytes \cup {0}) /\ nowPos' = nowPos + 1
    BY DEF LzmaInv, LzmaTypeOK, nowPos
<1>3. Bytes' = Bytes
    BY DEF Bytes
<1>4. LzmaTypeOK'
    BY <1>1, <1>2, <1>3 DEF LzmaInv, LzmaTypeOK
<1>5. RepsInside'
    BY <1>1, <1>2 DEF LzmaInv, Decoding, RepsInside, RepInside
<1> QED
    BY <1>1, <1>2, <1>4, <1>5 DEF LzmaInv

(* A match or a repetition: distances that are numbers from 1 on, of which *)
(* the last three reach no further than before, and the first is compared  *)
(* with the output.                                                        *)
LEMMA CopyKeeps ==
    ASSUME LzmaInv, Decoding, NEW dist \in Nat, dist >= 1, NEW n \in kMatchMinLen .. MaxLen,
           rep0' = dist, RepInside(rep1'), RepInside(rep2'), RepInside(rep3'),
           state' \in 0 .. 11, CopyOrFail(dist, n), UNCHANGED <<target, damaged, outSize>>
    PROVE  LzmaInv'
<1>1. nowPos \in Nat /\ outSize \in Nat /\ nowPos < outSize
    BY LzmaAssumption DEF LzmaInv, Decoding, LzmaTypeOK, nowPos
<1>2. Bytes' = Bytes
    BY DEF Bytes
<1>3. CASE Outside(dist)
    <2>1. result' = "error" /\ out' = out /\ nowPos' = nowPos
        BY <1>3 DEF CopyOrFail, nowPos
    <2>2. LzmaTypeOK'
        BY <1>1, <1>2, <2>1 DEF LzmaInv, LzmaTypeOK, RepInside
    <2> QED
        BY <2>1, <2>2 DEF LzmaInv
<1>4. CASE ~Outside(dist)
    <2>1. result' = result /\ out' = Copied(dist, n)
        BY <1>4 DEF CopyOrFail
    <2>2. out' \in Seq(Bytes \cup {0}) /\ nowPos' \in nowPos + 1 .. outSize
        BY <2>1, CopyGrows DEF LzmaInv, nowPos
    <2>3. dist <= nowPos
        BY <1>1, <1>4 DEF Outside
    <2>4. LzmaTypeOK'
        BY <1>1, <1>2, <2>1, <2>2 DEF LzmaInv, LzmaTypeOK, RepInside
    <2>5. RepsInside'
        <3>1. \A r \in {rep1', rep2', rep3'} : r \in Nat /\ r >= 1 /\ (r = 1 \/ r <= nowPos')
            BY <1>1, <2>2 DEF RepInside
        <3> QED
            BY <1>1, <2>2, <2>3, <3>1 DEF RepsInside, RepInside
    <2> QED
        BY <1>1, <2>2, <2>4, <2>5 DEF LzmaInv
<1> QED
    BY <1>3, <1>4

LEMMA StepInv == LzmaInv /\ [LzmaNext]_lzmaVars => LzmaInv'
<1> SUFFICES ASSUME LzmaInv, [LzmaNext]_lzmaVars PROVE LzmaInv'
    OBVIOUS
<1>1. ASSUME NEW b \in Bytes, Literal(b) PROVE LzmaInv'
    BY <1>1, AppendKeeps, StateStays DEF Literal, LzmaInv
<1>2. CASE ShortRep
    <2>1. CASE nowPos = 0
        BY <1>2, <2>1 DEF ShortRep, Failed, LzmaInv, LzmaTypeOK, nowPos, Bytes
    <2>2. CASE nowPos # 0
        <3>1. MemoryAt(nowPos - rep0 + 1) \in Bytes \cup {0}
            BY MemoryIsByte DEF LzmaInv
        <3> QED
            BY <1>2, <2>2, <3>1, AppendKeeps DEF ShortRep
    <2> QED
        BY <2>1, <2>2
<1>3. CASE Match
    <2> PICK dist \in 1 .. MaxDistance, n \in kMatchMinLen .. MaxLen :
            /\ Decoding
            /\ rep3' = rep2 /\ rep2' = rep1 /\ rep1' = rep0 /\ rep0' = dist
            /\ state' = (IF state < kNumLitStates THEN 0 ELSE 3) + kNumLitStates
            /\ CopyOrFail(dist, n)
            /\ UNCHANGED <<target, damaged, outSize>>
        BY <1>3 DEF Match
    <2>1. RepsInside
        BY DEF LzmaInv, Decoding
    <2>2. RepInside(rep1') /\ RepInside(rep2') /\ RepInside(rep3')
        BY <2>1 DEF RepsInside
    <2>3. state' \in 0 .. 11
        BY DEF kNumLitStates
    <2>4. dist \in Nat /\ dist >= 1
        BY LzmaAssumption
    <2> QED
        BY <2>2, <2>3, <2>4, CopyKeeps
<1>4. CASE EndMarker
    BY <1>4, LzmaAssumption DEF EndMarker, LzmaInv, LzmaTypeOK, nowPos, Bytes, kNumLitStates
<1>5. CASE RepMatch
    <2> PICK k \in 0 .. 3, n \in kMatchMinLen .. MaxLen :
            /\ Decoding
            /\ rep0' = ShiftedReps(k)[1] /\ rep1' = ShiftedReps(k)[2]
            /\ rep2' = ShiftedReps(k)[3] /\ rep3' = ShiftedReps(k)[4]
            /\ state' = IF state < kNumLitStates THEN 8 ELSE 11
            /\ CopyOrFail(ShiftedReps(k)[1], n)
            /\ UNCHANGED <<target, damaged, outSize>>
        BY <1>5 DEF RepMatch
    <2>1. RepsInside
        BY DEF LzmaInv, Decoding
    <2>2. \A i \in 1 .. 4 : ShiftedReps(k)[i] \in {rep0, rep1, rep2, rep3}
        BY DEF ShiftedReps
    <2>3. \A r \in {rep0, rep1, rep2, rep3} : RepInside(r)
        BY <2>1 DEF RepsInside
    <2>4. RepInside(rep0') /\ RepInside(rep1') /\ RepInside(rep2') /\ RepInside(rep3')
        BY <2>2, <2>3
    <2>5. rep0' \in Nat /\ rep0' >= 1
        BY <2>4 DEF RepInside
    <2>6. state' \in 0 .. 11
        OBVIOUS
    <2> QED
        BY <2>4, <2>5, <2>6, CopyKeeps
<1>6. CASE InputEnds \/ Finish
    BY <1>6 DEF InputEnds, Finish, Failed, LzmaInv, LzmaTypeOK, nowPos, Bytes, RepsInside, RepInside
<1>7. CASE UNCHANGED lzmaVars
    BY <1>7 DEF lzmaVars, LzmaInv, LzmaTypeOK, nowPos, Bytes, RepsInside, RepInside
<1> QED
    BY <1>1, <1>2, <1>3, <1>4, <1>5, <1>6, <1>7 DEF LzmaNext

(* For every text, stream, buffer and bound on the distances: the output   *)
(* never grows beyond its buffer, and what LzmaDecode.c keeps has its type.*)
THEOREM DecoderTypes == LzmaSpec => []LzmaTypeOK
<1>1. LzmaInv => LzmaTypeOK
    BY DEF LzmaInv
<1> QED
    BY <1>1, InitInv, StepInv, PTL DEF LzmaSpec

(* For every text, stream, buffer and bound on the distances, damaged or   *)
(* not: no byte is read from before the output, although LzmaDecode checks *)
(* only the distance of matches.                                           *)
THEOREM DecoderReadsInside == LzmaSpec => []ReadsInside
<1>1. LzmaInv => ReadsInside
    BY LzmaAssumption DEF LzmaInv, LzmaTypeOK, ReadsInside, RepsInside, RepInside, nowPos
<1> QED
    BY <1>1, InitInv, StepInv, PTL DEF LzmaSpec

-----------------------------------------------------------------------------
(* The layout of the memory.                                               *)

Lens == BootstrapLens \cup UbootLens

LEMMA DownIs ==
    ASSUME NEW x \in Int
    PROVE  /\ Down(x, Page) \in Int /\ Down(x, Page) <= x
           /\ Down(x, Block) \in Int /\ Down(x, Block) <= x /\ Down(x, Block) % 16 = 0
           /\ Down(x, 16) \in Int /\ Down(x, 16) <= x /\ Down(x, 16) % 8 = 0
BY DEF Down, Page, Block

(* The addresses of a layout, from the top of the memory down.             *)
LEMMA LayoutDescends ==
    ASSUME NEW ram \in Nat, NEW len \in Nat \ {0}
    PROVE  /\ CodeStart(ram, len) \in Int /\ CodeStart(ram, len) + len <= ram /\ CodeStart(ram, len) % 16 = 0
           /\ MallocStart(ram, len) \in Int /\ MallocStart(ram, len) < CodeStart(ram, len)
           /\ BdStart(ram, len) \in Int /\ BdStart(ram, len) < MallocStart(ram, len)
           /\ GdStart(ram, len) \in Int /\ GdStart(ram, len) < BdStart(ram, len)
           /\ ParamsStart(ram, len) \in Int /\ ParamsStart(ram, len) < GdStart(ram, len)
           /\ StackTop(ram, len) \in Int /\ StackTop(ram, len) < ParamsStart(ram, len)
           /\ StackTop(ram, len) % 8 = 0
<1>1. Down(ram, Page) \in Int /\ Down(ram, Page) <= ram
    BY DownIs
<1>2. CodeStart(ram, len) \in Int /\ CodeStart(ram, len) + len <= ram /\ CodeStart(ram, len) % 16 = 0
    <2>1. Down(ram, Page) - len \in Int
        BY <1>1
    <2>2. CodeStart(ram, len) <= Down(ram, Page) - len /\ CodeStart(ram, len) \in Int /\ CodeStart(ram, len) % 16 = 0
        BY <2>1, DownIs DEF CodeStart
    <2> QED
        BY <1>1, <2>2
<1>3. MallocStart(ram, len) \in Int /\ MallocStart(ram, len) < CodeStart(ram, len)
    BY <1>2, StartUpAssumption DEF MallocStart
<1>4. BdStart(ram, len) \in Int /\ BdStart(ram, len) < MallocStart(ram, len)
    BY <1>3, StartUpAssumption DEF BdStart
<1>5. GdStart(ram, len) \in Int /\ GdStart(ram, len) < BdStart(ram, len)
    BY <1>4, StartUpAssumption DEF GdStart
<1>6. ParamsStart(ram, len) \in Int /\ ParamsStart(ram, len) < GdStart(ram, len)
    BY <1>5, StartUpAssumption DEF ParamsStart
<1>7. /\ StackTop(ram, len) \in Int /\ StackTop(ram, len) < ParamsStart(ram, len)
      /\ StackTop(ram, len) % 8 = 0
    <2>1. ParamsStart(ram, len) - 16 \in Int
        BY <1>6
    <2>2. /\ Down(ParamsStart(ram, len) - 16, 16) \in Int /\ Down(ParamsStart(ram, len) - 16, 16) % 8 = 0
          /\ Down(ParamsStart(ram, len) - 16, 16) <= ParamsStart(ram, len) - 16
        BY <2>1, DownIs
    <2> QED
        BY <1>6, <2>2 DEF StackTop
<1> QED
    BY <1>2, <1>3, <1>4, <1>5, <1>6, <1>7

(* A layout in a memory that is large enough is sound.                     *)
LEMMA LayoutSound ==
    ASSUME memory \in Nat, NEW len \in Nat \ {0}, StackTop(memory, len) >= StackUse
    PROVE  SoundLayout(Layout(memory, len))
<1> DEFINE l == Layout(memory, len)
<1>1. l.code.to <= memory /\ l.code.from % 16 = 0
    BY LayoutDescends DEF Layout, Region
<1>2. l.stack.from >= 0 /\ l.stack.to % 8 = 0
    BY LayoutDescends, StartUpAssumption DEF Layout, Region
<1>3. /\ l.stack.to <= l.params.from /\ l.params.to = l.gd.from /\ l.gd.to = l.bd.from
      /\ l.bd.to = l.malloc.from /\ l.malloc.to = l.code.from
      /\ l.params.from \in Int /\ l.gd.from \in Int /\ l.bd.from \in Int /\ l.malloc.from \in Int
      /\ l.code.from \in Int /\ l.stack.to \in Int
      /\ l.params.from < l.gd.from /\ l.gd.from < l.bd.from /\ l.bd.from < l.malloc.from
      /\ l.malloc.from < l.code.from
    BY LayoutDescends DEF Layout, Region
<1>4. DOMAIN l = {"code", "malloc", "bd", "gd", "params", "stack"}
    BY DEF Layout
<1>5. \A r, s \in {"code", "malloc", "bd", "gd", "params", "stack"} : r # s => Apart(l[r], l[s])
    <2> HIDE DEF l
    <2> SUFFICES ASSUME NEW r \in {"code", "malloc", "bd", "gd", "params", "stack"},
                        NEW s \in {"code", "malloc", "bd", "gd", "params", "stack"}, r # s
                 PROVE  Apart(l[r], l[s])
        OBVIOUS
    <2> QED
        BY <1>3 DEF Apart
<1> HIDE DEF l
<1>6. QED
    BY <1>1, <1>2, <1>4, <1>5 DEF SoundLayout, l

(* A product of naturals grows with its first factor.                      *)
LEMMA ProductGrows ==
    ASSUME NEW u \in Nat \ {0}, NEW j \in Nat, NEW k \in Nat, j < k PROVE j * u \in Nat /\ j * u < k * u
OBVIOUS

(* ar7240_ddr_find_size finds the memory of the board: no address below    *)
(* its end wraps to 0.                                                     *)
LEMMA SizeIsFound ==
    ASSUME memory \in RamSizes PROVE FoundSize = memory
<1> DEFINE k == memory \div SizeIncrement
<1>1. memory \in Nat \ {0} /\ SizeIncrement \in Nat \ {0} /\ memory % SizeIncrement = 0
    BY StartUpAssumption
<1>2. k \in Nat /\ k * SizeIncrement = memory
    BY <1>1, SMT
<1> HIDE DEF k
<1>3. k \in Nat \ {0}
    BY <1>1, <1>2
<1>4. Wraps(k)
    BY <1>1, <1>2 DEF Wraps
<1>5. \A j \in 1 .. k - 1 : ~Wraps(j)
    <2> TAKE j \in 1 .. k - 1
    <2>1. j * SizeIncrement \in Nat /\ j * SizeIncrement < memory
        BY <1>1, <1>2, <1>3, ProductGrows
    <2>2. j * SizeIncrement > 0
        BY <1>1, ProductGrows, 0 < j, 0 * SizeIncrement = 0
    <2>3. \A x \in Nat : x < memory => x % memory = x
        BY <1>1
    <2> QED
        BY <1>1, <2>1, <2>2, <2>3 DEF Wraps
<1>6. \A i \in 1 .. k : (Wraps(i) /\ \A j \in 1 .. i - 1 : ~Wraps(j)) <=> i = k
    BY <1>3, <1>4, <1>5
<1>7. FirstWrap = k
    BY <1>3, <1>6 DEF FirstWrap, k
<1> QED
    BY <1>2, <1>7 DEF FoundSize

(* The inductive invariant: once the size is found, it is the memory's,    *)
(* what is reserved is the layout of one of the programs, and what must    *)
(* not be written yet lies on the other side of the unpacked boot loader.  *)
StartInv ==
    /\ memory \in RamSizes /\ lens \in [bootstrap : BootstrapLens, uboot : UbootLens]
    /\ stage # "bootstrap_board_init_f" => ramSize = memory
    /\ layout = NoLayout \/ \E len \in Lens : layout = Layout(memory, len)
    /\ stage # "bootstrap_board_init_f" => layout # NoLayout
    /\ stage = "bootstrap_board_init_r" => inUse = {FirstStack}
    /\ stage = "board_init_f" => inUse = {layout.code, layout.stack, layout.gd, layout.malloc}
    /\ stage = "board_init_r" => inUse = {FirstStack, UnpackedAt(lens.uboot)}

(* Every region of a layout begins behind the unpacked boot loader and the *)
(* first stack.                                                            *)
LEMMA LayoutAbove ==
    ASSUME memory \in RamSizes, NEW len \in Lens, NEW unpacked \in UbootLens
    PROVE  /\ \A r \in DOMAIN Layout(memory, len) :
                  /\ Apart(UnpackedAt(unpacked), Layout(memory, len)[r])
                  /\ Apart(Layout(memory, len)[r], UnpackedAt(unpacked))
                  /\ Apart(Layout(memory, len)[r], FirstStack)
           /\ StackTop(memory, len) >= StackUse
           /\ Layout(memory, len) # NoLayout
<1> DEFINE l == Layout(memory, len)
<1>1. memory \in Nat /\ len \in Nat \ {0} /\ unpacked \in Nat \ {0} /\ TextBase \in Nat /\ InitSp \in Nat /\ StackUse \in Nat
    BY StartUpAssumption DEF Lens
<1>2. StackTop(memory, len) - StackUse >= TextBase + unpacked /\ InitSp <= TextBase
    BY EnoughMemory DEF Lens
<1>3. /\ l.stack.from = StackTop(memory, len) - StackUse /\ StackTop(memory, len) \in Int
      /\ l.stack.from <= l.params.from /\ l.params.from <= l.gd.from /\ l.gd.from <= l.bd.from
      /\ l.bd.from <= l.malloc.from /\ l.malloc.from <= l.code.from
      /\ l.params.from \in Int /\ l.gd.from \in Int /\ l.bd.from \in Int /\ l.malloc.from \in Int
      /\ l.code.from \in Int /\ l.code.to = l.code.from + len
    BY <1>1, LayoutDescends DEF Layout, Region
<1>4. DOMAIN l = {"code", "malloc", "bd", "gd", "params", "stack"}
    BY DEF Layout
<1> HIDE DEF l
<1>5. \A r \in DOMAIN l : l[r].from >= TextBase + unpacked /\ l[r].from \in Int
    BY <1>1, <1>2, <1>3, <1>4
<1>6. \A r \in DOMAIN l : /\ Apart(UnpackedAt(unpacked), l[r]) /\ Apart(l[r], UnpackedAt(unpacked))
                          /\ Apart(l[r], FirstStack)
    BY <1>1, <1>2, <1>5 DEF Apart, UnpackedAt, FirstStack, Region
<1>7. StackTop(memory, len) >= StackUse
    BY <1>1, <1>2, <1>3
<1>8. l # NoLayout
    BY <1>1, <1>3 DEF NoLayout, Region
<1> QED
    BY <1>6, <1>7, <1>8 DEF l

(* In every state of every start the running program's regions lie in the  *)
(* memory and do not overlap, and no program writes over what is needed,   *)
(* for all sizes of memory and programs, if the memory has room for both.  *)
THEOREM StartLayout == StartSpec => []LayoutIsSound
<1>1. StartInit => StartInv
    BY DEF StartInit, StartInv
<1>2. StartInv /\ [StartNext]_startVars => StartInv'
    <2> SUFFICES ASSUME StartInv, [StartNext]_startVars PROVE StartInv'
        OBVIOUS
    <2>1. lens.bootstrap \in Lens /\ lens.uboot \in Lens /\ lens.uboot \in UbootLens
        BY DEF StartInv, Lens
    <2>2. \A len : Layout(memory, len)' = Layout(memory', len)
        BY DEF Layout, Region, CodeStart, MallocStart, BdStart, GdStart, ParamsStart, StackTop, Down, Page, Block
    <2>3. Layout(memory, lens.bootstrap) # NoLayout /\ Layout(memory, lens.uboot) # NoLayout
        BY <2>1, LayoutAbove DEF StartInv
    <2>4. CASE BootstrapInitF
        <3>1. FoundSize = memory
            BY SizeIsFound DEF StartInv
        <3> QED
            BY <2>1, <2>3, <2>4, <3>1 DEF StartInv, BootstrapInitF
    <2>5. CASE BootstrapInitR
        BY <2>5 DEF StartInv, BootstrapInitR
    <2>6. CASE BoardInitF
        BY <2>1, <2>3, <2>6 DEF StartInv, BoardInitF
    <2>7. CASE BoardInitR
        BY <2>7 DEF StartInv, BoardInitR
    <2>8. CASE UNCHANGED startVars
        BY <2>8 DEF StartInv, startVars
    <2> QED
        BY <2>4, <2>5, <2>6, <2>7, <2>8 DEF StartNext
<1>3. StartInv => LayoutIsSound
    <2> SUFFICES ASSUME StartInv PROVE LayoutIsSound
        OBVIOUS
    <2>1. lens.uboot \in UbootLens /\ memory \in RamSizes /\ memory \in Nat
        BY StartUpAssumption DEF StartInv
    <2>2. ASSUME layout # NoLayout PROVE SoundLayout(layout)
        <3> PICK len \in Lens : layout = Layout(memory, len)
            BY <2>2 DEF StartInv
        <3>1. len \in Nat \ {0}
            BY StartUpAssumption DEF Lens
        <3> QED
            BY <2>1, <3>1, LayoutAbove, LayoutSound
    <2>3. ASSUME stage \in {"bootstrap_board_init_r", "board_init_r", "board_init_f"}
          PROVE  \A r \in DOMAIN layout : /\ Apart(UnpackedAt(lens.uboot), layout[r])
                                          /\ Apart(layout[r], UnpackedAt(lens.uboot))
                                          /\ Apart(layout[r], FirstStack)
        <3> PICK len \in Lens : layout = Layout(memory, len)
            BY <2>3 DEF StartInv
        <3> QED
            BY <2>1, LayoutAbove
    <2>4. ASSUME stage = "board_init_f" PROVE \A u \in inUse : Apart(UnpackedAt(lens.uboot), u)
        <3>1. {"code", "stack", "gd", "malloc"} \subseteq DOMAIN layout
            BY <2>4 DEF StartInv, Layout, NoLayout
        <3> QED
            BY <2>3, <2>4, <3>1 DEF StartInv
    <2>5. ASSUME stage \in {"bootstrap_board_init_r", "board_init_r"}
          PROVE  \A r \in DOMAIN layout, u \in inUse : Apart(layout[r], u)
        BY <2>3, <2>5 DEF StartInv
    <2> QED
        BY <2>2, <2>4, <2>5 DEF LayoutIsSound, NothingOverwritten
<1> QED
    BY <1>1, <1>2, <1>3, PTL DEF StartSpec

-----------------------------------------------------------------------------
(* The PHYs behind the switch: the inductive invariant                     *)

SetUp == {"reg_init", "advertise", "restart", "wait", "debug_address", "debug_data", "alive"}
Counting == {"is_up", "latch", "control", "gain"}
Asking == {"fdx_link", "fdx", "speed_link", "speed", "tune_address", "tune_data"}

Modes == {"10", "100", "1000"}
FlagNames == {"auto", "reset", "neg", "latch", "pass", "resolved", "full", "all", "iot", "100M"} \cup Modes
Registers == {"control", "status", "spec", "advertise", "debug_address", "debug_data", "none"}

PhyStates == [reset : BOOLEAN, up : BOOLEAN, latch : BOOLEAN, resolved : BOOLEAN, full : BOOLEAN, speed : Modes]
Commands == [read : BOOLEAN, phy : Phys \cup {"none"}, reg : Registers, data : SUBSET FlagNames]
Accesses ==
    [pc : {"idle", "look", "return"}, read : BOOLEAN, phy : Phys \cup {"none"}, reg : Registers, data : SUBSET FlagNames]
Tasks ==
    [fn : SetUp \cup Counting \cup Asking \cup {"idle", "mac"}, unit : Units \cup {0}, k : Nat, tries : Nat,
     status : SUBSET FlagNames, link : Nat, full : BOOLEAN, speed : Modes]
MacStates ==
    [ready : BOOLEAN, link : Nat, speed : Modes \cup {"none"}, duplex : BOOLEAN, gigabit : BOOLEAN, fast : BOOLEAN,
     fullDuplex : BOOLEAN]

SwitchTypeOK ==
    /\ phys \in [Phys -> PhyStates]
    /\ mdio \in [low : SUBSET FlagNames, busy : BOOLEAN, command : Commands]
    /\ access \in Accesses /\ task \in Tasks
    /\ isPhyAlive \in [Phys -> BOOLEAN] /\ macs \in [Units -> MacStates]
    /\ gaveUp \in BOOLEAN /\ ever \subseteq Phys /\ always \subseteq Phys

(* The command in the register is the one of the access that waits for it; *)
(* when it is no longer busy it has been carried out, and what it read, or *)
(* wrote, is in the low half.                                              *)
AccessWith(a, value) == [read |-> a.read, phy |-> a.phy, reg |-> a.reg, data |-> value]

OwnCommand ==
    /\ access.pc = "look" =>
           /\ mdio.command = AccessWith(access, access.data)
           /\ ~mdio.busy => /\ done = AccessWith(access, mdio.low)
                            /\ ~access.read => mdio.low = access.data
    /\ access.pc = "return" /\ ~gaveUp =>
           ~mdio.busy /\ done = AccessWith(access, access.data)
    /\ access.pc = "idle" => ~mdio.busy

(* The port of the task, and no link is counted before a check.            *)
TaskFits(j) ==
    /\ j.fn # "idle" => j.unit \in Units /\ j.k \in DOMAIN PortsOf[j.unit]
    /\ j.fn \in SetUp => j.link = 0

(* The access is the one the task waits for.                               *)
AccessFits ==
    /\ task.fn \in {"idle", "mac"} <=> access.pc = "idle"
    /\ access.pc # "idle" =>
           LET a == AccessOf(task, isPhyAlive)
           IN  access.read = a.read /\ access.phy = a.phy /\ access.reg = a.reg

LinksOK ==
    /\ \A p \in Phys : phys[p].latch => phys[p].up
    /\ \A p \in always : phys[p].up
    /\ task.fn \in Counting => \A p \in Phys : phys[p].up => p \in ever

(* What a value that was read on this check says of the link.              *)
Truthful(p, reg, r) ==
    /\ reg = "spec" => /\ ("pass" \in r => p \in ever) /\ (p \in always => "pass" \in r)
    /\ reg = "status" => /\ ("latch" \in r => p \in ever) /\ (p \in always => "neg" \in r)
    /\ reg = "control" => "auto" \in r

ReadIsTruthful ==
    task.fn \in Counting =>
        /\ access.pc = "look" /\ ~mdio.busy => Truthful(Port(task), access.reg, mdio.low)
        /\ access.pc = "return" /\ ~gaveUp => Truthful(Port(task), access.reg, access.data)

(* The ports before port k, and how many of the ports P have a link.       *)
Seen(u, k) == {PortsOf[u][i] : i \in {i \in DOMAIN PortsOf[u] : i < k}}
PortsIn(u) == {PortsOf[u][k] : k \in DOMAIN PortsOf[u]}

Between(n, P, alive) ==
    /\ IsFiniteSet(P)
    /\ Cardinality(always \cap P) <= n /\ n <= Cardinality(ever \cap P)
    /\ \A p \in P : alive[p] => p \in ever

LinksCounted(j, alive) ==
    /\ j.fn \in Counting => Between(j.link, Seen(j.unit, j.k), alive)
    /\ j.fn \in Asking \cup {"mac"} => Between(j.link, PortsIn(j.unit), alive)
    /\ j.fn = "latch" => alive[Port(j)] /\ Port(j) \notin always
    /\ j.fn = "control" => (Port(j) \in always => "neg" \in j.status)
    /\ j.fn \in {"control", "gain"} => ~alive[Port(j)]

MacOK == (\A u \in Units : macs[u].duplex = macs[u].fullDuplex) /\ MacFollowsLink

SwitchInv ==
    /\ SwitchTypeOK /\ OwnCommand /\ TaskFits(task) /\ AccessFits /\ LinksOK
    /\ ReadIsTruthful /\ LinksCounted(task, isPhyAlive) /\ MacOK

-----------------------------------------------------------------------------
(* Ports and how they are counted                                          *)

LEMMA Ports ==
    ASSUME NEW j \in Tasks, j.unit \in Units, j.k \in DOMAIN PortsOf[j.unit]
    PROVE  /\ Port(j) \in Phys
           /\ LastPort(j) \in Phys
           /\ Len(PortsOf[j.unit]) \in Nat \ {0}
           /\ DOMAIN PortsOf[j.unit] = 1 .. Len(PortsOf[j.unit])
  <1>1. PortsOf[j.unit] \in Seq(STRING) /\ PortsOf[j.unit] # <<>>
    BY SwitchAssumption DEF Units
  <1>2. /\ Len(PortsOf[j.unit]) \in Nat \ {0}
        /\ DOMAIN PortsOf[j.unit] = 1 .. Len(PortsOf[j.unit])
    BY <1>1
  <1>3. Len(PortsOf[j.unit]) \in DOMAIN PortsOf[j.unit]
    BY <1>2
  <1>4. \A k \in DOMAIN PortsOf[j.unit] : PortsOf[j.unit][k] \in Phys
    BY <1>1 DEF Phys
  <1> QED
    BY <1>2, <1>3, <1>4 DEF Port, LastPort

LEMMA AddPort ==
    ASSUME NEW P, IsFiniteSet(P), NEW p, p \notin P, NEW A
    PROVE  /\ IsFiniteSet(P \cup {p})
           /\ Cardinality(A \cap P) \in Nat
           /\ Cardinality(A \cap (P \cup {p})) = Cardinality(A \cap P) + (IF p \in A THEN 1 ELSE 0)
  <1>1. IsFiniteSet(P \cup {p})
    BY FS_AddElement
  <1>2. IsFiniteSet(A \cap P) /\ p \notin A \cap P
    BY FS_Intersection
  <1>3. Cardinality(A \cap P) \in Nat
    BY <1>2, FS_CardinalityType
  <1>4. CASE p \in A
    <2>1. A \cap (P \cup {p}) = (A \cap P) \cup {p}
      BY <1>4
    <2>2. Cardinality((A \cap P) \cup {p}) = Cardinality(A \cap P) + 1
      BY <1>2, FS_AddElement
    <2> QED
      BY <1>1, <1>3, <1>4, <2>1, <2>2
  <1>5. CASE p \notin A
    <2>1. A \cap (P \cup {p}) = A \cap P
      BY <1>5
    <2>2. Cardinality(A \cap (P \cup {p})) = Cardinality(A \cap P)
      BY <2>1
    <2> QED
      BY <1>1, <1>3, <1>5, <2>2
  <1> QED
    BY <1>4, <1>5

LEMMA NextSeen ==
    ASSUME NEW j \in Tasks, j.unit \in Units, j.k \in DOMAIN PortsOf[j.unit]
    PROVE  /\ Port(j) \notin Seen(j.unit, j.k)
           /\ Seen(j.unit, 1) = {}
           /\ Seen(j.unit, j.k + 1) = Seen(j.unit, j.k) \cup {Port(j)}
           /\ j.k = Len(PortsOf[j.unit]) => PortsIn(j.unit) = Seen(j.unit, j.k) \cup {Port(j)}
  <1> DEFINE s == PortsOf[j.unit]
  <1>1. /\ DOMAIN s = 1 .. Len(s) /\ Len(s) \in Nat /\ j.k \in DOMAIN s
        /\ Port(j) = s[j.k]
    BY Ports DEF Port
  <1>2. \A a, b \in DOMAIN s : a # b => s[a] # s[b]
    BY SwitchAssumption DEF Units
  <1>3. Seen(j.unit, j.k) = {s[i] : i \in {i \in DOMAIN s : i < j.k}}
    BY DEF Seen
  <1>4. Seen(j.unit, j.k + 1) = {s[i] : i \in {i \in DOMAIN s : i < j.k + 1}}
    BY DEF Seen
  <1>5. Seen(j.unit, 1) = {s[i] : i \in {i \in DOMAIN s : i < 1}}
    BY DEF Seen
  <1>6. PortsIn(j.unit) = {s[i] : i \in DOMAIN s}
    BY DEF PortsIn
  <1> HIDE DEF s
  <1>7. Port(j) \notin Seen(j.unit, j.k)
    BY <1>1, <1>2, <1>3
  <1>8. Seen(j.unit, 1) = {}
    BY <1>1, <1>5
  <1>9. Seen(j.unit, j.k + 1) = Seen(j.unit, j.k) \cup {Port(j)}
    <2>1. \A i \in DOMAIN s : i < j.k + 1 <=> i < j.k \/ i = j.k
      BY <1>1
    <2>2. {i \in DOMAIN s : i < j.k + 1} = {i \in DOMAIN s : i < j.k} \cup {j.k}
      BY <1>1, <2>1
    <2> QED
      BY <1>1, <1>3, <1>4, <2>2
  <1>10. ASSUME j.k = Len(s) PROVE PortsIn(j.unit) = Seen(j.unit, j.k) \cup {Port(j)}
    <2>1. DOMAIN s = {i \in DOMAIN s : i < j.k} \cup {j.k}
      BY <1>1, <1>10
    <2> QED
      BY <1>1, <1>3, <1>6, <2>1
  <1> QED
    BY <1>7, <1>8, <1>9, <1>10 DEF s
-----------------------------------------------------------------------------
(* One task behind another                                                 *)

LEMMA AccessOK ==
    ASSUME NEW j \in Tasks, TaskFits(j), NEW alive \in [Phys -> BOOLEAN]
    PROVE  LET a == AccessOf(j, alive)
           IN  /\ a \in Accesses
               /\ j.fn \in {"idle", "mac"} => a = NoAccess
               /\ j.fn \notin {"idle", "mac"} => a.pc = "look" /\ a.phy \in Phys /\ a # NoAccess
               /\ j.fn \in Counting => a.phy = Port(j) /\ a.read
  <1>0. NoAccess \in Accesses /\ NoAccess.pc = "idle"
    BY DEF NoAccess, Accesses, Registers
  <1>1. CASE j.fn \in {"idle", "mac"}
    BY <1>0, <1>1 DEF AccessOf, Counting
  <1>2. CASE j.fn \notin {"idle", "mac"}
    <2>1. j.unit \in Units /\ j.k \in DOMAIN PortsOf[j.unit]
      BY <1>2 DEF TaskFits
    <2>2. Port(j) \in Phys /\ LastPort(j) \in Phys
      BY <2>1, Ports
    <2>3. ASSUME NEW p \in Phys, NEW reg \in Registers
          PROVE  /\ ReadReg(p, reg) \in Accesses /\ ReadReg(p, reg).pc = "look"
                 /\ ReadReg(p, reg).phy = p /\ ReadReg(p, reg).read
      BY <1>0 DEF ReadReg, NoAccess, Accesses
    <2>4. ASSUME NEW p \in Phys, NEW reg \in Registers, NEW data \in SUBSET FlagNames
          PROVE  /\ WriteReg(p, reg, data) \in Accesses /\ WriteReg(p, reg, data).pc = "look"
                 /\ WriteReg(p, reg, data).phy = p
      BY <1>0 DEF WriteReg, NoAccess, Accesses
    <2>5. j.fn \in SetUp \cup Counting \cup Asking
      BY <1>2 DEF Tasks
    <2>6. CASE j.fn \in SetUp
      <3>1. \/ \E reg \in Registers, data \in SUBSET FlagNames : AccessOf(j, alive) = WriteReg(Port(j), reg, data)
            \/ AccessOf(j, alive) = ReadReg(LastPort(j), "control")
            \/ AccessOf(j, alive) = ReadReg(Port(j), "spec")
        BY <2>6 DEF AccessOf, SetUp, Registers, FlagNames
      <3>2. "control" \in Registers /\ "spec" \in Registers
        BY DEF Registers
      <3>3. j.fn \notin Counting
        BY <2>6 DEF SetUp, Counting
      <3> QED
        BY <1>0, <1>2, <2>2, <2>3, <2>4, <3>1, <3>2, <3>3
    <2>7. CASE j.fn \in Counting
      <3>1. \E reg \in Registers : AccessOf(j, alive) = ReadReg(Port(j), reg)
        BY <2>7 DEF AccessOf, Counting, Registers
      <3> QED
        BY <1>0, <1>2, <2>2, <2>3, <3>1
    <2>8. CASE j.fn \in Asking
      <3>1. \/ \E reg \in Registers, data \in SUBSET FlagNames : AccessOf(j, alive) = WriteReg(Port(j), reg, data)
            \/ AccessOf(j, alive) = ReadReg(Port(j), "spec")
        BY <2>8 DEF AccessOf, Asking, Registers, FlagNames
      <3>2. "spec" \in Registers
        BY DEF Registers
      <3>3. j.fn \notin Counting
        BY <2>8 DEF Asking, Counting
      <3> QED
        BY <1>0, <1>2, <2>2, <2>3, <2>4, <3>1, <3>2, <3>3
    <2> QED
      BY <2>5, <2>6, <2>7, <2>8
  <1> QED
    BY <1>1, <1>2

LEMMA EachPortOK ==
    ASSUME NEW j \in Tasks, j.unit \in Units, j.k \in DOMAIN PortsOf[j.unit],
           NEW fn \in SetUp \cup Counting \cup Asking, NEW then \in SetUp \cup Counting \cup Asking \cup {"idle", "mac"}
    PROVE  LET n == EachPort(j, fn, then)
           IN  /\ n \in Tasks /\ n.unit = j.unit /\ n.k \in DOMAIN PortsOf[j.unit]
               /\ n.link = j.link
               /\ \/ j.k < Len(PortsOf[j.unit]) /\ n.fn = fn /\ n.k = j.k + 1
                  \/ j.k = Len(PortsOf[j.unit]) /\ n.fn = then /\ n.k = 1
  <1>1. /\ Len(PortsOf[j.unit]) \in Nat \ {0} /\ j.k \in Nat
        /\ DOMAIN PortsOf[j.unit] = 1 .. Len(PortsOf[j.unit])
    BY Ports DEF Tasks
  <1>2. CASE j.k < Len(PortsOf[j.unit])
    <2>1. EachPort(j, fn, then) = [j EXCEPT !.fn = fn, !.k = @ + 1, !.tries = 0]
      BY <1>2 DEF EachPort
    <2>2. j.k + 1 \in Nat /\ j.k + 1 \in 1 .. Len(PortsOf[j.unit])
      BY <1>1, <1>2
    <2>3. [j EXCEPT !.fn = fn, !.k = @ + 1, !.tries = 0] \in Tasks
      BY <2>2 DEF Tasks
    <2> QED
      BY <1>1, <1>2, <2>1, <2>2, <2>3 DEF Tasks
  <1>3. CASE ~(j.k < Len(PortsOf[j.unit]))
    <2>1. EachPort(j, fn, then) = [j EXCEPT !.fn = then, !.k = 1, !.tries = 0]
      BY <1>3 DEF EachPort
    <2>2. j.k = Len(PortsOf[j.unit]) /\ 1 \in 1 .. Len(PortsOf[j.unit])
      BY <1>1, <1>3
    <2>3. [j EXCEPT !.fn = then, !.k = 1, !.tries = 0] \in Tasks
      BY <2>2 DEF Tasks
    <2> QED
      BY <1>1, <2>1, <2>2, <2>3 DEF Tasks
  <1> QED
    BY <1>2, <1>3

LEMMA SetUpStep ==
    ASSUME NEW j \in Tasks, TaskFits(j), j.fn \in SetUp, NEW r, NEW alive
    PROVE  LET n == TaskAfter(j, r, alive)
           IN  n \in Tasks /\ TaskFits(n) /\ n.fn \in SetUp \cup {"idle"} /\ n.link = 0
  <1>0. /\ j.unit \in Units /\ j.k \in DOMAIN PortsOf[j.unit] /\ j.link = 0
        /\ j.tries + 1 \in Nat
    BY DEF TaskFits, SetUp, Tasks
  <1>1. ASSUME NEW fn \in SetUp
        PROVE  LET n == [j EXCEPT !.fn = fn] IN n \in Tasks /\ TaskFits(n) /\ n.fn \in SetUp /\ n.link = 0
    BY <1>0, <1>1 DEF Tasks, TaskFits
  <1>2. ASSUME NEW fn \in SetUp, NEW then \in SetUp \cup {"idle"}
        PROVE  LET n == EachPort(j, fn, then)
               IN  n \in Tasks /\ TaskFits(n) /\ n.fn \in SetUp \cup {"idle"} /\ n.link = 0
    BY <1>0, <1>2, EachPortOK DEF TaskFits
  <1>3. LET n == [j EXCEPT !.tries = @ + 1] IN n \in Tasks /\ TaskFits(n) /\ n.fn \in SetUp /\ n.link = 0
    BY <1>0 DEF Tasks, TaskFits
  <1>4. {"reg_init", "advertise", "restart", "wait", "debug_address", "debug_data", "alive"} \subseteq SetUp
    BY DEF SetUp
  <1>5. CASE j.fn = "reg_init"
    BY <1>1, <1>2, <1>4, <1>5 DEF TaskAfter, athrs26_reg_init, athrs26_reg_init_lan
  <1>6. CASE j.fn \in {"advertise", "restart", "wait"}
    BY <1>1, <1>2, <1>3, <1>4, <1>6 DEF TaskAfter, athrs26_phy_setup
  <1>7. CASE j.fn \in {"debug_address", "debug_data", "alive"}
    BY <1>1, <1>2, <1>4, <1>7 DEF TaskAfter, athrs26_phy_setup
  <1> QED
    BY <1>5, <1>6, <1>7 DEF SetUp

LEMMA AskStep ==
    ASSUME NEW j \in Tasks, TaskFits(j), j.fn \in Asking, NEW r, NEW alive
    PROVE  LET n == TaskAfter(j, r, alive)
           IN  /\ n \in Tasks /\ TaskFits(n) /\ n.fn \in Asking \cup {"mac"}
               /\ n.unit = j.unit /\ n.link = j.link
  <1> DEFINE Next(n) == /\ n \in Tasks /\ TaskFits(n) /\ n.fn \in Asking \cup {"mac"}
                        /\ n.unit = j.unit /\ n.link = j.link
  <1> SUFFICES Next(TaskAfter(j, r, alive))
    OBVIOUS
  <1>0. /\ j.unit \in Units /\ j.k \in DOMAIN PortsOf[j.unit]
        /\ j.tries + 1 \in Nat /\ 1 \in DOMAIN PortsOf[j.unit]
    BY Ports DEF TaskFits, Asking, Tasks
  <1>a. Asking \cap SetUp = {} /\ "mac" \notin SetUp
    BY DEF Asking, SetUp
  <1>1. ASSUME NEW fn \in Asking, NEW then \in Asking \cup {"mac"}
        PROVE  Next(EachPort(j, fn, then))
    <2> DEFINE n == EachPort(j, fn, then)
    <2>1. /\ n \in Tasks /\ n.unit = j.unit /\ n.k \in DOMAIN PortsOf[j.unit] /\ n.link = j.link
          /\ n.fn = fn \/ n.fn = then
      BY <1>0, <1>1, EachPortOK
    <2> HIDE DEF n
    <2>2. TaskFits(n) /\ n.fn \in Asking \cup {"mac"}
      BY <1>0, <1>a, <1>1, <2>1 DEF TaskFits
    <2>3. Next(n)
      BY <2>1, <2>2
    <2> QED
      BY <2>3 DEF n
  <1>2. Next([j EXCEPT !.tries = @ + 1])
    BY <1>0 DEF Tasks, TaskFits
  <1>3. ASSUME NEW fn \in Asking
        PROVE  /\ Next([j EXCEPT !.fn = fn]) /\ Next([j EXCEPT !.fn = fn, !.tries = 0])
               /\ Next([j EXCEPT !.fn = fn, !.tries = 1])
               /\ Next([j EXCEPT !.fn = fn, !.k = 1, !.tries = 0, !.full = TRUE])
    BY <1>0, <1>a, <1>3 DEF Tasks, TaskFits
  <1>4. ASSUME NEW speed \in Modes
        PROVE  Next([j EXCEPT !.fn = "mac", !.tries = 0, !.speed = speed])
    BY <1>0, <1>a, <1>4 DEF Tasks, TaskFits
  <1>5. {"fdx_link", "fdx", "speed_link", "speed", "tune_address", "tune_data"} \subseteq Asking
        /\ {"10", "100", "1000"} \subseteq Modes
    BY DEF Asking, Modes
  <1> HIDE DEF Next
  <1>6. CASE j.fn \in {"fdx_link", "fdx"}
    BY <1>1, <1>2, <1>3, <1>5, <1>6 DEF TaskAfter, athrs26_phy_is_fdx
  <1>7. CASE j.fn \in {"speed_link", "speed"}
    BY <1>1, <1>2, <1>3, <1>4, <1>5, <1>7 DEF TaskAfter, athrs26_phy_speed
  <1>8. CASE j.fn \in {"tune_address", "tune_data"}
    BY <1>3, <1>4, <1>5, <1>8 DEF TaskAfter, Tuned
  <1> QED
    BY <1>6, <1>7, <1>8 DEF Asking

LEMMA CountedOK ==
    ASSUME NEW j \in Tasks, j.unit \in Units, j.k \in DOMAIN PortsOf[j.unit], NEW d \in {0, 1}
    PROVE  LET n == Counted(j, d)
           IN  /\ n \in Tasks /\ TaskFits(n) /\ n.unit = j.unit /\ n.link = j.link + d
               /\ \/ j.k < Len(PortsOf[j.unit]) /\ n.fn = "is_up" /\ n.k = j.k + 1
                  \/ j.k = Len(PortsOf[j.unit]) /\ n.fn \in {"fdx_link", "mac"}
  <1> DEFINE c == [j EXCEPT !.link = @ + d]
             then == IF j.unit = 1 THEN "mac" ELSE "fdx_link"
             n == EachPort(c, "is_up", then)
  <1>1. /\ c \in Tasks /\ c.unit = j.unit /\ c.k = j.k /\ c.link = j.link + d
        /\ c.link \in Nat
    BY DEF Tasks
  <1>2. /\ "is_up" \in SetUp \cup Counting \cup Asking
        /\ then \in SetUp \cup Counting \cup Asking \cup {"idle", "mac"}
    BY DEF Counting, Asking
  <1>8. c.unit \in Units /\ c.k \in DOMAIN PortsOf[c.unit]
    BY <1>1
  <1> HIDE DEF c, then
  <1>3. /\ n \in Tasks /\ n.unit = c.unit /\ n.k \in DOMAIN PortsOf[c.unit] /\ n.link = c.link
        /\ \/ c.k < Len(PortsOf[c.unit]) /\ n.fn = "is_up" /\ n.k = c.k + 1
           \/ c.k = Len(PortsOf[c.unit]) /\ n.fn = then /\ n.k = 1
    BY <1>1, <1>2, <1>8, EachPortOK
  <1>4. Counted(j, d) = IF n.fn = "mac" THEN [n EXCEPT !.full = TRUE, !.speed = "1000"] ELSE n
    BY DEF Counted, c, then
  <1> HIDE DEF n
  <1>5. /\ Counted(j, d) \in Tasks /\ Counted(j, d).unit = n.unit /\ Counted(j, d).k = n.k
        /\ Counted(j, d).link = n.link /\ Counted(j, d).fn = n.fn
    <2> DEFINE m == [n EXCEPT !.full = TRUE, !.speed = "1000"]
    <2>1. n \in Tasks
      BY <1>3
    <2>2. m \in Tasks /\ m.unit = n.unit /\ m.k = n.k /\ m.link = n.link /\ m.fn = n.fn
      BY <2>1 DEF Tasks, Modes
    <2> HIDE DEF m
    <2> QED
      BY <2>1, <2>2, <1>4 DEF m
  <1>6. then \in {"fdx_link", "mac"}
    BY DEF then
  <1>7. n.fn \notin SetUp
    BY <1>3, <1>6 DEF SetUp
  <1> QED
    BY <1>1, <1>3, <1>5, <1>6, <1>7 DEF TaskFits

-----------------------------------------------------------------------------
(* What counting finds                                                     *)

LEMMA CountStep ==
    ASSUME SwitchTypeOK, TaskFits(task), AccessFits, ReadIsTruthful, LinksCounted(task, isPhyAlive),
           task.fn \in Counting, access.pc = "return", ~gaveUp
    PROVE  LET n == TaskAfter(task, access.data, isPhyAlive[Port(task)])
               alive == [isPhyAlive EXCEPT ![Port(task)] = AliveAfter(task.fn, access.data, @)]
           IN  /\ n \in Tasks /\ TaskFits(n) /\ n.fn \in Counting \cup Asking \cup {"mac"}
               /\ LinksCounted(n, alive)
  <1> DEFINE p == Port(task)
             u == task.unit
             k == task.k
             r == access.data
             was == isPhyAlive[p]
             is == AliveAfter(task.fn, r, was)
             alive == [isPhyAlive EXCEPT ![p] = is]
             StillFits(n) == /\ n \in Tasks /\ TaskFits(n) /\ n.fn \in Counting \cup Asking \cup {"mac"}
                        /\ LinksCounted(n, alive)
  <1> SUFFICES StillFits(TaskAfter(task, r, was))
    OBVIOUS
  <1>0. task \in Tasks /\ isPhyAlive \in [Phys -> BOOLEAN]
    BY DEF SwitchTypeOK
  <1>1. u \in Units /\ k \in DOMAIN PortsOf[u] /\ p \in Phys /\ was \in BOOLEAN
    <2>1. u \in Units /\ k \in DOMAIN PortsOf[u]
      BY DEF TaskFits, Counting
    <2> QED
      BY <1>0, <2>1, Ports
  <1>2. alive[p] = is /\ \A q \in Phys : q # p => alive[q] = isPhyAlive[q]
    BY <1>0, <1>1
  <1>3. Between(task.link, Seen(u, k), isPhyAlive)
    BY DEF LinksCounted
  <1>4. Seen(u, k) \subseteq Phys /\ p \notin Seen(u, k)
    BY <1>0, <1>1, NextSeen DEF Seen, Phys
  <1>5. Truthful(p, AccessOf(task, isPhyAlive).reg, r)
    BY DEF ReadIsTruthful, AccessFits
  <1>6. {"is_up", "latch", "control", "gain"} \subseteq Counting
        /\ {"fdx_link", "mac"} \subseteq Asking \cup {"mac"}
        /\ Counting \cap (SetUp \cup Asking \cup {"mac", "idle"}) = {}
    BY DEF Counting, Asking, SetUp
  <1> HIDE DEF p, u, k, r, was, alive, is
  <1>10. ASSUME NEW d \in {0, 1}, p \in always => d = 1, d = 1 => p \in ever, is => p \in ever
         PROVE  StillFits(Counted(task, d))
    <2> DEFINE P == Seen(u, k) \cup {p}
               n == Counted(task, d)
    <2>1. /\ IsFiniteSet(P)
          /\ Cardinality(always \cap Seen(u, k)) \in Nat /\ Cardinality(ever \cap Seen(u, k)) \in Nat
          /\ Cardinality(always \cap P) = Cardinality(always \cap Seen(u, k)) + (IF p \in always THEN 1 ELSE 0)
          /\ Cardinality(ever \cap P) = Cardinality(ever \cap Seen(u, k)) + (IF p \in ever THEN 1 ELSE 0)
      <3>1. IsFiniteSet(Seen(u, k))
        BY <1>3 DEF Between
      <3> DEFINE S == Seen(u, k)
      <3>4. IsFiniteSet(S) /\ p \notin S
        BY <1>4, <3>1
      <3> HIDE DEF S
      <3>2. /\ IsFiniteSet(S \cup {p})
            /\ Cardinality(always \cap S) \in Nat
            /\ Cardinality(always \cap (S \cup {p})) = Cardinality(always \cap S) + (IF p \in always THEN 1 ELSE 0)
        BY <3>4, AddPort
      <3>3. /\ Cardinality(ever \cap S) \in Nat
            /\ Cardinality(ever \cap (S \cup {p})) = Cardinality(ever \cap S) + (IF p \in ever THEN 1 ELSE 0)
        BY <3>4, AddPort
      <3> QED
        BY <3>2, <3>3 DEF S
    <2>2. \A q \in P : alive[q] => q \in ever
      BY <1>2, <1>3, <1>4, <1>10 DEF Between
    <2>3. task.link \in Nat
      BY <1>0 DEF Tasks
    <2>4. /\ Cardinality(always \cap P) <= task.link + d
          /\ task.link + d <= Cardinality(ever \cap P)
      <3> HIDE DEF P
      <3> QED
        BY <1>3, <1>10, <2>1, <2>3 DEF Between
    <2>5. Between(task.link + d, P, alive)
      BY <2>1, <2>2, <2>4 DEF Between
    <2>6. /\ n \in Tasks /\ TaskFits(n) /\ n.unit = u /\ n.link = task.link + d
          /\ \/ k < Len(PortsOf[u]) /\ n.fn = "is_up" /\ n.k = k + 1
             \/ k = Len(PortsOf[u]) /\ n.fn \in {"fdx_link", "mac"}
      BY <1>0, <1>1, CountedOK DEF u, k
    <2>7. Seen(u, k + 1) = P /\ (k = Len(PortsOf[u]) => PortsIn(u) = P)
      BY <1>0, <1>1, NextSeen DEF u, k, p
    <2> HIDE DEF P, n
    <2>8. CASE n.fn = "is_up" /\ n.k = k + 1
      <3>1. Between(n.link, Seen(n.unit, n.k), alive)
        BY <2>5, <2>6, <2>7, <2>8
      <3>2. LinksCounted(n, alive)
        BY <1>6, <2>8, <3>1 DEF LinksCounted
      <3> QED
        BY <1>6, <2>6, <2>8, <3>2 DEF n
    <2>9. CASE k = Len(PortsOf[u]) /\ n.fn \in {"fdx_link", "mac"}
      <3>1. Between(n.link, PortsIn(n.unit), alive)
        BY <2>5, <2>6, <2>7, <2>9
      <3>2. LinksCounted(n, alive)
        BY <1>6, <2>9, <3>1 DEF LinksCounted
      <3> QED
        BY <1>6, <2>6, <2>9, <3>2 DEF n
    <2> QED
      BY <2>6, <2>8, <2>9
  <1>11. ASSUME NEW n, NEW fn \in {"latch", "control", "gain"}, NEW status \in SUBSET FlagNames,
                n = [task EXCEPT !.fn = fn, !.status = status], is = was,
                fn = "latch" => was /\ p \notin always,
                fn # "latch" => ~was,
                fn = "control" => (p \in always => "neg" \in status)
         PROVE  StillFits(n)
    <2>1. /\ n \in Tasks /\ n.fn = fn /\ n.unit = u /\ n.k = k /\ n.link = task.link /\ n.status = status
          /\ fn \in Counting
      BY <1>0, <1>6, <1>11 DEF Tasks, u, k
    <2>2. TaskFits(n)
      BY <1>1, <1>6, <2>1 DEF TaskFits
    <2>3. Port(n) = p
      BY <2>1 DEF Port, p, u, k
    <2>4. Between(n.link, Seen(n.unit, n.k), alive)
      BY <1>2, <1>3, <1>4, <2>1 DEF Between
    <2>5. LinksCounted(n, alive)
      BY <1>2, <1>6, <1>11, <2>1, <2>3, <2>4 DEF LinksCounted
    <2> QED
      BY <2>1, <2>2, <2>5
  <1>12. r \in SUBSET FlagNames /\ task.status \in SUBSET FlagNames
    BY DEF SwitchTypeOK, Accesses, Tasks, r
  <1> HIDE DEF StillFits
  <1>13. ASSUME NEW fn \in {"latch", "control", "gain"}
         PROVE  [task EXCEPT !.fn = fn] = [task EXCEPT !.fn = fn, !.status = task.status]
    BY <1>0 DEF Tasks
  <1>14. TaskAfter(task, r, was) = athrs26_phy_is_up(task, r, was)
    BY <1>6 DEF TaskAfter, Counting
  <1>20. CASE task.fn = "is_up" /\ was
    <2>1. AccessOf(task, isPhyAlive).reg = "spec" /\ is = was
      BY <1>20 DEF AccessOf, ReadReg, NoAccess, AliveAfter, is, was, p
    <2>2. CASE "pass" \in r
      <3>1. TaskAfter(task, r, was) = Counted(task, 1)
        BY <1>14, <1>20, <2>2 DEF athrs26_phy_is_up
      <3> QED
        BY <1>5, <1>10, <2>1, <2>2, <3>1 DEF Truthful
    <2>3. CASE "pass" \notin r
      <3>1. TaskAfter(task, r, was) = [task EXCEPT !.fn = "latch", !.status = task.status]
        BY <1>13, <1>14, <1>20, <2>3 DEF athrs26_phy_is_up
      <3>2. p \notin always
        BY <1>5, <2>1, <2>3 DEF Truthful
      <3> QED
        BY <1>11, <1>12, <1>20, <2>1, <3>1, <3>2
    <2> QED
      BY <2>2, <2>3
  <1>21. CASE task.fn = "is_up" /\ ~was
    <2>1. AccessOf(task, isPhyAlive).reg = "status" /\ is = was
      BY <1>21 DEF AccessOf, ReadReg, NoAccess, AliveAfter, is, was, p
    <2>2. TaskAfter(task, r, was) = [task EXCEPT !.fn = "control", !.status = r]
      BY <1>14, <1>21 DEF athrs26_phy_is_up
    <2>3. p \in always => "neg" \in r
      BY <1>5, <2>1 DEF Truthful
    <2> QED
      BY <1>11, <1>12, <1>21, <2>1, <2>2, <2>3
  <1>22. CASE task.fn = "latch"
    <2>1. AccessOf(task, isPhyAlive).reg = "status" /\ ~is /\ p \notin always
      BY <1>22 DEF AccessOf, ReadReg, NoAccess, AliveAfter, is, LinksCounted, p
    <2>2. TaskAfter(task, r, was) = Counted(task, IF "latch" \in r THEN 1 ELSE 0)
      BY <1>14, <1>22 DEF athrs26_phy_is_up
    <2>3. "latch" \in r => p \in ever
      BY <1>5, <2>1 DEF Truthful
    <2> QED
      BY <1>10, <2>1, <2>2, <2>3
  <1>23. CASE task.fn = "control"
    <2>1. /\ AccessOf(task, isPhyAlive).reg = "control" /\ is = was /\ ~was
          /\ p \in always => "neg" \in task.status
      BY <1>23 DEF AccessOf, ReadReg, NoAccess, AliveAfter, is, was, LinksCounted, p
    <2>2. "auto" \in r
      BY <1>5, <2>1 DEF Truthful
    <2>3. CASE "neg" \in task.status
      <3>1. TaskAfter(task, r, was) = [task EXCEPT !.fn = "gain", !.status = task.status]
        BY <1>13, <1>14, <1>23, <2>3 DEF athrs26_phy_is_up
      <3> QED
        BY <1>11, <1>12, <2>1, <3>1
    <2>4. CASE "neg" \notin task.status
      <3>1. TaskAfter(task, r, was) = Counted(task, 0)
        BY <1>14, <1>23, <2>2, <2>4 DEF athrs26_phy_is_up
      <3> QED
        BY <1>10, <2>1, <2>4, <3>1
    <2> QED
      BY <2>3, <2>4
  <1>24. CASE task.fn = "gain"
    <2>1. AccessOf(task, isPhyAlive).reg = "spec" /\ ~was
      BY <1>24 DEF AccessOf, ReadReg, NoAccess, LinksCounted, was, p
    <2>2. is <=> "pass" \in r
      BY <1>1, <1>24, <2>1 DEF AliveAfter, is
    <2>3. TaskAfter(task, r, was) = Counted(task, IF "pass" \in r THEN 1 ELSE 0)
      BY <1>14, <1>24 DEF athrs26_phy_is_up
    <2>4. ("pass" \in r => p \in ever) /\ (p \in always => "pass" \in r)
      BY <1>5, <2>1 DEF Truthful
    <2>5. CASE "pass" \in r
      BY <1>10, <2>2, <2>3, <2>4, <2>5
    <2>6. CASE "pass" \notin r
      BY <1>10, <2>2, <2>3, <2>4, <2>6
    <2> QED
      BY <2>5, <2>6
  <1> QED
    BY <1>20, <1>21, <1>22, <1>23, <1>24 DEF Counting

-----------------------------------------------------------------------------
(* Each step keeps the invariant                                           *)

(* The invariant holds at the start.                                       *)
LEMMA SwitchStarts == SwitchInit => SwitchInv
  <1> SUFFICES ASSUME SwitchInit PROVE SwitchInv
    OBVIOUS
  <1>1. DownPhy(FALSE) \in PhyStates /\ ~DownPhy(FALSE).up /\ ~DownPhy(FALSE).latch
    BY DEF DownPhy, PhyStates, Modes
  <1>2. SwitchTypeOK
    <2>1. access \in Accesses /\ task \in Tasks
      BY DEF SwitchInit, NoAccess, NoTask, Accesses, Registers, Tasks, Modes
    <2>2. mdio \in [low : SUBSET FlagNames, busy : BOOLEAN, command : Commands]
      BY DEF SwitchInit, Commands, Registers
    <2>3. macs \in [Units -> MacStates]
      BY DEF SwitchInit, MacStates
    <2> QED
      BY <1>1, <2>1, <2>2, <2>3 DEF SwitchInit, SwitchTypeOK
  <1>3. /\ access.pc = "idle" /\ ~mdio.busy
        /\ task.fn = "idle" /\ task.link = 0
    BY DEF SwitchInit, NoAccess, NoTask
  <1>4. OwnCommand /\ TaskFits(task) /\ AccessFits /\ ReadIsTruthful /\ LinksCounted(task, isPhyAlive)
    BY <1>3 DEF OwnCommand, TaskFits, AccessFits, ReadIsTruthful, LinksCounted, SetUp, Counting, Asking
  <1>5. LinksOK
    BY <1>1, <1>3 DEF SwitchInit, LinksOK, Counting
  <1>6. MacOK
    BY <1>3 DEF SwitchInit, MacOK, MacFollowsLink
  <1> QED
    BY <1>2, <1>4, <1>5, <1>6 DEF SwitchInv

(* More links may have been up, and fewer all the time.                    *)
LEMMA StillBetween ==
    ASSUME NEW n \in Nat, NEW P, IsFiniteSet(P), ever \subseteq ever', always' \subseteq always,
           Cardinality(always \cap P) <= n, n <= Cardinality(ever \cap P)
    PROVE  Cardinality(always' \cap P) <= n /\ n <= Cardinality(ever' \cap P)
  <1>1. IsFiniteSet(always \cap P) /\ IsFiniteSet(ever' \cap P) /\ IsFiniteSet(P)
    BY FS_Intersection
  <1>2. always' \cap P \in SUBSET (always \cap P) /\ ever \cap P \in SUBSET (ever' \cap P)
    OBVIOUS
  <1>3. /\ IsFiniteSet(always' \cap P)
        /\ Cardinality(always' \cap P) <= Cardinality(always \cap P)
    BY <1>1, <1>2, FS_Subset
  <1>4. /\ IsFiniteSet(ever \cap P)
        /\ Cardinality(ever \cap P) <= Cardinality(ever' \cap P)
    BY <1>1, <1>2, FS_Subset
  <1>5. /\ Cardinality(always \cap P) \in Nat /\ Cardinality(always' \cap P) \in Nat
        /\ Cardinality(ever \cap P) \in Nat /\ Cardinality(ever' \cap P) \in Nat
    BY <1>1, <1>3, <1>4, FS_CardinalityType
  <1> QED
    BY <1>1, <1>3, <1>4, <1>5

LEMMA StillCounts ==
    ASSUME task \in Tasks, LinksCounted(task, isPhyAlive), ever \subseteq ever', always' \subseteq always,
           UNCHANGED <<task, isPhyAlive>>
    PROVE  LinksCounted(task, isPhyAlive)'
  <1>1. task.link \in Nat
    BY DEF Tasks
  <1>2. ASSUME NEW P, Between(task.link, P, isPhyAlive)
        PROVE  Between(task.link, P, isPhyAlive)'
    <2>1. IsFiniteSet(P) /\ Cardinality(always \cap P) <= task.link /\ task.link <= Cardinality(ever \cap P)
      BY <1>2 DEF Between
    <2>2. Cardinality(always' \cap P) <= task.link /\ task.link <= Cardinality(ever' \cap P)
      BY <1>1, <2>1, StillBetween
    <2>3. \A p \in P : isPhyAlive[p] => p \in ever'
      BY <1>2 DEF Between
    <2> QED
      BY <2>1, <2>2, <2>3 DEF Between
  <1>3. task.fn \in Counting => Between(task.link, Seen(task.unit, task.k), isPhyAlive)'
    BY <1>2 DEF LinksCounted
  <1>4. task.fn \in Asking \cup {"mac"} => Between(task.link, PortsIn(task.unit), isPhyAlive)'
    BY <1>2 DEF LinksCounted
  <1> QED
    BY <1>3, <1>4 DEF LinksCounted, Seen, PortsIn, Port

(* What the cables do, and the reset that ends, is not seen but in phys.   *)
LEMMA PhyStep ==
    ASSUME SwitchInv, ever \subseteq ever', always' \subseteq always, ever' \subseteq Phys,
           phys' \in [Phys -> PhyStates], LinksOK',
           UNCHANGED <<mdio, access, task, isPhyAlive, macs, done, gaveUp>>
    PROVE  SwitchInv'
  <1>1. SwitchTypeOK'
    BY DEF SwitchInv, SwitchTypeOK
  <1>2. OwnCommand' /\ TaskFits(task)' /\ AccessFits'
    BY DEF SwitchInv, OwnCommand, AccessWith, TaskFits, AccessFits, AccessOf, ReadReg, WriteReg, Port, LastPort, NoAccess
  <1>3. ASSUME NEW p, NEW reg, NEW r, Truthful(p, reg, r)
        PROVE  Truthful(p, reg, r)'
    BY <1>3 DEF Truthful
  <1>4. ReadIsTruthful'
    <2>1. ASSUME task.fn \in Counting, access.pc = "look", ~mdio.busy
          PROVE  Truthful(Port(task), access.reg, mdio.low)'
      BY <1>3, <2>1 DEF SwitchInv, ReadIsTruthful, Truthful, Port
    <2>2. ASSUME task.fn \in Counting, access.pc = "return", ~gaveUp
          PROVE  Truthful(Port(task), access.reg, access.data)'
      BY <1>3, <2>2 DEF SwitchInv, ReadIsTruthful, Truthful, Port
    <2> QED
      BY <2>1, <2>2 DEF ReadIsTruthful
  <1>5. LinksCounted(task, isPhyAlive)'
    BY StillCounts DEF SwitchInv, SwitchTypeOK
  <1>6. MacOK'
    BY DEF SwitchInv, MacOK, MacFollowsLink
  <1> QED
    BY <1>1, <1>2, <1>4, <1>5, <1>6 DEF SwitchInv

LEMMA CablesKeep ==
    ASSUME SwitchInv, NEW p \in Phys, PhyOutOfReset(p) \/ LinkUp(p) \/ LinkResolved(p) \/ LinkDown(p)
    PROVE  SwitchInv'
  <1>0. /\ phys \in [Phys -> PhyStates] /\ phys[p] \in PhyStates /\ ever \subseteq Phys /\ always \subseteq Phys
        /\ LinksOK
    BY DEF SwitchInv, SwitchTypeOK
  <1>1. CASE PhyOutOfReset(p)
    <2>1. [phys[p] EXCEPT !.reset = FALSE] \in PhyStates
      BY <1>0 DEF PhyStates
    <2>2. phys' \in [Phys -> PhyStates] /\ \A q \in Phys : phys'[q].up = phys[q].up /\ phys'[q].latch = phys[q].latch
      BY <1>0, <1>1, <2>1 DEF PhyOutOfReset, PhyStates
    <2>3. LinksOK'
      BY <1>0, <1>1, <2>2 DEF PhyOutOfReset, LinksOK
    <2> QED
      BY <1>0, <1>1, <2>2, <2>3, PhyStep DEF PhyOutOfReset
  <1>2. CASE LinkResolved(p)
    <2>1. [phys[p] EXCEPT !.resolved = TRUE] \in PhyStates
      BY <1>0 DEF PhyStates
    <2>2. phys' \in [Phys -> PhyStates] /\ \A q \in Phys : phys'[q].up = phys[q].up /\ phys'[q].latch = phys[q].latch
      BY <1>0, <1>2, <2>1 DEF LinkResolved, PhyStates
    <2>3. LinksOK'
      BY <1>0, <1>2, <2>2 DEF LinkResolved, LinksOK
    <2> QED
      BY <1>0, <1>2, <2>2, <2>3, PhyStep DEF LinkResolved
  <1>3. CASE LinkUp(p)
    <2>1. PICK speed \in Speeds, full \in BOOLEAN :
              phys' = [phys EXCEPT ![p] = [@ EXCEPT !.up = TRUE, !.speed = speed, !.full = full]]
      BY <1>3 DEF LinkUp
    <2> DEFINE x == [phys[p] EXCEPT !.up = TRUE, !.speed = speed, !.full = full]
    <2>2. speed \in Modes
      BY SwitchAssumption DEF Modes
    <2>3. x \in PhyStates /\ x.up
      BY <1>0, <2>2 DEF PhyStates
    <2> HIDE DEF x
    <2>4. /\ phys' \in [Phys -> PhyStates] /\ phys'[p].up
          /\ \A q \in Phys : q # p => phys'[q] = phys[q]
      BY <1>0, <2>1, <2>3 DEF x
    <2>5. LinksOK'
      BY <1>0, <1>3, <2>4 DEF LinkUp, LinksOK
    <2> QED
      BY <1>0, <1>3, <2>4, <2>5, PhyStep DEF LinkUp
  <1>4. CASE LinkDown(p)
    <2>1. DownPhy(FALSE) \in PhyStates /\ ~DownPhy(FALSE).up /\ ~DownPhy(FALSE).latch
      BY DEF DownPhy, PhyStates, Modes
    <2>2. /\ phys' \in [Phys -> PhyStates] /\ ~phys'[p].up /\ ~phys'[p].latch
          /\ \A q \in Phys : q # p => phys'[q] = phys[q]
      BY <1>0, <1>4, <2>1 DEF LinkDown
    <2>3. LinksOK'
      BY <1>0, <1>4, <2>2 DEF LinkDown, LinksOK
    <2> QED
      BY <1>0, <1>4, <2>2, <2>3, PhyStep DEF LinkDown
  <1> QED
    BY <1>1, <1>2, <1>3, <1>4

(* The command that is carried out is the one of the access that waits.    *)
LEMMA CarryOutKeeps ==
    ASSUME SwitchInv, CarryOut, ~gaveUp
    PROVE  SwitchInv'
  <1> DEFINE c == mdio.command
             p == c.phy
             value == IF c.read THEN Register(p, c.reg) ELSE c.data
             x == IF c.read THEN (IF c.reg = "status" THEN [phys[p] EXCEPT !.latch = phys[p].up] ELSE phys[p])
                  ELSE IF c.reg = "control" /\ "reset" \in c.data THEN DownPhy(TRUE) ELSE phys[p]
  <1>0. SwitchTypeOK /\ OwnCommand /\ TaskFits(task) /\ AccessFits /\ LinksOK /\ ReadIsTruthful
        /\ LinksCounted(task, isPhyAlive) /\ MacOK
    BY DEF SwitchInv
  <1>1. /\ access.pc = "look" /\ c = AccessWith(access, access.data)
        /\ access \in Accesses /\ c \in Commands /\ phys \in [Phys -> PhyStates]
    <2>1. access \in Accesses /\ mdio.command \in Commands /\ phys \in [Phys -> PhyStates]
      BY <1>0 DEF SwitchTypeOK
    <2>2. access.pc = "look"
      BY <1>0, <2>1 DEF CarryOut, OwnCommand, Accesses
    <2> QED
      BY <1>0, <2>1, <2>2 DEF OwnCommand
  <1>2. /\ task.fn \notin {"idle", "mac"} /\ p = access.phy /\ p \in Phys
        /\ c.read = access.read /\ c.reg = access.reg /\ c.data = access.data
        /\ task.fn \in Counting => p = Port(task) /\ c.read
    <2>1. task.fn \notin {"idle", "mac"} /\ task \in Tasks /\ isPhyAlive \in [Phys -> BOOLEAN]
      BY <1>0, <1>1 DEF AccessFits, SwitchTypeOK
    <2>2. access.phy = AccessOf(task, isPhyAlive).phy /\ access.read = AccessOf(task, isPhyAlive).read
      BY <1>0, <1>1 DEF AccessFits
    <2>3. p = access.phy /\ c.read = access.read /\ c.reg = access.reg /\ c.data = access.data
      BY <1>1 DEF AccessWith
    <2> QED
      BY <1>0, <2>1, <2>2, <2>3, AccessOK
  <1>3. value \in SUBSET FlagNames
    BY <1>1, <1>2 DEF Register, Flags, Commands, PhyStates, FlagNames
  <1>4. /\ x \in PhyStates /\ (x.latch => x.up) /\ (x.up => phys[p].up)
    <2>1. DownPhy(TRUE) \in PhyStates /\ ~DownPhy(TRUE).latch /\ ~DownPhy(TRUE).up
      BY DEF DownPhy, PhyStates, Modes
    <2>2. phys[p] \in PhyStates /\ (phys[p].latch => phys[p].up)
      BY <1>0, <1>1, <1>2 DEF LinksOK
    <2>3. LET y == [phys[p] EXCEPT !.latch = phys[p].up] IN y \in PhyStates /\ y.latch = y.up /\ y.up = phys[p].up
      BY <2>2 DEF PhyStates
    <2> QED
      BY <2>1, <2>2, <2>3
  <1>5. /\ phys' = [phys EXCEPT ![p] = x] /\ done' = [c EXCEPT !.data = value]
        /\ mdio' = [mdio EXCEPT !.busy = FALSE, !.low = value]
        /\ always' = {q \in always : phys'[q].up}
        /\ UNCHANGED <<access, task, isPhyAlive, macs, gaveUp, ever>>
    BY DEF CarryOut
  <1> HIDE DEF x
  <1>6. phys' \in [Phys -> PhyStates] /\ phys'[p] = x /\ \A q \in Phys : q # p => phys'[q] = phys[q]
    BY <1>1, <1>2, <1>4, <1>5
  <1>7. LinksOK'
    BY <1>0, <1>2, <1>4, <1>5, <1>6 DEF LinksOK
  <1>8. /\ mdio' \in [low : SUBSET FlagNames, busy : BOOLEAN, command : Commands]
        /\ ~mdio'.busy /\ mdio'.low = value /\ mdio'.command = c
    <2> HIDE DEF value
    <2>1. mdio \in [low : SUBSET FlagNames, busy : BOOLEAN, command : Commands]
      BY <1>0 DEF SwitchTypeOK
    <2> QED
      BY <1>3, <1>5, <2>1
  <1>9. SwitchTypeOK'
    BY <1>0, <1>5, <1>6, <1>8 DEF SwitchTypeOK
  <1>10. OwnCommand'
    <2>1. done' = AccessWith(access, value)
      <3> HIDE DEF value
      <3> QED
        BY <1>1, <1>5 DEF AccessWith
    <2>2. ~access.read => value = access.data
      BY <1>2
    <2>3. (AccessWith(access, value))' = AccessWith(access, value')
      BY <1>5 DEF AccessWith
    <2> HIDE DEF value
    <2>4. done' = AccessWith(access', mdio'.low)
      BY <1>5, <1>8, <2>1
    <2>5. mdio'.command = AccessWith(access', access'.data)
      BY <1>1, <1>5, <1>8
    <2> QED
      BY <1>1, <1>5, <1>8, <2>2, <2>4, <2>5 DEF OwnCommand, AccessWith
  <1>11. TaskFits(task)' /\ AccessFits' /\ MacOK'
    BY <1>0, <1>5 DEF TaskFits, AccessFits, AccessOf, ReadReg, WriteReg, Port, LastPort, NoAccess, MacOK, MacFollowsLink
  <1>12. LinksCounted(task, isPhyAlive)'
    BY <1>0, <1>5, StillCounts DEF SwitchTypeOK
  <1>13. ReadIsTruthful'
    <2> SUFFICES ASSUME task.fn \in Counting
                 PROVE  Truthful(Port(task), access.reg, mdio.low)'
      BY <1>1, <1>5 DEF ReadIsTruthful
    <2>1. value = Register(p, c.reg) /\ p = Port(task) /\ c.reg = access.reg
      BY <1>2
    <2>2. /\ c.reg = "spec" => ("pass" \in value <=> phys[p].up)
          /\ c.reg = "status" => ("latch" \in value => phys[p].latch) /\ (phys[p].up => "neg" \in value)
          /\ c.reg = "control" => "auto" \in value
      <3>1. phys[p].speed \in {"10", "100", "1000"}
        BY <1>1, <1>2 DEF PhyStates, Modes
      <3>2. CASE c.reg = "spec"
        BY <2>1, <3>1, <3>2 DEF Register, Flags
      <3>3. CASE c.reg = "status"
        BY <2>1, <3>3 DEF Register, Flags
      <3>4. CASE c.reg = "control"
        BY <2>1, <3>4 DEF Register, Flags
      <3> QED
        BY <3>2, <3>3, <3>4
    <2>3. /\ phys[p].up => p \in ever
          /\ phys[p].latch => p \in ever
          /\ p \in always => phys[p].up
      BY <1>0, <1>2 DEF LinksOK
    <2>4. Port(task)' = p /\ access'.reg = c.reg /\ mdio'.low = value /\ ever' = ever /\ always' \subseteq always
      BY <1>5, <1>8, <2>1 DEF Port
    <2> HIDE DEF value, c, p
    <2> QED
      BY <2>2, <2>3, <2>4 DEF Truthful
  <1> QED
    BY <1>7, <1>9, <1>10, <1>11, <1>12, <1>13 DEF SwitchInv

LEMMA LooksKeep ==
    ASSUME SwitchInv, LookForRead \/ LookForWrite, ~gaveUp
    PROVE  SwitchInv'
  <1>0. SwitchTypeOK /\ OwnCommand /\ TaskFits(task) /\ AccessFits /\ LinksOK /\ ReadIsTruthful
        /\ LinksCounted(task, isPhyAlive) /\ MacOK
    BY DEF SwitchInv
  <1>1. /\ access.pc = "look" /\ access'.pc = "return" /\ access' \in Accesses
        /\ access'.read = access.read /\ access'.phy = access.phy /\ access'.reg = access.reg
        /\ ~gaveUp' => ~mdio.busy /\ access'.data = mdio.low
        /\ gaveUp' \in BOOLEAN
        /\ UNCHANGED <<phys, mdio, task, isPhyAlive, macs, done, ever, always>>
    <2>1. access \in Accesses /\ mdio.low \in SUBSET FlagNames /\ mdio.busy \in BOOLEAN /\ gaveUp \in BOOLEAN
      BY <1>0 DEF SwitchTypeOK
    <2>2. CASE LookForRead
      BY <2>1, <2>2 DEF LookForRead, Accesses
    <2>3. CASE LookForWrite
      <3>1. mdio.low = access.data
        BY <1>0, <2>3 DEF LookForWrite, OwnCommand
      <3> QED
        BY <2>1, <2>3, <3>1 DEF LookForWrite, Accesses
    <2> QED
      BY <2>2, <2>3
  <1>2. SwitchTypeOK'
    BY <1>0, <1>1 DEF SwitchTypeOK
  <1>3. OwnCommand'
    BY <1>0, <1>1 DEF OwnCommand, AccessWith
  <1>4. AccessFits'
    BY <1>0, <1>1 DEF AccessFits, AccessOf, ReadReg, WriteReg, Port, LastPort, NoAccess
  <1>5. TaskFits(task)' /\ LinksOK' /\ LinksCounted(task, isPhyAlive)' /\ MacOK'
    BY <1>0, <1>1 DEF TaskFits, LinksOK, LinksCounted, Between, Seen, PortsIn, Port, MacOK, MacFollowsLink
  <1>6. ReadIsTruthful'
    BY <1>0, <1>1 DEF ReadIsTruthful, Truthful, Port
  <1> QED
    BY <1>2, <1>3, <1>4, <1>5, <1>6 DEF SwitchInv

(* A task begins, or goes on, with its access.                             *)
LEMMA PutOK ==
    ASSUME SwitchTypeOK, OwnCommand, access.pc # "look", ~gaveUp,
           NEW a \in Accesses, a = NoAccess \/ a.pc = "look", Put(a)
    PROVE  /\ access' = a
           /\ mdio' \in [low : SUBSET FlagNames, busy : BOOLEAN, command : Commands]
           /\ IF a = NoAccess THEN ~mdio'.busy ELSE mdio'.busy /\ mdio'.command = AccessWith(a, a.data)
  <1>1. /\ mdio \in [low : SUBSET FlagNames, busy : BOOLEAN, command : Commands] /\ ~mdio.busy
        /\ access' = a
    BY DEF SwitchTypeOK, OwnCommand, Accesses, Put
  <1>2. CASE a = NoAccess
    BY <1>1, <1>2 DEF Put
  <1>3. CASE a # NoAccess
    <2>1. mdio' = athrs26_reg_write(mdio, a)
      BY <1>3 DEF Put
    <2>2. mdio' = [[mdio EXCEPT !.low = a.data] EXCEPT !.busy = TRUE, !.command = AccessWith(a, a.data)]
      BY <1>1, <2>1 DEF athrs26_reg_write, Transfer, AccessWith
    <2>3. AccessWith(a, a.data) \in Commands /\ a.data \in SUBSET FlagNames
      BY DEF AccessWith, Commands, Accesses
    <2> QED
      BY <1>1, <1>3, <2>2, <2>3
  <1> QED
    BY <1>2, <1>3

(* What a step that gives the program its next access has to show.         *)
LEMMA NextAccess ==
    ASSUME SwitchInv, access.pc # "look", ~gaveUp, task' \in Tasks, TaskFits(task)', LinksOK', LinksCounted(task, isPhyAlive)',
           MacOK', isPhyAlive' \in [Phys -> BOOLEAN], macs' \in [Units -> MacStates],
           Put(AccessOf(task', isPhyAlive')), ever' \subseteq Phys, always' \subseteq Phys,
           UNCHANGED <<phys, done, gaveUp>>
    PROVE  SwitchInv'
  <1> DEFINE a == AccessOf(task', isPhyAlive')
  <1>1. /\ a \in Accesses
        /\ task'.fn \in {"idle", "mac"} => a = NoAccess
        /\ task'.fn \notin {"idle", "mac"} => a.pc = "look" /\ a # NoAccess
    <2> DEFINE j == task'
               alive == isPhyAlive'
    <2>1. j \in Tasks /\ TaskFits(j) /\ alive \in [Phys -> BOOLEAN]
      BY DEF TaskFits
    <2> HIDE DEF j, alive
    <2>2. LET b == AccessOf(j, alive)
          IN  /\ b \in Accesses
              /\ j.fn \in {"idle", "mac"} => b = NoAccess
              /\ j.fn \notin {"idle", "mac"} => b.pc = "look" /\ b # NoAccess
      BY <2>1, AccessOK
    <2> QED
      BY <2>2 DEF j, alive
  <1>2. (AccessOf(task, isPhyAlive))' = a
    BY DEF AccessOf, ReadReg, WriteReg, Port, LastPort, NoAccess
  <1>3. NoAccess.pc = "idle"
    BY DEF NoAccess
  <1> HIDE DEF a
  <1>4. /\ access' = a
        /\ mdio' \in [low : SUBSET FlagNames, busy : BOOLEAN, command : Commands]
        /\ IF a = NoAccess THEN ~mdio'.busy ELSE mdio'.busy /\ mdio'.command = AccessWith(a, a.data)
    BY <1>1, PutOK DEF SwitchInv, a
  <1>5. SwitchTypeOK'
    BY <1>1, <1>4 DEF SwitchInv, SwitchTypeOK
  <1>6. OwnCommand'
    <2>1. CASE a = NoAccess
      BY <1>3, <1>4, <2>1 DEF OwnCommand
    <2>2. CASE a # NoAccess
      <3>1. access'.pc = "look"
        BY <1>1, <1>4, <2>2
      <3>2. (AccessWith(access, access.data))' = AccessWith(a, a.data)
        BY <1>4 DEF AccessWith
      <3> QED
        BY <1>4, <2>2, <3>1, <3>2 DEF OwnCommand
    <2> QED
      BY <2>1, <2>2
  <1>7. AccessFits'
    BY <1>1, <1>2, <1>3, <1>4 DEF AccessFits
  <1>8. ReadIsTruthful'
    <2>1. access'.pc # "return" /\ (access'.pc = "look" => mdio'.busy)
      BY <1>1, <1>3, <1>4
    <2> QED
      BY <2>1 DEF ReadIsTruthful
  <1> QED
    BY <1>5, <1>6, <1>7, <1>8 DEF SwitchInv

LEMMA ReturnKeeps ==
    ASSUME SwitchInv, AccessReturns, ~gaveUp
    PROVE  SwitchInv'
  <1> DEFINE n == TaskAfter(task, access.data, isPhyAlive[Port(task)])
             alive == [isPhyAlive EXCEPT ![Port(task)] = AliveAfter(task.fn, access.data, @)]
  <1>0. SwitchTypeOK /\ OwnCommand /\ TaskFits(task) /\ AccessFits /\ LinksOK /\ ReadIsTruthful
        /\ LinksCounted(task, isPhyAlive) /\ MacOK
    BY DEF SwitchInv
  <1>1. /\ access.pc = "return" /\ task.fn \notin {"idle", "mac"} /\ task \in Tasks
        /\ isPhyAlive \in [Phys -> BOOLEAN]
    BY <1>0 DEF AccessReturns, AccessFits, SwitchTypeOK
  <1>2. /\ task' = n /\ isPhyAlive' = alive /\ Put(AccessOf(task', isPhyAlive'))
        /\ UNCHANGED <<phys, macs, done, gaveUp, ever, always>>
    BY DEF AccessReturns
  <1>3. alive \in [Phys -> BOOLEAN]
    <2>1. Port(task) \in Phys /\ isPhyAlive[Port(task)] \in BOOLEAN
      BY <1>0, <1>1, Ports DEF TaskFits
    <2>2. AliveAfter(task.fn, access.data, isPhyAlive[Port(task)]) \in BOOLEAN
      <3>1. ASSUME NEW fn, NEW r, NEW was \in BOOLEAN
            PROVE  AliveAfter(fn, r, was) \in BOOLEAN
        <4>1. CASE fn = "alive"
          BY <4>1 DEF AliveAfter
        <4>2. CASE fn = "gain"
          BY <4>2 DEF AliveAfter
        <4>3. CASE fn = "latch"
          BY <4>3 DEF AliveAfter
        <4>4. CASE fn \notin {"alive", "gain", "latch"}
          BY <4>4 DEF AliveAfter
        <4> QED
          BY <4>1, <4>2, <4>3, <4>4
      <3> QED
        BY <2>1, <3>1
    <2> QED
      BY <1>1, <2>1, <2>2
  <1>4. /\ n \in Tasks /\ TaskFits(n) /\ LinksCounted(n, alive)
        /\ n.fn \in Counting => task.fn \in Counting
        /\ n.fn = "idle" => n.link = 0
    <2>1. task.fn \in SetUp \cup Counting \cup Asking
      BY <1>1 DEF Tasks
    <2>2. CASE task.fn \in SetUp
      <3>1. n \in Tasks /\ TaskFits(n) /\ n.fn \in SetUp \cup {"idle"} /\ n.link = 0
        BY <1>0, <1>1, <2>2, SetUpStep
      <3> HIDE DEF n, alive
      <3>2. n.fn \notin Counting \cup Asking \cup {"mac", "latch", "control", "gain"}
        BY <3>1 DEF SetUp, Counting, Asking
      <3> QED
        BY <3>1, <3>2 DEF LinksCounted
    <2>3. CASE task.fn \in Counting
      <3>1. /\ n \in Tasks /\ TaskFits(n) /\ n.fn \in Counting \cup Asking \cup {"mac"}
            /\ LinksCounted(n, alive)
        BY <1>0, <1>1, <2>3, CountStep DEF AccessReturns
      <3>2. n.fn # "idle"
        BY <3>1 DEF Counting, Asking
      <3> HIDE DEF n, alive
      <3> QED
        BY <2>3, <3>1, <3>2
    <2>4. CASE task.fn \in Asking
      <3>1. /\ n \in Tasks /\ TaskFits(n) /\ n.fn \in Asking \cup {"mac"}
            /\ n.unit = task.unit /\ n.link = task.link
        BY <1>0, <1>1, <2>4, AskStep
      <3>2. alive = isPhyAlive
        BY <1>1, <2>4 DEF AliveAfter, Asking
      <3>3. Between(n.link, PortsIn(n.unit), alive)
        BY <1>0, <2>4, <3>1, <3>2 DEF LinksCounted
      <3> HIDE DEF n, alive
      <3>4. n.fn \notin Counting \cup {"latch", "control", "gain", "idle"}
        BY <3>1 DEF Counting, Asking
      <3> QED
        BY <3>1, <3>3, <3>4 DEF LinksCounted
    <2> QED
      BY <2>1, <2>2, <2>3, <2>4
  <1> HIDE DEF n, alive
  <1>5. TaskFits(task)' /\ task' \in Tasks /\ isPhyAlive' \in [Phys -> BOOLEAN]
    BY <1>2, <1>3, <1>4 DEF TaskFits
  <1>6. LinksOK'
    BY <1>0, <1>2, <1>4 DEF LinksOK
  <1>7. LinksCounted(task, isPhyAlive)'
    BY <1>2, <1>4 DEF LinksCounted, Between, Seen, PortsIn, Port
  <1>8. MacOK'
    <2>1. task'.fn = "idle" => task'.link = 0
      BY <1>2, <1>4
    <2> QED
      BY <1>0, <1>2, <2>1 DEF MacOK, MacFollowsLink
  <1> QED
    BY <1>0, <1>1, <1>2, <1>5, <1>6, <1>7, <1>8, NextAccess DEF SwitchTypeOK

LEMMA CallsKeep ==
    ASSUME SwitchInv, EnetInitialize \/ CheckLink, ~gaveUp
    PROVE  SwitchInv'
  <1>0. SwitchTypeOK /\ OwnCommand /\ TaskFits(task) /\ AccessFits /\ LinksOK /\ MacOK
    BY DEF SwitchInv
  <1>1. /\ task.fn = "idle" /\ access.pc = "idle"
    BY <1>0 DEF EnetInitialize, CheckLink, AccessFits
  <1>2. ASSUME NEW u \in Units, NEW fn \in {"reg_init", "is_up"}, StartAccess(fn, u)
        PROVE  /\ task' \in Tasks /\ task'.fn = fn /\ task'.unit = u /\ task'.k = 1 /\ task'.link = 0
               /\ TaskFits(task)' /\ Put(AccessOf(task', isPhyAlive))
    <2>1. /\ task' = [NoTask EXCEPT !.fn = fn, !.unit = u]
          /\ Put(AccessOf(task', isPhyAlive))
      BY <1>2 DEF StartAccess
    <2>2. fn \in SetUp \cup Counting
      BY DEF SetUp, Counting
    <2>3. /\ task' \in Tasks /\ task'.fn = fn /\ task'.unit = u /\ task'.k = 1 /\ task'.link = 0
      BY <2>1, <2>2 DEF NoTask, Tasks, Modes
    <2>4. 1 \in DOMAIN PortsOf[u]
      BY SwitchAssumption DEF Units
    <2> QED
      BY <2>1, <2>3, <2>4 DEF TaskFits
  <1>3. CASE EnetInitialize
    <2>1. PICK u \in Units : macs' = [macs EXCEPT ![u].ready = TRUE] /\ StartAccess("reg_init", u)
      BY <1>3 DEF EnetInitialize
    <2>2. /\ task' \in Tasks /\ task'.fn = "reg_init" /\ TaskFits(task)'
          /\ Put(AccessOf(task', isPhyAlive))
      BY <1>2, <2>1
    <2>3. UNCHANGED <<phys, isPhyAlive, done, gaveUp, ever, always>>
      BY <1>3 DEF EnetInitialize
    <2>4. /\ macs' \in [Units -> MacStates]
          /\ \A v \in Units : macs'[v].duplex = macs[v].duplex /\ macs'[v].fullDuplex = macs[v].fullDuplex
      <3>1. macs \in [Units -> MacStates] /\ macs[u] \in MacStates
        BY <1>0 DEF SwitchTypeOK
      <3>2. LET m == [macs[u] EXCEPT !.ready = TRUE]
            IN  m \in MacStates /\ m.duplex = macs[u].duplex /\ m.fullDuplex = macs[u].fullDuplex
        BY <3>1 DEF MacStates
      <3> QED
        BY <2>1, <3>1, <3>2
    <2>5. LinksOK' /\ LinksCounted(task, isPhyAlive)' /\ MacOK'
      <3>1. task'.fn \notin Counting \cup Asking \cup {"mac", "latch", "control", "gain", "idle"}
        BY <2>2 DEF Counting, Asking
      <3>2. LinksOK'
        BY <1>0, <2>3, <3>1 DEF LinksOK
      <3>3. LinksCounted(task, isPhyAlive)'
        BY <3>1 DEF LinksCounted
      <3>4. MacOK'
        BY <1>0, <2>4, <3>1 DEF MacOK, MacFollowsLink
      <3> QED
        BY <3>2, <3>3, <3>4
    <2> QED
      BY <1>0, <1>1, <2>2, <2>3, <2>4, <2>5, NextAccess DEF SwitchTypeOK
  <1>4. CASE CheckLink
    <2>1. PICK u \in Units : StartAccess("is_up", u)
      BY <1>4 DEF CheckLink
    <2>2. /\ task' \in Tasks /\ task'.fn = "is_up" /\ task'.unit = u /\ task'.k = 1 /\ task'.link = 0
          /\ TaskFits(task)' /\ Put(AccessOf(task', isPhyAlive))
      BY <1>2, <2>1
    <2>3. ever' = Up /\ always' = Up /\ UNCHANGED <<phys, isPhyAlive, macs, done, gaveUp>>
      BY <1>4 DEF CheckLink
    <2>4. Seen(u, 1) = {}
      BY SwitchAssumption DEF Seen, Units
    <2>5. LinksOK'
      BY <1>0, <2>3 DEF LinksOK, Up
    <2>6. LinksCounted(task, isPhyAlive)'
      <3>1. task'.fn \notin Asking \cup {"mac", "latch", "control", "gain"}
        BY <2>2 DEF Asking
      <3>2. Between(task.link, Seen(task.unit, task.k), isPhyAlive)'
        <4>1. (Seen(task.unit, task.k))' = {}
          BY <2>2, <2>4 DEF Seen
        <4>2. Cardinality(always' \cap {}) = 0 /\ Cardinality(ever' \cap {}) = 0 /\ IsFiniteSet({})
          <5>1. always' \cap {} = {} /\ ever' \cap {} = {}
            OBVIOUS
          <5> QED
            BY <5>1, FS_EmptySet
        <4> QED
          BY <2>2, <4>1, <4>2 DEF Between
      <3> QED
        BY <3>1, <3>2 DEF LinksCounted
    <2>7. MacOK'
      BY <1>0, <2>2, <2>3 DEF MacOK, MacFollowsLink
    <2>8. ever' \subseteq Phys /\ always' \subseteq Phys
      BY <2>3 DEF Up
    <2> QED
      BY <1>0, <1>1, <2>2, <2>3, <2>5, <2>6, <2>7, <2>8, NextAccess DEF SwitchTypeOK
  <1> QED
    BY <1>3, <1>4

LEMMA SetMacKeeps ==
    ASSUME SwitchInv, SetMac, ~gaveUp
    PROVE  SwitchInv'
  <1> DEFINE u == task.unit
             m == macs[u]
             x == MacAfter(m, task)
  <1>0. SwitchTypeOK /\ OwnCommand /\ TaskFits(task) /\ AccessFits /\ LinksOK /\ MacOK
    BY DEF SwitchInv
  <1>1. /\ task.fn = "mac" /\ access.pc = "idle" /\ u \in Units /\ task \in Tasks
        /\ macs \in [Units -> MacStates] /\ m \in MacStates /\ m.duplex = m.fullDuplex
    <2>1. task.fn = "mac" /\ u \in Units
      BY <1>0 DEF SetMac, TaskFits
    <2> QED
      BY <1>0, <2>1 DEF AccessFits, SwitchTypeOK, MacOK
  <1>2. /\ macs' = [macs EXCEPT ![u] = x]
        /\ task' = [task EXCEPT !.fn = "idle"]
        /\ UNCHANGED <<phys, mdio, access, isPhyAlive, done, gaveUp, ever, always>>
    BY DEF SetMac
  <1>3. /\ x \in MacStates /\ x.duplex = x.fullDuplex
        /\ task.link > 0 =>
               /\ x.gigabit = (task.speed = "1000") /\ x.fullDuplex = task.full
               /\ task.speed # "1000" => x.fast = (task.speed = "100")
    <2>0. task.link \in Nat /\ task.full \in BOOLEAN /\ task.speed \in Modes
      BY <1>1 DEF Tasks
    <2>1. CASE task.link = 0
      <3>1. x = [m EXCEPT !.link = 0]
        BY <2>1 DEF MacAfter
      <3> QED
        BY <1>1, <2>1, <3>1 DEF MacStates
    <2>2. CASE task.link # 0
      <3> DEFINE fast == IF task.speed = "1000" THEN m.fast ELSE task.speed = "100"
                 fullDuplex == IF SameMode(m, task) THEN m.fullDuplex ELSE task.full
      <3>1. x = [m EXCEPT !.link = task.link, !.gigabit = (task.speed = "1000"), !.fast = fast,
                          !.fullDuplex = fullDuplex, !.duplex = task.full, !.speed = task.speed]
        BY <2>2 DEF MacAfter
      <3>2. fast \in BOOLEAN /\ fullDuplex = task.full
        BY <1>1, <2>0 DEF SameMode, MacStates
      <3>3. task.speed # "1000" => fast = (task.speed = "100")
        OBVIOUS
      <3> HIDE DEF fast, fullDuplex, x, m
      <3> QED
        BY <1>1, <2>0, <3>1, <3>2, <3>3 DEF MacStates
    <2> QED
      BY <2>1, <2>2
  <1> HIDE DEF x
  <1>4. /\ macs' \in [Units -> MacStates] /\ macs'[u] = x
        /\ \A v \in Units : v # u => macs'[v] = macs[v]
    BY <1>1, <1>2, <1>3
  <1>5. /\ task' \in Tasks /\ task'.fn = "idle" /\ task'.unit = u /\ task'.link = task.link
        /\ task'.full = task.full /\ task'.speed = task.speed
    BY <1>1, <1>2 DEF Tasks
  <1>6. SwitchTypeOK'
    BY <1>0, <1>2, <1>4, <1>5 DEF SwitchTypeOK
  <1>7. OwnCommand' /\ TaskFits(task)' /\ AccessFits' /\ LinksOK' /\ ReadIsTruthful' /\ LinksCounted(task, isPhyAlive)'
    <2>1. task'.fn \notin SetUp \cup Counting \cup Asking \cup {"mac", "latch", "control", "gain"}
      BY <1>5 DEF SetUp, Counting, Asking
    <2>2. OwnCommand' /\ TaskFits(task)' /\ LinksOK'
      BY <1>0, <1>2, <1>5, <2>1 DEF OwnCommand, AccessWith, TaskFits, LinksOK
    <2>3. AccessFits' /\ ReadIsTruthful' /\ LinksCounted(task, isPhyAlive)'
      BY <1>1, <1>2, <1>5, <2>1 DEF AccessFits, ReadIsTruthful, LinksCounted
    <2> QED
      BY <2>2, <2>3
  <1>8. MacOK'
    <2>1. \A v \in Units : macs'[v].duplex = macs'[v].fullDuplex
      BY <1>0, <1>3, <1>4 DEF MacOK
    <2>2. MacFollowsLink'
      BY <1>3, <1>4, <1>5 DEF MacFollowsLink
    <2> QED
      BY <2>1, <2>2 DEF MacOK
  <1> QED
    BY <1>6, <1>7, <1>8 DEF SwitchInv

(* And every step keeps it.                                                *)
LEMMA SwitchKeeps == SwitchInv /\ [SwitchNext]_switchVars => SwitchInv'
  <1> SUFFICES ASSUME SwitchInv, [SwitchNext]_switchVars PROVE SwitchInv'
    OBVIOUS
  <1>1. CASE SwitchNext
    <2>1. ~gaveUp
      BY <1>1 DEF SwitchNext
    <2>2. CASE LookForRead \/ LookForWrite
      BY <2>1, <2>2, LooksKeep
    <2>3. CASE AccessReturns
      BY <2>1, <2>3, ReturnKeeps
    <2>4. CASE EnetInitialize \/ CheckLink
      BY <2>1, <2>4, CallsKeep
    <2>5. CASE SetMac
      BY <2>1, <2>5, SetMacKeeps
    <2>6. CASE CarryOut
      BY <2>1, <2>6, CarryOutKeeps
    <2>7. CASE \E p \in Phys : PhyOutOfReset(p) \/ LinkUp(p) \/ LinkResolved(p) \/ LinkDown(p)
      BY <2>7, CablesKeep
    <2> QED
      BY <1>1, <2>2, <2>3, <2>4, <2>5, <2>6, <2>7 DEF SwitchNext, SwitchProgram, SwitchHardware
  <1>2. CASE UNCHANGED switchVars
    <2>1. /\ ever' = ever /\ always' = always /\ phys' = phys
          /\ UNCHANGED <<mdio, access, task, isPhyAlive, macs, done, gaveUp>>
      BY <1>2 DEF switchVars
    <2>2. LinksOK' /\ phys' \in [Phys -> PhyStates] /\ ever \subseteq Phys
      BY <2>1 DEF SwitchInv, SwitchTypeOK, LinksOK
    <2> QED
      BY <2>1, <2>2, PhyStep
  <1> QED
    BY <1>1, <1>2

(* For every board: what a PHY register is read as is what the switch did  *)
(* for this very read, the links counted lie between those that were up    *)
(* all the time and those that were up at some time, no PHY is alive whose *)
(* link was down all the time, and the MAC is set to the mode the link has *)
(* (s26_rd_phy, athrs26_phy_is_up, ag7240_check_link).                     *)
THEOREM SwitchTold == SwitchSpec => []SwitchIsExact
  <1>1. SwitchInv => SwitchIsExact
    <2> SUFFICES ASSUME SwitchInv PROVE SwitchIsExact
      OBVIOUS
    <2>1. CommandIsOwn
      BY DEF SwitchInv, OwnCommand, AccessWith, CommandIsOwn
    <2>2. LinkIsTruthful
      <3>1. ASSUME task.fn = "mac"
            PROVE  Between(task.link, PortsIn(task.unit), isPhyAlive)
        BY <3>1 DEF SwitchInv, LinksCounted
      <3> QED
        BY <3>1 DEF LinkIsTruthful, Between, PortsIn
    <2>3. MacFollowsLink
      BY DEF SwitchInv, MacOK
    <2> QED
      BY <2>1, <2>2, <2>3 DEF SwitchIsExact
  <1> QED
    BY <1>1, SwitchStarts, SwitchKeeps, PTL DEF SwitchSpec

-----------------------------------------------------------------------------
(* Induction on numbers, with a set in the place of a formula.             *)
LEMMA NumbersByInduction ==
    ASSUME NEW S \in SUBSET Nat, 0 \in S, \A k \in Nat : k \in S => k + 1 \in S
    PROVE  S = Nat
<1> DEFINE Less == {ss \in Nat \X Nat : ss[1] < ss[2]}
<1>1. IsWellFoundedOn(Less, Nat)
    BY NatLessThanWellFounded DEF OpToRel
<1> SUFFICES ASSUME Nat \ S # {} PROVE FALSE
    OBVIOUS
<1>2. PICK x \in Nat \ S : \A y \in Nat \ S : ~(<<y, x>> \in Less)
    BY <1>1, WFMin
<1>3. \A y \in Nat : <<y, x>> \in Less <=> y < x
    BY <1>2
<1> HIDE DEF Less
<1>4. x # 0 /\ x - 1 \in Nat /\ x - 1 < x /\ x = (x - 1) + 1
    BY <1>2
<1>5. x - 1 \in S
    BY <1>2, <1>3, <1>4
<1> QED
    BY <1>2, <1>4, <1>5

-----------------------------------------------------------------------------
(* Bit operations of two actors.                                           *)

Words == 0 .. RegionWords - 1
Regions == [Words -> SUBSET Ones]
BitEvents == [op : Ops, nr : BitTargets, old : BOOLEAN]

(* The words after each operation, and what the operations were told.      *)
OneByOne(f, l) == f = [k \in 0 .. Len(l) |-> IF k = 0 THEN start ELSE Effect(f[k - 1], l[k])]
ToldBy(f, l) ==
    \A k \in 1 .. Len(l) : l[k].old = Returned(l[k].op, f[k - 1][WordOf(l[k].nr)], BitIn(l[k].nr))

ActorStates == [pc : {"idle", "cli", "load", "store"}, op : Ops, nr : Nat, word : SUBSET Ones, linked : BOOLEAN]
BitTypes ==
    /\ machine \in {"llsc", "cli", "alone"} /\ start \in Regions /\ region \in Regions
    /\ actor \in [Actors -> ActorStates]
    /\ \A a \in Actors : actor[a].pc # "idle" => actor[a].nr \in BitTargets
    /\ interrupts \in BOOLEAN /\ log \in Seq(BitEvents)

(* Without LL and SC nobody is between another one's load and store.       *)
Excluded ==
    /\ machine = "alone" => actor[2].pc = "idle"
    /\ machine = "cli" /\ actor[1].pc \in {"load", "store"} => actor[2].pc = "idle" /\ ~interrupts

(* The word that is about to be stored is made from what memory holds.     *)
WordIsFresh ==
    \A a \in Actors : actor[a].pc = "store" /\ (machine = "llsc" => actor[a].linked) =>
        actor[a].word = region[WordOf(actor[a].nr)]

BitOpsInv ==
    /\ BitTypes /\ Excluded /\ WordIsFresh
    /\ \E f : OneByOne(f, log) /\ region = f[Len(log)] /\ ToldBy(f, log)

LEMMA Places ==
    ASSUME NEW nr \in BitTargets
    PROVE  nr \in Nat /\ WordOf(nr) \in Words /\ BitIn(nr) \in Ones
<1>1. nr \in Nat /\ RegionWords \in Nat \ {0} /\ nr <= WordWidth * RegionWords - 1 /\ WordWidth \in {2, 4, 8, 16, 32}
    BY BitOpsAssumption
<1>2. CASE WordWidth = 2
    BY <1>1, <1>2 DEF WordOf, BitIn, Words, Ones
<1>3. CASE WordWidth = 4
    BY <1>1, <1>3 DEF WordOf, BitIn, Words, Ones
<1>4. CASE WordWidth = 8
    BY <1>1, <1>4 DEF WordOf, BitIn, Words, Ones
<1>5. CASE WordWidth = 16
    BY <1>1, <1>5 DEF WordOf, BitIn, Words, Ones
<1>6. CASE WordWidth = 32
    BY <1>1, <1>6 DEF WordOf, BitIn, Words, Ones
<1> QED
    BY <1>1, <1>2, <1>3, <1>4, <1>5, <1>6

LEMMA ChangedIs ==
    ASSUME NEW op \in Ops, NEW word \in SUBSET Ones, NEW bit \in Ones
    PROVE  Changed(op, word, bit) \in SUBSET Ones /\ Returned(op, word, bit) \in BOOLEAN
BY DEF Changed, Returned, Ops

(* Only one function gives the words one by one.                           *)
LEMMA OneByOneIsUnique ==
    ASSUME NEW l, Len(l) \in Nat, NEW f, OneByOne(f, l), NEW g, OneByOne(g, l)
    PROVE  f = g
<1> DEFINE n == Len(l)
           S == {k \in Nat : k <= n => f[k] = g[k]}
<1>1. /\ \A k \in 0 .. n : f[k] = IF k = 0 THEN start ELSE Effect(f[k - 1], l[k])
      /\ \A k \in 0 .. n : g[k] = IF k = 0 THEN start ELSE Effect(g[k - 1], l[k])
    BY DEF OneByOne
<1>2. 0 \in S
    BY <1>1
<1>3. ASSUME NEW k \in Nat, k \in S PROVE k + 1 \in S
    <2> SUFFICES ASSUME k + 1 <= n PROVE f[k + 1] = g[k + 1]
        OBVIOUS
    <2>1. k + 1 \in 0 .. n /\ k + 1 # 0 /\ (k + 1) - 1 = k /\ k <= n
        OBVIOUS
    <2>2. f[k] = g[k]
        BY <1>3, <2>1
    <2> QED
        BY <1>1, <2>1, <2>2
<1>4. S = Nat
    <2> HIDE DEF S
    <2>1. S \in SUBSET Nat
        BY DEF S
    <2> QED
        BY <1>2, <1>3, <2>1, NumbersByInduction
<1>5. \A k \in 0 .. n : f[k] = g[k]
    BY <1>4
<1>6. f = [k \in 0 .. n |-> f[k]] /\ g = [k \in 0 .. n |-> g[k]]
    BY DEF OneByOne
<1> HIDE DEF n
<1> QED
    BY <1>5, <1>6

LEMMA InTurnIs ==
    ASSUME NEW l, Len(l) \in Nat, NEW f, OneByOne(f, l)
    PROVE  InTurn(l) = f
<1> DEFINE h == CHOOSE h : OneByOne(h, l)
<1>1. InTurn(l) = h
    BY DEF InTurn, OneByOne
<1>2. OneByOne(h, l)
    OBVIOUS
<1> HIDE DEF h
<1> QED
    BY <1>1, <1>2, OneByOneIsUnique

(* One more operation that was made from what memory held.                 *)
LEMMA OneMore ==
    ASSUME NEW l \in Seq(BitEvents), NEW e \in BitEvents, NEW f, OneByOne(f, l), ToldBy(f, l),
           e.old = Returned(e.op, f[Len(l)][WordOf(e.nr)], BitIn(e.nr))
    PROVE  \E g : OneByOne(g, Append(l, e)) /\ g[Len(Append(l, e))] = Effect(f[Len(l)], e) /\ ToldBy(g, Append(l, e))
<1> DEFINE n == Len(l)
           m == Append(l, e)
           g == [k \in 0 .. n + 1 |-> IF k = n + 1 THEN Effect(f[n], e) ELSE f[k]]
<1>1. n \in Nat /\ Len(m) = n + 1 /\ m[n + 1] = e /\ \A k \in 1 .. n : m[k] = l[k]
    BY AppendProperties, LenProperties
<1>2. \A k \in 0 .. n : f[k] = IF k = 0 THEN start ELSE Effect(f[k - 1], l[k])
    BY DEF OneByOne
<1>3. g[n + 1] = Effect(f[n], e) /\ \A k \in 0 .. n : g[k] = f[k]
    BY <1>1
<1>4. DOMAIN g = 0 .. n + 1 /\ g = [k \in 0 .. n + 1 |-> g[k]]
    OBVIOUS
<1> HIDE DEF g, m, n
<1>5. \A k \in 0 .. n + 1 : g[k] = IF k = 0 THEN start ELSE Effect(g[k - 1], m[k])
    <2> SUFFICES ASSUME NEW k \in 0 .. n + 1 PROVE g[k] = IF k = 0 THEN start ELSE Effect(g[k - 1], m[k])
        OBVIOUS
    <2>1. CASE k = n + 1
        <3>1. k # 0 /\ k - 1 = n /\ n \in 0 .. n
            BY <1>1, <2>1
        <3> QED
            BY <1>1, <1>3, <2>1, <3>1
    <2>2. CASE k # n + 1 /\ k # 0
        <3>1. k \in 0 .. n /\ k - 1 \in 0 .. n /\ k \in 1 .. n
            BY <1>1, <2>2
        <3> QED
            BY <1>1, <1>2, <1>3, <2>2, <3>1
    <2>3. CASE k = 0
        <3>1. k \in 0 .. n
            BY <1>1, <2>3
        <3> QED
            BY <1>2, <1>3, <2>3, <3>1
    <2> QED
        BY <2>1, <2>2, <2>3
<1>6. OneByOne(g, m)
    BY <1>1, <1>4, <1>5 DEF OneByOne
<1>7. ToldBy(g, m)
    <2> SUFFICES ASSUME NEW k \in 1 .. n + 1
                 PROVE  m[k].old = Returned(m[k].op, g[k - 1][WordOf(m[k].nr)], BitIn(m[k].nr))
        BY <1>1 DEF ToldBy
    <2>1. k - 1 \in 0 .. n /\ g[k - 1] = f[k - 1]
        BY <1>1, <1>3
    <2>2. CASE k = n + 1
        <3>1. k - 1 = n
            BY <1>1, <2>2
        <3> QED
            BY <1>1, <2>1, <2>2, <3>1 DEF n
    <2>3. CASE k # n + 1
        <3>1. k \in 1 .. n
            BY <1>1, <2>3
        <3> QED
            BY <1>1, <2>1, <3>1 DEF ToldBy, n
    <2> QED
        BY <2>2, <2>3
<1> QED
    BY <1>1, <1>3, <1>6, <1>7 DEF m, n

LEMMA BitOpsStarts == BitOpsInit => BitOpsInv
<1> SUFFICES ASSUME BitOpsInit PROVE BitOpsInv
    OBVIOUS
<1>1. BitTypes /\ Excluded /\ WordIsFresh /\ log = <<>> /\ region = start
    BY BitOpsAssumption DEF BitOpsInit, BitTypes, ActorStates, Excluded, WordIsFresh, Resting, Regions, Words, Ones, Actors, Ops
<1> DEFINE f == [k \in 0 .. 0 |-> start]
<1>2. Len(log) = 0 /\ f[0] = start /\ 0 .. 0 = {0} /\ 1 .. 0 = {}
    BY <1>1
<1>3. OneByOne(f, log)
    <2>1. f = [k \in 0 .. 0 |-> IF k = 0 THEN start ELSE Effect(f[k - 1], log[k])]
        OBVIOUS
    <2> HIDE DEF f
    <2> QED
        BY <1>2, <2>1 DEF OneByOne
<1>4. ToldBy(f, log)
    BY <1>2 DEF ToldBy
<1> HIDE DEF f
<1> QED
    BY <1>1, <1>2, <1>3, <1>4 DEF BitOpsInv

(* Steps that store nothing.                                               *)
LEMMA NothingStored ==
    ASSUME BitOpsInv, UNCHANGED <<start, region, log>>, BitTypes', Excluded', WordIsFresh'
    PROVE  BitOpsInv'
<1>1. PICK f : OneByOne(f, log) /\ region = f[Len(log)] /\ ToldBy(f, log)
    BY DEF BitOpsInv
<1>2. OneByOne(f, log') /\ region' = f[Len(log')] /\ ToldBy(f, log')
    BY <1>1
<1>3. OneByOne(f, log)' /\ ToldBy(f, log)'
    BY <1>2 DEF OneByOne, ToldBy, Effect
<1> QED
    BY <1>2, <1>3 DEF BitOpsInv

(* A step of one actor.                                                    *)
LEMMA TypesKept ==
    ASSUME BitTypes, NEW a \in Actors, actor' = [b \in Actors |-> actor'[b]], \A b \in Actors : b # a => actor'[b] = actor[b],
           actor'[a] \in ActorStates, actor'[a].nr \in BitTargets, UNCHANGED <<machine, start, region, log>>,
           interrupts' \in BOOLEAN
    PROVE  BitTypes'
<1>1. \A b \in Actors : actor'[b] \in ActorStates
    BY DEF BitTypes
<1>2. actor' \in [Actors -> ActorStates]
    BY <1>1
<1>3. \A b \in Actors : actor'[b].pc # "idle" => actor'[b].nr \in BitTargets
    BY DEF BitTypes
<1> QED
    BY <1>2, <1>3 DEF BitTypes

LEMMA BitOpsSteps == BitOpsInv /\ [BitOpsNext]_bitOpsVars => BitOpsInv'
<1> SUFFICES ASSUME BitOpsInv, [BitOpsNext]_bitOpsVars PROVE BitOpsInv'
    OBVIOUS
<1>0. BitTypes /\ Excluded /\ WordIsFresh /\ Actors = {1, 2} /\ 1 # 2
    BY DEF BitOpsInv, Actors
<1>1. CASE UNCHANGED bitOpsVars
    <2>1. BitTypes' /\ Excluded' /\ WordIsFresh' /\ UNCHANGED <<start, region, log>>
        BY <1>0, <1>1 DEF bitOpsVars, BitTypes, Excluded, WordIsFresh
    <2> QED
        BY <2>1, NothingStored
<1>2. ASSUME NEW a \in Actors, BeginBitOp(a) PROVE BitOpsInv'
    <2>1. PICK op \in Ops, nr \in BitTargets :
              actor' = [actor EXCEPT ![a] = [Resting EXCEPT !.pc = IF machine = "cli" THEN "cli" ELSE "load", !.op = op, !.nr = nr]]
        BY <1>2 DEF BeginBitOp
    <2>2. /\ Runs(a) /\ actor[a].pc = "idle" /\ (a = 2 => machine = "llsc" \/ (machine = "cli" /\ interrupts))
          /\ UNCHANGED <<machine, start, region, interrupts, log>>
        BY <1>2 DEF BeginBitOp
    <2>3. /\ actor'[a] = [pc |-> IF machine = "cli" THEN "cli" ELSE "load", op |-> op, nr |-> nr, word |-> {}, linked |-> FALSE]
          /\ \A b \in Actors : b # a => actor'[b] = actor[b]
          /\ actor' = [b \in Actors |-> actor'[b]] /\ nr \in Nat
        BY <2>1, <1>0, Places DEF Resting, BitTypes
    <2>4. BitTypes'
        <3>1. actor'[a] \in ActorStates /\ actor'[a].nr \in BitTargets
            BY <2>3, <1>0 DEF ActorStates, BitTypes
        <3> QED
            BY <1>0, <2>2, <2>3, <3>1, TypesKept DEF BitTypes
    <2>5. Excluded'
        BY <2>2, <2>3, <1>0 DEF Excluded, BitTypes, Runs
    <2>6. WordIsFresh'
        BY <2>2, <2>3, <1>0 DEF WordIsFresh
    <2> QED
        BY <2>2, <2>4, <2>5, <2>6, NothingStored
<1>3. ASSUME NEW a \in Actors, SaveAndCli(a) PROVE BitOpsInv'
    <2>1. /\ actor' = [actor EXCEPT ![a].pc = "load"] /\ interrupts' = FALSE /\ Runs(a) /\ actor[a].pc = "cli"
          /\ UNCHANGED <<machine, start, region, log>>
        BY <1>3 DEF SaveAndCli, Masked
    <2>2. /\ actor'[a] = [actor[a] EXCEPT !.pc = "load"] /\ \A b \in Actors : b # a => actor'[b] = actor[b]
          /\ actor' = [b \in Actors |-> actor'[b]]
        BY <2>1, <1>0 DEF BitTypes
    <2>3. BitTypes'
        <3>1. actor'[a] \in ActorStates /\ actor'[a].nr \in BitTargets
            BY <2>1, <2>2, <1>0 DEF ActorStates, BitTypes
        <3> QED
            BY <1>0, <2>1, <2>2, <3>1, TypesKept DEF BitTypes
    <2>4. Excluded'
        BY <2>1, <2>2, <1>0 DEF Excluded, BitTypes, Runs
    <2>5. WordIsFresh'
        BY <2>1, <2>2, <1>0 DEF WordIsFresh, BitTypes
    <2> QED
        BY <2>1, <2>3, <2>4, <2>5, NothingStored
<1>4. ASSUME NEW a \in Actors, LoadWord(a) PROVE BitOpsInv'
    <2>1. /\ actor' = [actor EXCEPT ![a].pc = "store", ![a].word = region[WordOf(actor[a].nr)], ![a].linked = TRUE]
          /\ Runs(a) /\ actor[a].pc = "load" /\ UNCHANGED <<machine, start, region, interrupts, log>>
        BY <1>4 DEF LoadWord
    <2>2. /\ actor'[a] = [actor[a] EXCEPT !.pc = "store", !.word = region[WordOf(actor[a].nr)], !.linked = TRUE]
          /\ \A b \in Actors : b # a => actor'[b] = actor[b]
          /\ actor' = [b \in Actors |-> actor'[b]]
        BY <2>1, <1>0 DEF BitTypes
    <2>a. actor[a].nr \in BitTargets /\ WordOf(actor[a].nr) \in Words /\ region[WordOf(actor[a].nr)] \in SUBSET Ones
        <3>1. actor[a].nr \in BitTargets
            BY <2>1, <1>0 DEF BitTypes
        <3>2. WordOf(actor[a].nr) \in Words
            BY <3>1, Places
        <3> QED
            BY <3>1, <3>2, <1>0 DEF BitTypes, Regions
    <2>3. BitTypes'
        <3>1. actor'[a] \in ActorStates /\ actor'[a].nr \in BitTargets
            <4>1. actor[a] \in ActorStates
                BY <1>0 DEF BitTypes
            <4> DEFINE word == region[WordOf(actor[a].nr)]
            <4>2. word \in SUBSET Ones /\ actor'[a] = [actor[a] EXCEPT !.pc = "store", !.word = word, !.linked = TRUE]
                BY <2>2, <2>a
            <4> HIDE DEF word
            <4>3. actor'[a] \in ActorStates /\ actor'[a].nr = actor[a].nr
                BY <4>1, <4>2 DEF ActorStates
            <4> QED
                BY <2>a, <4>3
        <3> QED
            BY <1>0, <2>1, <2>2, <3>1, TypesKept DEF BitTypes
    <2>4. Excluded'
        BY <2>1, <2>2, <1>0 DEF Excluded, BitTypes, Runs
    <2>5. WordIsFresh'
        <3>0. actor'[a].word = region[WordOf(actor[a].nr)] /\ actor'[a].nr = actor[a].nr
            BY <2>2, <1>0 DEF BitTypes
        <3> QED
            BY <2>1, <2>2, <3>0, <1>0 DEF WordIsFresh
    <2> QED
        BY <2>1, <2>3, <2>4, <2>5, NothingStored
<1>5. ASSUME NEW a \in Actors, StoreFails(a) PROVE BitOpsInv'
    <2>1. /\ actor' = [actor EXCEPT ![a].pc = "load"] /\ Runs(a) /\ actor[a].pc = "store" /\ machine = "llsc"
          /\ UNCHANGED <<machine, start, region, interrupts, log>>
        BY <1>5 DEF StoreFails
    <2>2. /\ actor'[a] = [actor[a] EXCEPT !.pc = "load"] /\ \A b \in Actors : b # a => actor'[b] = actor[b]
          /\ actor' = [b \in Actors |-> actor'[b]]
        BY <2>1, <1>0 DEF BitTypes
    <2>3. BitTypes'
        <3>1. actor'[a] \in ActorStates /\ actor'[a].nr \in BitTargets
            BY <2>1, <2>2, <1>0 DEF ActorStates, BitTypes
        <3> QED
            BY <1>0, <2>1, <2>2, <3>1, TypesKept DEF BitTypes
    <2>4. Excluded'
        BY <2>1, <2>2, <1>0 DEF Excluded
    <2>5. WordIsFresh'
        BY <2>1, <2>2, <1>0 DEF WordIsFresh, BitTypes
    <2> QED
        BY <2>1, <2>3, <2>4, <2>5, NothingStored
<1>6. ASSUME NEW a \in Actors, StoreWord(a) PROVE BitOpsInv'
    <2> DEFINE x == actor[a]
               w == WordOf(x.nr)
               e == [op |-> x.op, nr |-> x.nr, old |-> Returned(x.op, x.word, BitIn(x.nr))]
    <2>1. /\ Runs(a) /\ x.pc = "store" /\ (machine = "llsc" => x.linked)
          /\ region' = [region EXCEPT ![w] = Changed(x.op, x.word, BitIn(x.nr))]
          /\ log' = Append(log, e)
          /\ actor' = [b \in Actors |-> IF b = a THEN Resting ELSE [actor[b] EXCEPT !.linked = @ /\ WordOf(actor[b].nr) # w]]
          /\ interrupts' = (interrupts \/ (machine = "cli" /\ (a = 1 \/ actor[1].pc \in {"idle", "cli"})))
          /\ UNCHANGED <<machine, start>>
        BY <1>6 DEF StoreWord
    <2>2. /\ x.nr \in BitTargets /\ w \in Words /\ BitIn(x.nr) \in Ones /\ x.op \in Ops /\ x.word \in SUBSET Ones
          /\ x.word = region[w] /\ region \in [Words -> SUBSET Ones]
        <3>1. x.nr \in BitTargets /\ x.op \in Ops /\ x.word \in SUBSET Ones
            <4>1. actor[a] \in ActorStates /\ actor[a].pc # "idle"
                BY <2>1, <1>0 DEF BitTypes
            <4>2. actor[a].nr \in BitTargets
                BY <4>1, <1>0 DEF BitTypes
            <4> QED
                BY <4>1, <4>2 DEF ActorStates
        <3>2. x.word = region[w]
            BY <2>1, <1>0 DEF WordIsFresh
        <3> QED
            BY <3>1, <3>2, <1>0, Places DEF BitTypes, Regions
    <2>3. Changed(x.op, x.word, BitIn(x.nr)) \in SUBSET Ones /\ Returned(x.op, x.word, BitIn(x.nr)) \in BOOLEAN
        BY <2>2, ChangedIs
    <2>4. e \in BitEvents /\ e.op = x.op /\ e.nr = x.nr /\ e.old = Returned(e.op, region[WordOf(e.nr)], BitIn(e.nr))
        BY <2>2, <2>3 DEF BitEvents
    <2>5. region' = Effect(region, e) /\ region' \in Regions /\ \A v \in Words : v # w => region'[v] = region[v]
        <3>1. region' = Effect(region, e)
            BY <2>1, <2>2, <2>4 DEF Effect
        <3> QED
            BY <3>1, <2>1, <2>2, <2>3 DEF Regions
    <2>6. PICK f : OneByOne(f, log) /\ region = f[Len(log)] /\ ToldBy(f, log)
        BY DEF BitOpsInv
    <2>7. \E g : OneByOne(g, log') /\ g[Len(log')] = region' /\ ToldBy(g, log')
        <3>1. log \in Seq(BitEvents) /\ e.old = Returned(e.op, f[Len(log)][WordOf(e.nr)], BitIn(e.nr))
            BY <1>0, <2>4, <2>6 DEF BitTypes
        <3> HIDE DEF e
        <3>2. \E g : OneByOne(g, Append(log, e)) /\ g[Len(Append(log, e))] = Effect(f[Len(log)], e) /\ ToldBy(g, Append(log, e))
            BY <3>1, <2>4, <2>6, OneMore
        <3> QED
            BY <2>1, <2>5, <2>6, <3>2
    <2>8. (\E g : OneByOne(g, log) /\ region = g[Len(log)] /\ ToldBy(g, log))'
        <3>1. PICK g : OneByOne(g, log') /\ g[Len(log')] = region' /\ ToldBy(g, log')
            BY <2>7
        <3>2. start' = start
            BY <2>1
        <3>3. OneByOne(g, log)' /\ ToldBy(g, log)'
            BY <3>1, <3>2 DEF OneByOne, ToldBy, Effect
        <3> QED
            BY <3>1, <3>3
    <2>9. /\ actor'[a] = Resting
          /\ \A b \in Actors : b # a => actor'[b] = [actor[b] EXCEPT !.linked = @ /\ WordOf(actor[b].nr) # w]
          /\ actor' = [b \in Actors |-> actor'[b]]
        BY <2>1
    <2> HIDE DEF w, x, e
    <2>10. /\ \A b \in Actors : b # a =>
                  /\ actor'[b].pc = actor[b].pc /\ actor'[b].op = actor[b].op /\ actor'[b].nr = actor[b].nr
                  /\ actor'[b].word = actor[b].word
                  /\ actor'[b].linked = (actor[b].linked /\ WordOf(actor[b].nr) # w)
                  /\ actor'[b] \in ActorStates
           /\ actor'[a] \in ActorStates
           /\ actor'[a].pc = "idle"
        <3>1. ASSUME NEW b \in Actors, b # a
              PROVE  /\ actor'[b].pc = actor[b].pc /\ actor'[b].op = actor[b].op /\ actor'[b].nr = actor[b].nr
                     /\ actor'[b].word = actor[b].word
                     /\ actor'[b].linked = (actor[b].linked /\ WordOf(actor[b].nr) # w)
                     /\ actor'[b] \in ActorStates
            <4>1. actor[b] \in ActorStates
                BY <1>0 DEF BitTypes
            <4>2. actor'[b] = [actor[b] EXCEPT !.linked = @ /\ WordOf(actor[b].nr) # w]
                BY <2>9, <3>1
            <4> DEFINE linked == actor[b].linked /\ WordOf(actor[b].nr) # w
            <4>3. linked \in BOOLEAN /\ actor'[b] = [actor[b] EXCEPT !.linked = linked]
                BY <4>2
            <4> HIDE DEF linked
            <4>4. /\ actor'[b].pc = actor[b].pc /\ actor'[b].op = actor[b].op /\ actor'[b].nr = actor[b].nr
                  /\ actor'[b].word = actor[b].word /\ actor'[b].linked = linked /\ actor'[b] \in ActorStates
                BY <4>1, <4>3 DEF ActorStates
            <4> QED
                BY <4>4 DEF linked
        <3>2. actor'[a] \in ActorStates /\ actor'[a].pc = "idle"
            BY <2>9 DEF Resting, Ops, ActorStates
        <3> QED
            BY <3>1, <3>2
    <2>11. BitTypes'
        <3>1. log' \in Seq(BitEvents)
            BY <1>0, <2>1, <2>4, AppendProperties DEF BitTypes
        <3>2. interrupts' \in BOOLEAN
            BY <1>0, <2>1 DEF BitTypes
        <3>3. actor' \in [Actors -> ActorStates]
            <4>1. \A b \in Actors : actor'[b] \in ActorStates
                BY <2>10
            <4> QED
                BY <2>9, <4>1
        <3>4. \A b \in Actors : actor'[b].pc # "idle" => actor'[b].nr \in BitTargets
            BY <1>0, <2>10 DEF BitTypes
        <3> QED
            BY <1>0, <2>1, <2>5, <3>1, <3>2, <3>3, <3>4 DEF BitTypes
    <2>12. Excluded'
        BY <1>0, <2>1, <2>10 DEF Excluded, Runs, BitTypes, x
    <2>13. WordIsFresh'
        <3> SUFFICES ASSUME NEW b \in Actors, actor'[b].pc = "store", machine = "llsc" => actor'[b].linked
                     PROVE  actor'[b].word = region'[WordOf(actor'[b].nr)]
            BY <2>1 DEF WordIsFresh
        <3>1. b # a /\ actor[b].pc = "store" /\ actor'[b].word = actor[b].word /\ actor'[b].nr = actor[b].nr
            BY <2>10
        <3>2. machine = "llsc"
            BY <1>0, <2>1, <3>1 DEF Excluded, Runs, BitTypes, x
        <3>3. actor[b].linked /\ WordOf(actor[b].nr) # w
            BY <2>10, <3>1, <3>2
        <3>4. actor[b].nr \in BitTargets /\ WordOf(actor[b].nr) \in Words
            BY <1>0, <3>1, Places DEF BitTypes
        <3> QED
            BY <1>0, <2>5, <3>1, <3>3, <3>4 DEF WordIsFresh
    <2> QED
        BY <2>8, <2>11, <2>12, <2>13 DEF BitOpsInv
<1> QED
    BY <1>1, <1>2, <1>3, <1>4, <1>5, <1>6 DEF BitOpsNext

LEMMA NothingLost == BitOpsInv => NoBitIsLost
<1> SUFFICES ASSUME BitOpsInv PROVE NoBitIsLost
    OBVIOUS
<1>1. PICK f : OneByOne(f, log) /\ region = f[Len(log)] /\ ToldBy(f, log)
    BY DEF BitOpsInv
<1>2. Len(log) \in Nat
    BY LenProperties DEF BitOpsInv, BitTypes
<1>3. InTurn(log) = f
    BY <1>1, <1>2, InTurnIs
<1> QED
    BY <1>1, <1>3 DEF NoBitIsLost, ToldBy

BitOpsSpec == BitOpsInit /\ [][BitOpsNext]_bitOpsVars

(* NoBitIsLost: with LL and SC, with the interrupts off or alone, whatever *)
(* the order in which the two actors load, fail and store, memory and what *)
(* they are told are those of the operations one after the other           *)
(* (asm-mips/bitops.h).                                                    *)
THEOREM EveryBitKept == BitOpsSpec => []NoBitIsLost
<1>1. BitOpsInit => BitOpsInv
    BY BitOpsStarts
<1>2. BitOpsInv /\ [BitOpsNext]_bitOpsVars => BitOpsInv'
    BY BitOpsSteps
<1>3. BitOpsInv => NoBitIsLost
    BY NothingLost
<1> QED
    BY <1>1, <1>2, <1>3, PTL DEF BitOpsSpec
=============================================================================
