-------------------------------- MODULE Lzma --------------------------------
(***************************************************************************)
(* LzmaDecode above the range coder: literals, matches and repetitions,    *)
(* the twelve states and the four distances. The stream was written for    *)
(* the text target, or is damaged: then any packet may follow. A packet is *)
(* decoded in the context the encoder had, which decoder and encoder must  *)
(* agree on.                                                               *)
(***************************************************************************)
EXTENDS Integers, SequencesExt

CONSTANTS
    Targets,            \* texts that were compressed
    OutSizes,           \* lengths of the output buffer
    MaxDistance,        \* bound on the distances of a damaged stream
    MaxLen              \* the longest match

ASSUME LzmaAssumption == OutSizes \subseteq Nat /\ MaxDistance \in Nat \ {0} /\ MaxLen \in Nat

VARIABLES
    target, damaged,
    outSize,
    result,             \* "decoding", "ok", "error"
    out,                \* outStream, nowPos bytes
    state, rep0, rep1, rep2, rep3, previousByte,
    packets,            \* the kinds of the packets, for the encoder: its state
    dists               \* the encoder's last four distances, the latest first

lzmaVars ==
    <<target, damaged, outSize, result, out, state, rep0, rep1, rep2, rep3, previousByte, packets, dists>>

kNumLitStates == 7
kMatchMinLen == 2
nowPos == Len(out)
ByteAt(pos) == out[pos + 1]

(* Before the output is other memory.                                      *)
MemoryAt(i) == IF i \in 1 .. nowPos THEN out[i] ELSE 0

LzmaInit ==
    /\ target \in Targets /\ damaged \in BOOLEAN /\ outSize \in OutSizes
    /\ result = "decoding" /\ out = <<>>
    /\ state = 0 /\ rep0 = 1 /\ rep1 = 1 /\ rep2 = 1 /\ rep3 = 1 /\ previousByte = 0
    /\ packets = <<"literal", "literal", "literal", "literal">> /\ dists = <<1, 1, 1, 1>>

Decoding == result = "decoding" /\ nowPos < outSize

(* What the encoder may have written here: the text goes on as the packet  *)
(* says, or the stream is damaged.                                         *)
WrittenLiteral(b) == damaged \/ (nowPos < Len(target) /\ target[nowPos + 1] = b)
WrittenCopy(dist, n) ==
    \/ damaged
    \/ /\ dist <= nowPos /\ nowPos + n <= Len(target)
       /\ \A i \in nowPos + 1 .. nowPos + n : target[i] = target[i - dist]

EncoderDid(kind, latest) ==
    /\ packets' = Append(Tail(packets), kind)
    /\ dists' = latest

(* The context of the bits of a literal: the decoder's and the encoder's.  *)
DecoderContext == <<state, previousByte, IF state >= kNumLitStates THEN MemoryAt(nowPos - rep0 + 1) ELSE 0>>

LiteralState(s) == IF s < 4 THEN 0 ELSE IF s < 10 THEN s - 3 ELSE s - 6

Literal(b) ==
    /\ Decoding /\ WrittenLiteral(b)
    /\ out' = Append(out, b) /\ previousByte' = b
    /\ state' = LiteralState(state)
    /\ EncoderDid("literal", dists)
    /\ UNCHANGED <<target, damaged, outSize, result, rep0, rep1, rep2, rep3>>

Failed ==
    /\ result' = "error"
    /\ UNCHANGED <<target, damaged, outSize, out, state, rep0, rep1, rep2, rep3, previousByte, packets, dists>>

(* The byte at rep0 once more; only the first byte has none.               *)
ShortRep ==
    /\ Decoding /\ WrittenCopy(dists[1], 1)
    /\ IF nowPos = 0 THEN Failed
       ELSE /\ out' = Append(out, MemoryAt(nowPos - rep0 + 1)) /\ previousByte' = MemoryAt(nowPos - rep0 + 1)
            /\ state' = IF state < kNumLitStates THEN 9 ELSE 11
            /\ EncoderDid("shortrep", dists)
            /\ UNCHANGED <<target, damaged, outSize, result, rep0, rep1, rep2, rep3>>

CopiedByte(text) == text[Len(text)]

(* Mutant: what is written by the same match is not read again.            *)
SourceBefore(i, dist) == i - dist

(* Bytes are copied one after the other, those just written as well: a     *)
(* match longer than its distance repeats itself.                          *)
Source(i, dist) == nowPos - dist + 1 + ((i - nowPos - 1) % dist)

CopySize(n) == IF nowPos + n < outSize THEN nowPos + n ELSE outSize
Copied(dist, n) ==
    [i \in 1 .. CopySize(n) |-> IF i <= nowPos THEN out[i] ELSE MemoryAt(Source(i, dist))]

(* Mutant: a distance that reaches before the output is not refused.       *)
OutsideNever(dist) == FALSE

Outside(dist) == dist > nowPos

CopyOrFail(dist, n) ==
    IF Outside(dist) THEN result' = "error" /\ UNCHANGED <<out, previousByte>>
    ELSE /\ out' = Copied(dist, n) /\ previousByte' = CopiedByte(Copied(dist, n))
         /\ UNCHANGED result

Match ==
    \E dist \in 1 .. MaxDistance, n \in kMatchMinLen .. MaxLen :
        /\ Decoding /\ WrittenCopy(dist, n)
        /\ rep3' = rep2 /\ rep2' = rep1 /\ rep1' = rep0 /\ rep0' = dist
        /\ state' = (IF state < kNumLitStates THEN 0 ELSE 3) + kNumLitStates
        /\ CopyOrFail(dist, n)
        /\ EncoderDid("match", <<dist, dists[1], dists[2], dists[3]>>)
        /\ UNCHANGED <<target, damaged, outSize>>

(* The distance that says the stream ends: the output may be shorter.      *)
EndMarker ==
    /\ Decoding /\ damaged
    /\ result' = "ok" /\ rep3' = rep2 /\ rep2' = rep1 /\ rep1' = rep0 /\ rep0' = 0
    /\ state' = (IF state < kNumLitStates THEN 0 ELSE 3) + kNumLitStates
    /\ UNCHANGED <<target, damaged, outSize, out, previousByte, packets, dists>>

(* rep0 .. rep3 after a repetition of rep_k.                               *)
ShiftedReps(k) ==
    CASE k = 0 -> <<rep0, rep1, rep2, rep3>>
      [] k = 1 -> <<rep1, rep0, rep2, rep3>>
      [] k = 2 -> <<rep2, rep0, rep1, rep3>>
      [] OTHER -> <<rep3, rep0, rep1, rep2>>

(* The encoder repeats its k-th latest distance, which becomes the latest. *)
MovedToFront(k) == <<dists[k + 1]>> \o SubSeq(dists, 1, k) \o SubSeq(dists, k + 2, 4)

RepMatch ==
    \E k \in 0 .. 3, n \in kMatchMinLen .. MaxLen :
        /\ Decoding /\ WrittenCopy(dists[k + 1], n)
        /\ rep0' = ShiftedReps(k)[1] /\ rep1' = ShiftedReps(k)[2]
        /\ rep2' = ShiftedReps(k)[3] /\ rep3' = ShiftedReps(k)[4]
        /\ state' = IF state < kNumLitStates THEN 8 ELSE 11
        /\ CopyOrFail(ShiftedReps(k)[1], n)
        /\ EncoderDid("rep", MovedToFront(k))
        /\ UNCHANGED <<target, damaged, outSize>>

(* The range coder runs out of its input.                                  *)
InputEnds == Decoding /\ damaged /\ Failed

Finish ==
    /\ result = "decoding" /\ nowPos = outSize
    /\ \/ result' = "ok"
       \/ damaged /\ result' = "error"
    /\ UNCHANGED <<target, damaged, outSize, out, state, rep0, rep1, rep2, rep3, previousByte, packets, dists>>

Bytes == UNION {{t[i] : i \in DOMAIN t} : t \in Targets}

LzmaNext ==
    \/ \E b \in Bytes : Literal(b)
    \/ ShortRep \/ Match \/ RepMatch \/ EndMarker \/ InputEnds \/ Finish

LzmaSpec == LzmaInit /\ [][LzmaNext]_lzmaVars

-----------------------------------------------------------------------------
(* The encoder's view of its last packets, by the format: the state says   *)
(* what the latest packet that was no literal was, how many literals       *)
(* followed it (up to two, or three after which it is forgotten), and,     *)
(* when none followed, whether a literal came before.                      *)
LastPacket == packets[4]
EncoderState ==
    LET kind(i) == packets[i]
        base(k) == CASE k = "match" -> 0 [] k = "rep" -> 1 [] OTHER -> 2
    IN  IF kind(4) # "literal"
        THEN IF kind(3) = "literal" THEN 7 + base(kind(4))
             ELSE IF kind(4) = "match" THEN 10 ELSE 11
        ELSE IF kind(3) # "literal"
        THEN IF kind(2) = "literal" THEN 4 + base(kind(3)) ELSE IF kind(3) = "match" THEN 4 ELSE 5
        ELSE IF kind(2) # "literal"
        THEN IF kind(1) = "literal" THEN 1 + base(kind(2)) ELSE IF kind(2) = "match" THEN 1 ELSE 2
        ELSE 0

LzmaTypeOK ==
    /\ target \in Targets /\ damaged \in BOOLEAN /\ outSize \in OutSizes
    /\ result \in {"decoding", "ok", "error"}
    /\ out \in Seq(Bytes \cup {0}) /\ nowPos <= outSize
    /\ state \in 0 .. 11
    /\ \A r \in {rep0, rep1, rep2, rep3} : r \in Nat

(* Every byte that is read was written before: no distance reaches before  *)
(* the output, although short repetitions and matched literals check none. *)
ReadsInside ==
    /\ result = "decoding" /\ nowPos > 0 => rep0 \in 1 .. nowPos
    /\ result = "decoding" /\ nowPos > 0 => rep1 \in 1 .. nowPos /\ rep2 \in 1 .. nowPos /\ rep3 \in 1 .. nowPos
    /\ result = "decoding" /\ state >= kNumLitStates => nowPos > 0

(* A stream that is not damaged decodes to the text that was compressed.   *)
DecodesTarget == ~damaged => result # "error" /\ out = SubSeq(target, 1, nowPos)

(* Decoder and encoder agree on the four distances and on the context of   *)
(* the next packet, whatever packets came before, so that the range coder  *)
(* uses the same probabilities on both sides.                              *)
ContextsAgree ==
    result = "decoding" =>
        /\ <<rep0, rep1, rep2, rep3>> = dists
        /\ DecoderContext = <<EncoderState, IF nowPos = 0 THEN 0 ELSE ByteAt(nowPos - 1),
                              IF LastPacket # "literal" THEN ByteAt(nowPos - dists[1]) ELSE 0>>

(* The decoder follows the encoder in output and in context.               *)
FollowsEncoder == DecodesTarget /\ ContextsAgree

-----------------------------------------------------------------------------
(***************************************************************************)
(* The range decoder under LzmaDecode, and its probabilities. An encoder   *)
(* (external) writes bits, each in a context whose probability adapts, or  *)
(* direct ones; the decoder must read the same bits from the code. Then    *)
(* the pure parts: trees of bits, distances, the places of the contexts in *)
(* the table of probabilities.                                             *)
(***************************************************************************)
CONSTANTS
    RangeBits, TopBits,     \* 32, kNumTopBits
    ModelBits, MoveBits,    \* kNumBitModelTotalBits, kNumMoveBits
    BitContexts,            \* contexts of the bits
    MaxBits                 \* bound on the bits that are written

ASSUME RangeCoderAssumption ==
    /\ RangeBits \in Nat /\ TopBits \in 1 .. RangeBits /\ MaxBits \in Nat
    /\ ModelBits \in 1 .. TopBits /\ MoveBits \in 1 .. ModelBits

VARIABLES low, range, shifts, probs, bits

coderVars == <<low, range, shifts, probs, bits>>

ShiftBits == RangeBits - TopBits
TopValue == 2 ^ TopBits
FullRange == 2 ^ RangeBits - 1
ModelTotal == 2 ^ ModelBits
Bound(r, p) == (r \div ModelTotal) * p

(* UpdateBit0 and UpdateBit1 of a probability.                             *)
Adapted(p, bit) == IF bit = 0 THEN p + (ModelTotal - p) \div 2 ^ MoveBits ELSE p - p \div 2 ^ MoveBits

Direct == "direct"
Written(c) == [context : {c}, bit : {0, 1}]

(* The encoder: the interval [low, low + range), with shifts digits below  *)
(* the range.                                                              *)
EncodeBit ==
    \E b \in UNION {Written(c) : c \in BitContexts \cup {Direct}} :
        LET bound == IF b.context = Direct THEN range \div 2 ELSE Bound(range, probs[b.context])
            newLow == IF b.bit = 0 THEN low ELSE low + bound
            newRange == IF b.context = Direct \/ b.bit = 0 THEN bound ELSE range - bound
            normalized == newRange < TopValue
        IN  /\ Len(bits) < MaxBits
            /\ bits' = Append(bits, b)
            /\ probs' = IF b.context = Direct THEN probs ELSE [probs EXCEPT ![b.context] = Adapted(@, b.bit)]
            /\ low' = IF normalized THEN newLow * 2 ^ ShiftBits ELSE newLow
            /\ range' = IF normalized THEN newRange * 2 ^ ShiftBits ELSE newRange
            /\ shifts' = IF normalized THEN shifts + 1 ELSE shifts

RangeInit ==
    /\ low = 0 /\ range = FullRange /\ shifts = 0 /\ bits = <<>>
    /\ probs = [c \in BitContexts |-> ModelTotal \div 2]

RangeSpec == RangeInit /\ [][EncodeBit]_coderVars

-----------------------------------------------------------------------------
(* The decoder. A code of `shifts' digits is a number; RC_INIT reads its   *)
(* upper RangeBits, RC_NORMALIZE one more digit.                           *)
DecoderStart(code) ==
    [code |-> code \div 2 ^ (ShiftBits * shifts), range |-> FullRange, left |-> shifts,
     probs |-> [c \in BitContexts |-> ModelTotal \div 2], bits |-> <<>>]

Digit(code, left) == (code \div 2 ^ (ShiftBits * (left - 1))) % 2 ^ ShiftBits

(* RC_NORMALIZE; the input may end here.                                   *)
Normalized(d, code) ==
    IF d.range < TopValue /\ d.left > 0
    THEN [d EXCEPT !.range = (@ * 2 ^ ShiftBits) % 2 ^ RangeBits,
                   !.code = ((@ * 2 ^ ShiftBits) % 2 ^ RangeBits) + Digit(code, d.left),
                   !.left = @ - 1]
    ELSE d

IsBit0(d, bound) == d.code < bound

DecodedBit(d0, context, code) ==
    LET d == Normalized(d0, code)
        bound == IF context = Direct THEN d.range \div 2 ELSE Bound(d.range, d.probs[context])
        bit == IF IsBit0(d, bound) THEN 0 ELSE 1
    IN  [d EXCEPT !.bits = Append(@, [context |-> context, bit |-> bit]),
                  !.range = IF context = Direct \/ bit = 0 THEN bound ELSE @ - bound,
                  !.code = IF bit = 0 THEN @ ELSE @ - bound,
                  !.probs = IF context = Direct THEN @ ELSE [@ EXCEPT ![context] = Adapted(@, bit)]]

Decoded(code) == FoldLeft(LAMBDA d, b : DecodedBit(d, b.context, code), DecoderStart(code), bits)

-----------------------------------------------------------------------------
(* RangeDecoderBitTreeDecode, and the reverse tree of the distances.       *)
TreeDecoded(tree) == FoldLeft(LAMBDA mi, b : mi + mi + b, 1, tree) - 2 ^ Len(tree)
ReverseDecoded(tree) == FoldLeftDomain(LAMBDA v, i : v + tree[i] * 2 ^ (i - 1), 0, tree)

kStartPosModelIndex == 4
kEndPosModelIndex == 14
kNumAlignBits == 4

DirectBits(slot) == (slot \div 2) - 1

SlotBase(slot) == 2 + (slot % 2)

(* The distance of a slot and of the number its further bits make: direct  *)
(* ones first, then the reverse tree.                                      *)
Distance(slot, further) ==
    IF slot < kStartPosModelIndex THEN slot ELSE SlotBase(slot) * 2 ^ DirectBits(slot) + further

Furthers(slot) == IF slot < kStartPosModelIndex THEN {0} ELSE 0 .. 2 ^ DirectBits(slot) - 1

(* LzmaDecodeProperties.                                                   *)
Properties(prop0) == [pb |-> prop0 \div 45, lp |-> (prop0 % 45) \div 9, lc |-> prop0 % 9]

kNumStates == 12
kNumPosStatesMax == 16
IsMatch == 0
IsRep == IsMatch + kNumStates * 16
IsRepG0 == IsRep + kNumStates
IsRepG1 == IsRepG0 + kNumStates
IsRepG2 == IsRepG1 + kNumStates
IsRep0Long == IsRepG2 + kNumStates
PosSlot == IsRep0Long + kNumStates * 16
SpecPos == PosSlot + 4 * 64
Align == SpecPos + 128 - kEndPosModelIndex
LenCoder == Align + 16
LenLow == 2
LenMid == LenLow + kNumPosStatesMax * 8
LenHigh == LenMid + kNumPosStatesMax * 8
RepLenCoder == LenCoder + LenHigh + 256
Literals == RepLenCoder + LenHigh + 256

(* LzmaGetNumProbs                                                         *)
NumProbs(p) == 1846 + 768 * 2 ^ (p.lc + p.lp)

SpecPosIndex(slot, mi) == SpecPos + SlotBase(slot) * 2 ^ DirectBits(slot) - slot - 1 + mi

LenIndexes(coder) ==
    {<<"Choice", coder, 0, coder>>, <<"Choice2", coder, 0, coder + 1>>}
    \cup {<<"Low", coder, i, coder + LenLow + i>> : i \in {ps * 8 + mi : ps \in 0 .. 15, mi \in 1 .. 7}}
    \cup {<<"Mid", coder, i, coder + LenMid + i>> : i \in {ps * 8 + mi : ps \in 0 .. 15, mi \in 1 .. 7}}
    \cup {<<"High", coder, mi, coder + LenHigh + mi>> : mi \in 1 .. 255}

LiteralIndex(p, position, previous, mode, symbol) ==
    Literals + 768 * ((position % 2 ^ p.lp) * 2 ^ p.lc + previous \div 2 ^ (8 - p.lc)) + mode * 256 + symbol

(* Every context with its place in the table: kind, arguments, index.      *)
ContextIndexes(p) ==
    {<<"IsMatch", st, ps, IsMatch + st * 16 + ps>> : st \in 0 .. 11, ps \in 0 .. 15}
    \cup {<<"IsRep", st, 0, IsRep + st>> : st \in 0 .. 11}
    \cup {<<"IsRepG0", st, 0, IsRepG0 + st>> : st \in 0 .. 11}
    \cup {<<"IsRepG1", st, 0, IsRepG1 + st>> : st \in 0 .. 11}
    \cup {<<"IsRepG2", st, 0, IsRepG2 + st>> : st \in 0 .. 11}
    \cup {<<"IsRep0Long", st, ps, IsRep0Long + st * 16 + ps>> : st \in 0 .. 11, ps \in 0 .. 15}
    \cup {<<"PosSlot", ls, mi, PosSlot + ls * 64 + mi>> : ls \in 0 .. 3, mi \in 1 .. 63}
    \cup UNION {{<<"SpecPos", slot, mi, SpecPosIndex(slot, mi)>> : mi \in 1 .. 2 ^ DirectBits(slot) - 1} : slot \in 4 .. 13}
    \cup {<<"Align", mi, 0, Align + mi>> : mi \in 1 .. 15}
    \cup LenIndexes(LenCoder) \cup LenIndexes(RepLenCoder)
    \cup UNION {{<<"Literal", pos * 2 ^ p.lc + previous, mode * 256 + symbol,
                   LiteralIndex(p, pos, previous * 2 ^ (8 - p.lc), mode, symbol)>> :
                       mode \in 0 .. 2, symbol \in 1 .. 255} : pos \in 0 .. 2 ^ p.lp - 1, previous \in 0 .. 2 ^ p.lc - 1}

-----------------------------------------------------------------------------
(* From every code inside the encoder's interval the decoder reads the     *)
(* bits that were written, and no probability becomes 0 or certain.        *)
DecodesWhatWasWritten ==
    /\ \A code \in {low, low + range - 1} : Decoded(code).bits = bits
    /\ \A c \in BitContexts : probs[c] \in 1 .. ModelTotal - 1

(* Every distance has exactly one slot and one number of further bits, and *)
(* trees number their leaves.                                              *)
DistancesAreUnique ==
    Len(bits) = 1 =>
        /\ \A slot \in 0 .. 10 : {Distance(slot, f) : f \in Furthers(slot)} \cap {Distance(slot + 1, f) : f \in Furthers(slot + 1)} = {}
        /\ UNION {{Distance(slot, f) : f \in Furthers(slot)} : slot \in 0 .. 11} = 0 .. 63
        /\ {TreeDecoded(t) : t \in [1 .. 4 -> {0, 1}]} = 0 .. 15
        /\ {ReverseDecoded(t) : t \in [1 .. 4 -> {0, 1}]} = 0 .. 15

(* No two contexts share a probability, and all lie inside the table that  *)
(* was allocated.                                                          *)
ContextsDisjoint ==
    Len(bits) = 1 =>
        LET p == Properties(10)  all == ContextIndexes(p) IN
        /\ Cardinality({c[4] : c \in all}) = Cardinality(all)
        /\ \A c \in all : c[4] < NumProbs(p)
        /\ \A prop0 \in 0 .. 224 :
               LET q == Properties(prop0) IN LiteralIndex(q, 15, 255, 2, 255) < NumProbs(q)

(* The range coder, and the numbers coded with it.                         *)
BitsAreExact == DecodesWhatWasWritten /\ DistancesAreUnique /\ ContextsDisjoint
=============================================================================
