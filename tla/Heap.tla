-------------------------------- MODULE Heap --------------------------------
(***************************************************************************)
(* The allocator of U-Boot (common/dlmalloc.c) over the arena of           *)
(* lib_mips/board.c.  Addresses and sizes are counted in words (SIZE_SZ):  *)
(* a chunk p has the size of its predecessor at word p while that one is   *)
(* free, its own size and PREV_INUSE bit at p + 1, and the user's words    *)
(* from p + 2 up to and including the first word of the next chunk.        *)
(***************************************************************************)
EXTENDS Integers, Sequences, SequencesExt

CONSTANTS
    HeapWords,          \* the arena between mem_malloc_start and _end
    HeapPage,           \* malloc_getpagesize
    SmallMax,           \* MAX_SMALLBIN_SIZE: smaller sizes have a bin each
    WideBin,            \* the width of a bin for larger sizes
    BlockWidth,         \* BINBLOCKWIDTH
    TrimThreshold,      \* trim_threshold
    Holders,            \* the parts of the program that hold a block
    Requests,           \* the sizes they ask for, in words
    Alignments,         \* the alignments given to memalign
    Unheld              \* not a block

ASSUME HeapAssumption ==
    /\ HeapWords % HeapPage = 0 /\ HeapPage % 2 = 0 /\ SmallMax % 2 = 0
    /\ WideBin % 2 = 0 /\ BlockWidth > 0 /\ Requests \subseteq Nat

VARIABLES
    heap,               \* what the allocator keeps in memory
    blocks,             \* what each holder was given
    refused             \* the chunk size of a request that just failed, or 0

heapVars == <<heap, blocks, refused>>

MinSize == 4                        \* a chunk can hold its links when free
Null == -1
Addr == {2 * i : i \in 0 .. HeapWords \div 2}     \* where chunks may start

RoundTo(n, unit) == ((n + unit - 1) \div unit) * unit

request2size(words) ==
    IF words + 1 < MinSize THEN MinSize ELSE RoundTo(words + 1, 2)

bin_index(s) ==
    IF s < SmallMax THEN s \div 2
                    ELSE SmallMax \div 2 + (s - SmallMax) \div WideBin

Bins == 2 .. bin_index(HeapWords) + 1
LastRemainder == 1                  \* the bin of the last split

-----------------------------------------------------------------------------
(* Headers, footers and lists.  Of the contents of a word the model keeps  *)
(* whether it still is what its holder wrote (kept), or zero.              *)

Touch(h, words) == [h EXCEPT !.kept = @ \ words, !.zero = @ \ words]

set_head(h, p, s, inuse) ==
    Touch([h EXCEPT !.size[p] = s, !.pinuse[p] = inuse], {p + 1})

set_head_size(h, p, s) == set_head(h, p, s, h.pinuse[p])

set_foot(h, p, s) == Touch([h EXCEPT !.foot[p + s] = s], {p + s})

set_inuse_at(h, p, bit) == [h EXCEPT !.pinuse[p] = bit]

inuse(h, p) == h.pinuse[p + h.size[p]]

unlink(h, p) ==
    [h EXCEPT !.bins = [b \in DOMAIN @ |-> SelectSeq(@[b], LAMBDA q : q # p)]]

link(h, p, b, at) ==
    Touch([h EXCEPT !.bins[b] = InsertAt(@, at, p)], {p + 2, p + 3})

link_last_remainder(h, p) ==
    Touch([h EXCEPT !.bins[LastRemainder] = <<p>>], {p + 2, p + 3})

(* A small bin takes p in front; a large one is kept in decreasing order.  *)
frontlink(h, p, s) ==
    LET b  == bin_index(s)
        at == IF s < SmallMax THEN 1
              ELSE SelectInSeq(h.bins[b], LAMBDA q : h.size[q] <= s)
        g  == IF s < SmallMax \/ h.bins[b] = <<>>
              THEN [h EXCEPT !.marked = @ \cup {b \div BlockWidth}] ELSE h
    IN link(g, p, b, IF at = 0 THEN Len(h.bins[b]) + 1 ELSE at)

-----------------------------------------------------------------------------
(* malloc.                                                                 *)

(* The smallest chunk of a bin of at least s words, the oldest of its size *)
(* (0 is none): the lists are searched from their ends.                    *)
SmallestFit(h, b, s) == SelectLastInSeq(h.bins[b], LAMBDA q : h.size[q] >= s)

(* A chunk that needs no split, from the one or two bins that may have it. *)
ExactFit(h, nb) ==
    LET b == bin_index(nb)
        small == nb < SmallMax - 2
        q == IF small /\ h.bins[b] = <<>> THEN b + 1 ELSE b
        at == SmallestFit(h, q, nb)
    IN IF at # 0 /\ (small \/ h.size[h.bins[q][at]] < nb + MinSize)
       THEN h.bins[q][at] ELSE Null

(* Mutant: the bin of the request's own size is not searched again.        *)
FirstBinAfter(h, nb) == bin_index(nb) + (IF nb < SmallMax - 2 THEN 2 ELSE 1)

(* Where the search for a best fit starts: past the bins ExactFit saw.     *)
FirstBin(h, nb) ==
    LET b == bin_index(nb)
    IN IF nb < SmallMax - 2 THEN b + 2
       ELSE IF SmallestFit(h, b, nb) # 0 THEN b ELSE b + 1

(* The first bin of a marked block that has a chunk large enough.          *)
FittingBins(h, from, nb) ==
    {b \in Bins : /\ b >= from /\ b \div BlockWidth \in h.marked
                  /\ SmallestFit(h, b, nb) # 0}

BestFit(h, from, nb) ==
    LET fits == FittingBins(h, from, nb) IN
    IF fits = {} THEN Null
    ELSE LET b == Min(fits) IN h.bins[b][SmallestFit(h, b, nb)]

(* The marks of the blocks that the search went through are cleared, of    *)
(* the first only when the bins before the start of the search are empty.  *)
Unmark(h, from, nb) ==
    LET fits == FittingBins(h, from, nb)
        seen == {k \in h.marked : /\ k >= from \div BlockWidth
                                  /\ fits = {} \/ k < Min(fits) \div BlockWidth}
    IN [h EXCEPT !.marked = @ \ {k \in seen :
            \A b \in Bins : (b \div BlockWidth = k /\ b < from) => h.bins[b] = <<>>}]

Take(h, p) == set_inuse_at(unlink(h, p), p + h.size[p], TRUE)

Split(h, p, nb) ==
    LET rest == h.size[p] - nb
        g == link_last_remainder(set_head(unlink(h, p), p, nb, TRUE), p + nb)
    IN set_foot(set_head(g, p + nb, rest, TRUE), p + nb, rest)

sbrk_refuses(h, n) == h.brk + n > HeapWords

(* The first extension makes the break a multiple of a page; the later     *)
(* ones ask for pages and add them to top.                                 *)
malloc_extend_top(h, nb) ==
    LET n == nb + MinSize
        pages == RoundTo(n, HeapPage)
        g == [h EXCEPT !.brk = @ + pages]
    IN IF sbrk_refuses(h, pages) THEN h
       ELSE IF h.top = Null THEN set_head([g EXCEPT !.top = h.brk], h.brk, pages, TRUE)
       ELSE set_head(g, h.top, h.size[h.top] + pages, TRUE)

TopSize(h) == IF h.top = Null THEN 0 ELSE h.size[h.top]

FromTop(h, nb) ==
    LET g == set_head([h EXCEPT !.top = @ + nb], h.top, nb, TRUE)
    IN set_head(g, g.top, h.size[h.top] - nb, TRUE)

UseTop(h, nb) ==
    LET Chunk(g) == IF TopSize(g) < nb + MinSize THEN [heap |-> g, p |-> Null]
                    ELSE [heap |-> FromTop(g, nb), p |-> g.top]
    IN Chunk(IF TopSize(h) < nb + MinSize THEN malloc_extend_top(h, nb) ELSE h)

SearchBins(h, nb) ==
    LET from == FirstBin(h, nb)
        last == h.bins[LastRemainder]
        g == IF last = <<>> THEN h
             ELSE frontlink([h EXCEPT !.bins[LastRemainder] = <<>>], last[1], h.size[last[1]])
        Found(k, p) ==
            IF p = Null THEN UseTop(k, nb)
            ELSE [heap |-> IF h.size[p] >= nb + MinSize THEN Split(k, p, nb) ELSE Take(k, p),
                  p |-> p]
    IN Found(Unmark(g, from, nb), BestFit(g, from, nb))

mALLOc(h, nb) ==
    LET exact == ExactFit(h, nb)
        last == h.bins[LastRemainder]
    IN IF exact # Null THEN [heap |-> Take(h, exact), p |-> exact]
       ELSE IF last # <<>> /\ h.size[last[1]] >= nb + MinSize
            THEN [heap |-> Split(h, last[1], nb), p |-> last[1]]
       ELSE IF last # <<>> /\ h.size[last[1]] >= nb
            THEN [heap |-> Take(h, last[1]), p |-> last[1]]
       ELSE SearchBins(h, nb)

-----------------------------------------------------------------------------
(* free.                                                                   *)

(* Whole pages of top but the last go back to the system.                  *)
malloc_trim(h) ==
    LET extra == ((h.size[h.top] - MinSize + HeapPage - 1) \div HeapPage - 1) * HeapPage
    IN IF extra < HeapPage THEN h
       ELSE set_head([h EXCEPT !.brk = @ - extra], h.top, h.size[h.top] - extra, TRUE)

FreeIntoTop(h, p) ==
    LET q == IF h.pinuse[p] THEN p ELSE p - h.foot[p]
        s == (p - q) + h.size[p] + h.size[h.top]
        g == set_head([unlink(h, q) EXCEPT !.top = q], q, s, TRUE)
    IN IF s >= TrimThreshold THEN malloc_trim(g) ELSE g

(* The chunk joins its free neighbours; it stays or becomes the last       *)
(* remainder when one of them is.                                          *)
FreeIntoBin(h, p) ==
    LET next == p + h.size[p]
        back == ~h.pinuse[p]
        q == IF back THEN p - h.foot[p] ELSE p
        forward == ~inuse(h, next)
        s == (next - q) + (IF forward THEN h.size[next] ELSE 0)
        last == h.bins[LastRemainder]
        keep == back /\ last = <<q>>
        move == ~keep /\ forward /\ last = <<next>>
        g1 == set_inuse_at(h, next, FALSE)
        g2 == IF back /\ ~keep THEN unlink(g1, q) ELSE g1
        g3 == IF move THEN link_last_remainder(g2, q)
              ELSE IF forward THEN unlink(g2, next) ELSE g2
        g4 == set_foot(set_head(g3, q, s, TRUE), q, s)
    IN IF keep \/ move THEN g4 ELSE frontlink(g4, q, s)

fREe(h, p) ==
    IF p + h.size[p] = h.top THEN FreeIntoTop(h, p) ELSE FreeIntoBin(h, p)

-----------------------------------------------------------------------------
(* realloc and memalign.                                                   *)

CopyWords(h, from, to, n) ==
    LET target == to .. to + n - 1
        as == {w \in target : w - to + from \in h.kept}
    IN [h EXCEPT !.kept = (@ \ target) \cup as, !.zero = @ \ target]

(* Room that p does not need is given back as a chunk of its own.          *)
GiveBackTail(h, p, s, nb) ==
    IF s >= nb + MinSize
    THEN LET g == set_head(set_head_size(h, p, nb), p + nb, s - nb, TRUE)
         IN fREe(set_inuse_at(g, p + s, TRUE), p + nb)
    ELSE set_inuse_at(set_head_size(h, p, s), p + s, TRUE)

(* The chunk takes what it needs of top, which must keep a chunk.          *)
GrowIntoTop(h, p, s, nb) ==
    LET g == [h EXCEPT !.top = p + nb]
    IN set_head_size(set_head(g, p + nb, s - nb, TRUE), p, nb)

(* Mutant: the copy leaves out the word that is the footer of a free chunk.*)
MovedShort(h, p, q) == CopyWords(unlink(h, q), p + 2, q + 2, h.size[p] - 2)

Moved(h, p, q) == CopyWords(unlink(h, q), p + 2, q + 2, h.size[p] - 1)

ReallocElsewhere(h, p, nb) ==
    LET Into(g, to) ==
            IF to = Null THEN [heap |-> g, p |-> Null]
            ELSE IF to = p + g.size[p]
                 THEN [heap |-> GiveBackTail(g, p, g.size[p] + g.size[to], nb), p |-> p]
            ELSE [heap |-> fREe(CopyWords(g, p + 2, to + 2, g.size[p] - 1), p), p |-> to]
        IntoResult(r) == Into(r.heap, r.p)
    IN IntoResult(mALLOc(h, nb))

Grow(h, p, nb) ==
    LET next == p + h.size[p]
        atTop == next = h.top
        forward == atTop \/ ~inuse(h, next)
        back == ~h.pinuse[p]
        q == p - h.foot[p]
        up == h.size[p] + h.size[next]
        down == h.size[p] + h.foot[p]
        both == up + h.foot[p]
    IN IF atTop /\ up >= nb + MinSize
       THEN [heap |-> GrowIntoTop(h, p, up, nb), p |-> p]
       ELSE IF forward /\ ~atTop /\ up >= nb
       THEN [heap |-> GiveBackTail(unlink(h, next), p, up, nb), p |-> p]
       ELSE IF back /\ atTop /\ both >= nb + MinSize
       THEN [heap |-> GrowIntoTop(Moved(h, p, q), q, both, nb), p |-> q]
       ELSE IF back /\ forward /\ ~atTop /\ both >= nb
       THEN [heap |-> GiveBackTail(Moved(unlink(h, next), p, q), q, both, nb), p |-> q]
       ELSE IF back /\ down >= nb
       THEN [heap |-> GiveBackTail(Moved(h, p, q), q, down, nb), p |-> q]
       ELSE ReallocElsewhere(h, p, nb)

rEALLOc(h, p, nb) ==
    IF h.size[p] < nb THEN Grow(h, p, nb)
    ELSE [heap |-> GiveBackTail(h, p, h.size[p], nb), p |-> p]

(* The place of the user's words is a multiple of a, with room for a chunk *)
(* of its own before it.                                                   *)
AlignedChunk(p, a) ==
    LET q == RoundTo(p + 2, a) - 2
    IN IF (p + 2) % a = 0 THEN p ELSE IF q - p < MinSize THEN q + a ELSE q

GiveBackLead(h, p, q) ==
    LET s == h.size[p] - (q - p)
        g == set_inuse_at(set_head(h, q, s, TRUE), q + s, TRUE)
    IN IF q = p THEN h ELSE fREe(set_head_size(g, p, q - p), p)

(* malloc is asked for enough to hold an aligned chunk wherever it starts. *)
PaddedSize(alignment, nb) ==
    IF alignment <= 2 THEN nb
    ELSE request2size(nb + (IF alignment < MinSize THEN MinSize ELSE alignment) + MinSize)

mEMALIGn(h, alignment, nb) ==
    LET a == IF alignment < MinSize THEN MinSize ELSE alignment
        Trimmed(g, q) ==
            [heap |-> IF g.size[q] >= nb + MinSize
                      THEN fREe(set_head(set_head_size(g, q, nb), q + nb, g.size[q] - nb, TRUE), q + nb)
                      ELSE g,
             p |-> q]
        At(r, q) == Trimmed(GiveBackLead(r.heap, r.p, q), q)
        InChunk(r) == IF alignment <= 2 \/ r.p = Null THEN r ELSE At(r, AlignedChunk(r.p, a))
    IN InChunk(mALLOc(h, PaddedSize(alignment, nb)))

(* calloc clears the chunk, but for what was just obtained from sbrk,      *)
(* which is taken to be clear.                                             *)
ClearedWords(h, g, p) ==
    LET s == g.size[p]
        n == IF p = h.top /\ s > TopSize(h) THEN TopSize(h) ELSE s
    IN p + 2 .. p + n

cALLOc(h, nb) ==
    LET Cleared(r) == IF r.p = Null THEN r
                      ELSE [r EXCEPT !.heap.zero = @ \cup ClearedWords(h, r.heap, r.p)]
    IN Cleared(mALLOc(h, nb))

-----------------------------------------------------------------------------
(* The program.                                                            *)

UserWords(b) == b.mem .. b.mem + b.words - 1

Chunks(h) ==
    LET walk[a \in Addr] ==
            IF a = h.top \/ h.size[a] = 0 \/ a + h.size[a] > HeapWords THEN {a}
            ELSE {a} \cup walk[a + h.size[a]]
    IN IF h.top = Null THEN {} ELSE walk[0]

(* Words that are neither a header, a footer nor a holder's are forgotten. *)
Settled(h, held) ==
    LET starts == Chunks(h)
        used == UNION {UserWords(held[n]) : n \in {m \in Holders : held[m] # Unheld}}
    IN [h EXCEPT
          !.size = [a \in Addr |-> IF a \in starts THEN @[a] ELSE 0],
          !.pinuse = [a \in Addr |-> a \in starts /\ @[a]],
          !.foot = [a \in Addr |-> IF a \in starts /\ ~h.pinuse[a] THEN @[a] ELSE 0],
          !.kept = @ \cap used,
          !.zero = {w \in @ : w >= h.brk}]

HeapInit ==
    /\ heap = [size |-> [a \in Addr |-> 0], pinuse |-> [a \in Addr |-> FALSE],
               foot |-> [a \in Addr |-> 0], kept |-> {}, zero |-> 0 .. HeapWords,
               bins |-> [b \in Bins \cup {LastRemainder} |-> <<>>],
               marked |-> {}, top |-> Null, brk |-> 0]
    /\ blocks = [n \in Holders |-> Unheld]
    /\ refused = 0

(* The holder gets its block and writes all of it, or is refused.          *)
Give(n, words, asked, r, clean) ==
    LET b == [mem |-> r.p + 2, words |-> words, clean |-> clean]
        held == [blocks EXCEPT ![n] = b]
    IN IF r.p = Null
       THEN /\ heap' = Settled(r.heap, blocks) /\ refused' = asked
            /\ UNCHANGED blocks
       ELSE /\ heap' = Settled([r.heap EXCEPT !.kept = @ \cup UserWords(b)], held)
            /\ blocks' = held /\ refused' = 0

(* sbrk's failure is not recognised before the first success: the first    *)
(* request of the program fits (env_relocate asks for CFG_ENV_SIZE).       *)
FirstFits(nb) == heap.top = Null => ~sbrk_refuses(heap, RoundTo(nb + MinSize, HeapPage))

HeapMalloc(n, words) ==
    /\ blocks[n] = Unheld
    /\ FirstFits(request2size(words))
    /\ Give(n, words, request2size(words), mALLOc(heap, request2size(words)), TRUE)

HeapMemalign(n, a, words) ==
    LET nb == request2size(words)
        asked == PaddedSize(a, nb)
    IN /\ blocks[n] = Unheld
       /\ FirstFits(asked)
       /\ Give(n, words, asked, mEMALIGn(heap, a, nb), TRUE)

(* Words used and then returned by malloc_trim: sbrk does not clear them.  *)
GivenBack(h) == {w \in h.brk .. HeapWords : w \notin h.zero}

HeapCalloc(n, words) ==
    /\ blocks[n] = Unheld
    /\ FirstFits(request2size(words))
    /\ \E r \in {cALLOc(heap, request2size(words))} :
           Give(n, words, request2size(words), r,
                \A w \in r.p + 2 .. r.p + 1 + words :
                    r.p # Null => w \in r.heap.zero \cup GivenBack(heap))

HeapFree(n) ==
    LET held == [blocks EXCEPT ![n] = Unheld] IN
    /\ blocks[n] # Unheld
    /\ heap' = Settled(fREe(heap, blocks[n].mem - 2), held)
    /\ blocks' = held
    /\ refused' = 0

(* The holder writes the words it gained; the others must be as they were. *)
HeapRealloc(n, words) ==
    /\ blocks[n] # Unheld
    /\ \E r \in {rEALLOc(heap, blocks[n].mem - 2, request2size(words))} :
           LET new == [blocks[n] EXCEPT !.mem = r.p + 2, !.words = words]
               held == [blocks EXCEPT ![n] = new]
               gained == new.mem + blocks[n].words .. new.mem + words - 1
           IN IF r.p = Null
              THEN /\ heap' = Settled(r.heap, blocks) /\ refused' = request2size(words)
                   /\ UNCHANGED blocks
              ELSE /\ heap' = Settled([r.heap EXCEPT !.kept = @ \cup gained], held)
                   /\ blocks' = held /\ refused' = 0

HeapNext ==
    \E n \in Holders :
        \/ HeapFree(n)
        \/ \E words \in Requests :
               \/ HeapMalloc(n, words)
               \/ HeapCalloc(n, words)
               \/ HeapRealloc(n, words)
               \/ \E a \in Alignments : HeapMemalign(n, a, words)

HeapSpec == HeapInit /\ [][HeapNext]_heapVars

-----------------------------------------------------------------------------
FreeChunks(h) == {a \in Chunks(h) \ {h.top} : ~inuse(h, a)}

Binned(h) == UNION {{h.bins[b][i] : i \in DOMAIN h.bins[b]} : b \in DOMAIN h.bins}

(* do_check_free_chunk and do_check_inuse_chunk (dlmalloc.c:1640-1735),    *)
(* for every chunk at once: the chunks fill the arena up to the break, no  *)
(* two neighbours are free, each free chunk has its footer, and is in one  *)
(* list, the one of its size, in order, in a block that is marked.         *)
HeapTypeOK ==
    heap.top # Null =>
    LET free == FreeChunks(heap) IN
    /\ heap.top \in Chunks(heap) /\ heap.top + heap.size[heap.top] = heap.brk
    /\ heap.size[heap.top] >= MinSize /\ heap.pinuse[heap.top] /\ heap.pinuse[0]
    /\ \A a \in Chunks(heap) : heap.size[a] >= MinSize /\ heap.size[a] % 2 = 0
    /\ \A a \in free : heap.pinuse[a] /\ heap.foot[a + heap.size[a]] = heap.size[a]
    /\ Binned(heap) = free
    /\ \A b \in DOMAIN heap.bins :
           /\ IsInjective(heap.bins[b])
           /\ b = LastRemainder => Len(heap.bins[b]) <= 1
           /\ \A i \in DOMAIN heap.bins[b] : b # LastRemainder =>
                /\ bin_index(heap.size[heap.bins[b][i]]) = b
                /\ b \div BlockWidth \in heap.marked
                /\ i > 1 => heap.size[heap.bins[b][i - 1]] >= heap.size[heap.bins[b][i]]
    /\ \A n \in Holders : blocks[n] # Unheld =>
           /\ blocks[n].mem - 2 \in Chunks(heap) \ (free \cup {heap.top})
           /\ heap.size[blocks[n].mem - 2] > blocks[n].words
    /\ \A a \in Chunks(heap) \ (free \cup {heap.top}) :
           \E n \in Holders : blocks[n] # Unheld /\ blocks[n].mem = a + 2

(* What the holders see of the heap.                                       *)
HeapHeld ==
    [n \in Holders |->
        IF blocks[n] = Unheld THEN Unheld
        ELSE [mem |-> blocks[n].mem,
              data |-> [i \in 1 .. blocks[n].words |-> blocks[n].mem + i - 1 \in heap.kept]]]

Promise == INSTANCE Allocator WITH Holder <- Holders, NoBlock <- Unheld, held <- HeapHeld

(* The code behind malloc, free, realloc and memalign keeps the promise of *)
(* an allocator: blocks do not overlap, nothing the allocator writes in    *)
(* headers, footers, links and copies reaches a word in use.               *)
HeapImplementsAllocator == Promise!AllocatorSpec

(* A request is refused only when no free chunk is large enough: neither   *)
(* the choice of the first bin, nor the marks that skip blocks of bins,    *)
(* nor the last remainder hide one (mALLOc, dlmalloc.c:2132).              *)
RefusedOnlyWhenFull ==
    refused # 0 =>
    /\ \A a \in FreeChunks(heap) : heap.size[a] < refused
    /\ heap.size[heap.top] < refused + MinSize
    /\ heap.brk + refused + MinSize + HeapPage > HeapWords

(* What calloc returns is zero (cALLOc, dlmalloc.c:2882): what it does not *)
(* clear itself is new from sbrk.  The words malloc_trim gave back are the *)
(* exception: sbrk (board.c:66) does not clear them, as MORECORE_CLEARS    *)
(* (malloc.h:199) says it does.                                            *)
CallocClears == \A n \in Holders : blocks[n] # Unheld => blocks[n].clean

(* The allocator's own structures, and what it says of them.               *)
HeapIsSound == HeapTypeOK /\ RefusedOnlyWhenFull /\ CallocClears
=============================================================================
