----------------------------- MODULE Allocator -----------------------------
(***************************************************************************)
(* What the callers of malloc, realloc and free rely on: a block belongs   *)
(* to one holder, overlaps no other, and keeps what its holder wrote in it *)
(* until it is released; a resized block keeps what fits.                  *)
(***************************************************************************)
EXTENDS Integers, Sequences

CONSTANTS Holder, NoBlock

VARIABLE held       \* the block of each holder: [mem, data], or NoBlock

Words(b) == b.mem .. (b.mem + Len(b.data) - 1)

(* b may be given to n: it takes no word of another block.                 *)
Free(n, b) ==
    \A m \in Holder \ {n} :
        held[m] # NoBlock => Words(b) \cap Words(held[m]) = {}

AllocatorInit == held = [n \in Holder |-> NoBlock]

Obtain(n) ==
    /\ held[n] = NoBlock
    /\ held'[n] # NoBlock
    /\ Free(n, held'[n])
    /\ held' = [held EXCEPT ![n] = held'[n]]

Release(n) ==
    /\ held[n] # NoBlock
    /\ held' = [held EXCEPT ![n] = NoBlock]

Resize(n) ==
    /\ held[n] # NoBlock /\ held'[n] # NoBlock
    /\ Free(n, held'[n])
    /\ \A i \in DOMAIN held[n].data \cap DOMAIN held'[n].data :
           held'[n].data[i] = held[n].data[i]
    /\ held' = [held EXCEPT ![n] = held'[n]]

AllocatorNext == \E n \in Holder : Obtain(n) \/ Release(n) \/ Resize(n)

AllocatorSpec == AllocatorInit /\ [][AllocatorNext]_held
=============================================================================
