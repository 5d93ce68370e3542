------------------------------- MODULE Lists -------------------------------
(***************************************************************************)
(* common/lists.c: growing arrays of items of one size, behind a handle.   *)
(* Memory is the cells of the list's block; modelled is what the same      *)
(* calls make of a mathematical sequence. This board compiles what         *)
(* device_register and device_deregister need; CFG_ALL_LIST_FUNCTIONS has  *)
(* the rest.                                                               *)
(***************************************************************************)
EXTENDS Integers, SequencesExt

CONSTANTS
    Items,              \* integers
    PercentIncrease, MinIncrease,
    MaxItems            \* bound on the length of the lists

ASSUME ListsAssumption ==
    /\ Items \subseteq Int /\ MaxItems \in Nat
    /\ PercentIncrease \in Nat /\ MinIncrease \in Nat \ {0}

VARIABLES
    list, list2, modelled,
    overrun             \* two items at once went where one had room

listsVars == <<list, list2, modelled, overrun>>

LIST_END == 0
LIST_START == -1
ZeroItem == 0

ListCreate == [num |-> 0, size |-> 0, cells |-> <<>>]

Contents(l) == SubSeq(l.cells, 1, l.num)

(* SetHandleSize: realloc, and zeroes in what is new.                      *)
Resized(l, n) ==
    [l EXCEPT !.size = n, !.cells = SubSeq(@, 1, IF n < Len(@) THEN n ELSE Len(@)) \o [i \in 1 .. n - Len(@) |-> ZeroItem]]

NumItemsPerAlloc(l) ==
    LET percent == (l.size * (PercentIncrease + 100)) \div 100
    IN  IF percent > MinIncrease THEN percent ELSE MinIncrease

(* ExpandListSpace.                                                        *)
Expanded(l, n) ==
    Resized(l, l.size + (IF n > 0 THEN n ELSE -n + NumItemsPerAlloc(l)))

(* memmove within the cells, from one index to another; beyond the end of  *)
(* the block it is lost.                                                   *)
CellsMoved(cells, to, from, n) ==
    [i \in 1 .. Len(cells) |-> IF i \in to .. to + n - 1 THEN cells[i - to + from] ELSE cells[i]]
Stored(cells, to, items) ==
    [i \in 1 .. Len(cells) |-> IF i \in to .. to + Len(items) - 1 THEN items[i - to + 1] ELSE cells[i]]

(* Mutant: the items after the new ones are one fewer.                     *)
TailLengthShort(l, at) == l.num - at

TailLength(l, at) == l.num + 1 - at

(* ListInsertItems: the list, and whether it was changed.                  *)
Position(l, at) ==
    IF at = l.num + 1 \/ (at = LIST_START /\ l.num = 0) THEN LIST_END
    ELSE IF at = LIST_START THEN 1 ELSE at

NeedsSpace(l) == l.num >= l.size

Inserted(l, items, at) ==
    LET l1 == IF NeedsSpace(l) THEN Expanded(l, -Len(items)) ELSE l
        p == Position(l, at)
        cells == IF p = LIST_END THEN Stored(l1.cells, l1.num + 1, items)
                 ELSE Stored(CellsMoved(l1.cells, p + Len(items), p, TailLength(l1, p)), p, items)
    IN  [l1 EXCEPT !.cells = cells, !.num = @ + Len(items)]

(* An unsuccessful realloc is "out of memory": the list stays as it is.    *)
Insert(items, at) ==
    /\ list.num + Len(items) <= MaxItems
    /\ Position(list, at) <= list.num
    /\ list' = Inserted(list, items, at)
    /\ modelled' =
           LET p == IF at \in {LIST_END, list.num + 1} THEN Len(modelled) + 1 ELSE IF at = LIST_START THEN 1 ELSE at
           IN  SubSeq(modelled, 1, p - 1) \o items \o SubSeq(modelled, p, Len(modelled))
    /\ UNCHANGED list2

InsertItem == \E x \in Items, at \in LIST_START .. MaxItems : Insert(<<x>>, at)

(* Several at once: a list that is not full is not expanded, whatever the  *)
(* number of items, and with one free cell the second goes behind it.      *)
InsertItems ==
    /\ \E x, y \in Items, at \in LIST_START .. MaxItems : Insert(<<x, y>>, at)
    /\ overrun' = (list.size - list.num = 1)

(* Where the functions that read or remove find an item.                   *)
Place(l, at) == IF at = LIST_START THEN 1 ELSE IF at = LIST_END THEN l.num ELSE at

ListGetPtrToItem(l, at) == l.cells[Place(l, at)]
ListGetItems(l, at, n) == SubSeq(l.cells, Place(l, at), Place(l, at) + n - 1)

(* ListReplaceItems                                                        *)
Replaced(l, items, at) == [l EXCEPT !.cells = Stored(@, Place(l, at), items)]

ReplaceItem ==
    \E x \in Items, at \in LIST_START .. list.num :
        /\ list.num > 0
        /\ list' = Replaced(list, <<x>>, at)
        /\ modelled' = [modelled EXCEPT ![IF at = LIST_END THEN Len(modelled) ELSE IF at = LIST_START THEN 1 ELSE at] = x]
        /\ UNCHANGED list2

(* ListRemoveItems                                                         *)
Removed(l, at, n) ==
    LET p == Place(l, at)
        after == p + n
        rest == l.num - (after - 1)
    IN  [l EXCEPT !.cells = IF rest > 0 THEN CellsMoved(@, p, after, rest) ELSE @, !.num = @ - n]

RemoveItems ==
    \E at \in 1 .. list.num, n \in 1 .. 2 :
        /\ at + n - 1 <= list.num
        /\ list' = Removed(list, at, n)
        /\ modelled' = SubSeq(modelled, 1, at - 1) \o SubSeq(modelled, at + n, Len(modelled))
        /\ UNCHANGED list2

RemoveItem ==
    \E at \in {LIST_START, LIST_END} :
        /\ list.num > 0
        /\ list' = Removed(list, at, 1)
        /\ modelled' = IF at = LIST_START THEN Tail(modelled) ELSE Front(modelled)
        /\ UNCHANGED list2

ListCompact == list' = Resized(list, list.num) /\ UNCHANGED <<list2, modelled>>

Missing(n) == n - (list.size - list.num)

ListPreAllocate ==
    \E n \in 1 .. 2 :
        /\ list.num + n <= MaxItems /\ Missing(n) > 0
        /\ list' = Expanded(list, Missing(n))
        /\ UNCHANGED <<list2, modelled>>

(* ListDispose, and a list in its place.                                   *)
Recreate == list' = ListCreate /\ modelled' = <<>> /\ UNCHANGED list2

ListClear == list' = [list EXCEPT !.num = 0] /\ modelled' = <<>> /\ UNCHANGED list2

CopyOfList(l) == [ListCreate EXCEPT !.num = l.num, !.size = l.num, !.cells = Contents(l)]

ListCopy == list2' = CopyOfList(list) /\ UNCHANGED <<list, modelled>>

(* list = list + list2; list2 may be list itself.                          *)
ListAppend ==
    \E added \in {list, list2} :
        LET l == Resized(list, list.num + added.num) IN
        /\ added.num > 0 /\ list.num + added.num <= MaxItems
        /\ list' = [l EXCEPT !.num = list.num + added.num, !.cells = Stored(@, list.num + 1, Contents(added))]
        /\ modelled' = modelled \o Contents(added)
        /\ UNCHANGED list2

(* ListEqual: the sizes of the items are not compared, only one with       *)
(* itself.                                                                 *)
ListEqual(l, other) == l.num = other.num /\ Contents(l) = Contents(other)

(* ListApplyToEach: the indexes funcToApply is called with; a negative     *)
(* result, here for the items in refused, ends the walk.                   *)
Visited(l, ascending, refused) ==
    LET index(k) == IF ascending THEN k ELSE l.num + 1 - k
        ends == {k \in 1 .. l.num : ListGetPtrToItem(l, index(k)) \in refused}
        last == IF ends = {} THEN l.num ELSE CHOOSE k \in ends : \A j \in ends : k <= j
    IN  [k \in 1 .. last |-> index(k)]

(* device_deregister: the devices, and the index of each standard file's.  *)
(* A device that is assigned stays.                                        *)
Deregistered(l, files, name) ==
    LET at == CHOOSE i \in 1 .. l.num : l.cells[i] = name /\ \A j \in 1 .. i - 1 : l.cells[j] # name
        rest == Removed(l, at, 1)
        named(f) == {i \in 1 .. rest.num : rest.cells[i] = l.cells[files[f]]}
    IN  IF ~Contains(Contents(l), name) \/ at \in {files[f] : f \in DOMAIN files}
        THEN [devices |-> l, files |-> files]
        ELSE [devices |-> rest,
              files |-> [f \in DOMAIN files |-> CHOOSE i \in named(f) : \A j \in named(f) : j <= i]]

(* ListFindItem: the first match from a position on, 0 for none.           *)
ListFindItem(l, x, from) ==
    IF \E i \in from .. l.num : l.cells[i] = x
    THEN CHOOSE i \in from .. l.num : l.cells[i] = x /\ \A j \in from .. i - 1 : l.cells[j] # x
    ELSE 0

(* After a removal the next item is at the same position.                  *)
NextStart(found) == found

(* ListRemoveDuplicates: for each item, all later ones equal to it.        *)
RECURSIVE Deduplicated(_, _, _)
Deduplicated(l, i, start) ==
    IF i >= l.num THEN l
    ELSE LET found == IF start <= l.num THEN ListFindItem(l, l.cells[i], start) ELSE 0 IN
         IF found > 0 THEN Deduplicated(Removed(l, found, 1), i, NextStart(found))
         ELSE Deduplicated(l, i + 1, i + 2)

ListRemoveDuplicates ==
    /\ list' = Deduplicated(list, 1, 2)
    /\ modelled' = FoldLeft(LAMBDA seen, x : IF Contains(seen, x) THEN seen ELSE Append(seen, x), <<>>, modelled)
    /\ UNCHANGED list2

HighEnd(l) == l.num - 1

(* IntCompare; ShortCompare is the same for shorter items.                 *)
Compared(a, b) == IF a < b THEN -1 ELSE IF a > b THEN 1 ELSE 0

(* BinSearch: the index, from 0, or -i-1 for the place i to put the item.  *)
RECURSIVE Search(_, _, _, _, _, _)
Search(l, x, low, high, mid, cmp) ==
    IF low > high THEN -(IF cmp > 0 THEN mid + 1 ELSE mid) - 1
    ELSE LET m == (low + high) \div 2
             c == Compared(x, l.cells[m + 1])
         IN  IF c = 0 THEN m
             ELSE IF c < 0 THEN Search(l, x, low, m - 1, m, c)
             ELSE Search(l, x, m + 1, high, m, c)
BinSearch(l, x) == Search(l, x, 0, HighEnd(l), 0, -1)

(* Positions are counted from 1, and 0 is "not found".                     *)
ListBinSearch(l, x) == IF BinSearch(l, x) >= 0 THEN BinSearch(l, x) + 1 ELSE 0

ListsInit == list = ListCreate /\ list2 = ListCreate /\ modelled = <<>> /\ overrun = FALSE

(* Nothing is known once a block of the heap was written behind its end.   *)
ListsNext ==
    /\ ~overrun
    /\ \/ InsertItems
       \/ /\ \/ InsertItem \/ RemoveItem \/ RemoveItems \/ ListCompact \/ ListPreAllocate
             \/ ReplaceItem \/ Recreate \/ ListClear \/ ListCopy \/ ListAppend \/ ListRemoveDuplicates
          /\ UNCHANGED overrun

ListsSpec == ListsInit /\ [][ListsNext]_listsVars

-----------------------------------------------------------------------------
(* Nothing is written behind the block by a single item, whatever was      *)
(* reserved, compacted and removed before; nor by two at once unless there *)
(* was room for just one (lists.c:364).                                    *)
ListFits == \A l \in {list, list2} : l.num \in 0 .. l.size /\ l.size = Len(l.cells)

(* The binary search of a sorted list finds an item that is in it, and     *)
(* tells for another where it belongs.                                     *)
SearchIsRight ==
    (\A i \in 1 .. list.num - 1 : list.cells[i] <= list.cells[i + 1]) =>
        \A x \in Items :
            LET r == BinSearch(list, x)  place == -r - 1 IN
            IF r >= 0 THEN r < list.num /\ ListGetPtrToItem(list, ListBinSearch(list, x)) = x
            ELSE /\ ListBinSearch(list, x) = 0
                 /\ place \in 0 .. list.num
                 /\ \A i \in 1 .. list.num : IF i <= place THEN list.cells[i] < x ELSE list.cells[i] > x

(* A walk visits each item once, in its order, until one is refused; the   *)
(* lists are equal when the sequences are.                                 *)
ReadersAgree ==
    /\ \A up \in BOOLEAN, refused \in SUBSET Items :
           LET seen == Visited(list, up, refused)
               order == IF up THEN modelled ELSE Reverse(modelled)
           IN  /\ \A k \in DOMAIN seen : list.cells[seen[k]] = order[k]
               /\ \A k \in 1 .. Len(seen) - 1 : order[k] \notin refused
               /\ Len(seen) < Len(order) => order[Len(seen)] \in refused
    /\ ListEqual(list, list2) <=> modelled = Contents(list2)
    /\ list.num > 0 => /\ ListGetPtrToItem(list, LIST_END) = Last(modelled)
                       /\ ListGetItems(list, LIST_START, list.num) = modelled

(* A device that goes takes no other with it: every standard file has the  *)
(* device of the same name afterwards.                                     *)
FilesKeepTheirDevices ==
    list.num > 0 /\ Cardinality(ToSet(modelled)) = list.num =>
        \A files \in [1 .. 2 -> 1 .. list.num], name \in Items :
            LET after == Deregistered(list, files, name) IN
            /\ \A f \in DOMAIN files : after.devices.cells[after.files[f]] = modelled[files[f]]
            /\ \A x \in ToSet(modelled) \ {name} : Contains(Contents(after.devices), x)

(* A list holds what the same calls make of a sequence.                    *)
ListIsSequence ==
    ~overrun => ListFits /\ Contents(list) = modelled /\ SearchIsRight /\ ReadersAgree /\ FilesKeepTheirDevices
=============================================================================
