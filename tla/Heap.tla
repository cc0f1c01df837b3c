-------------------------------- MODULE Heap --------------------------------
(***************************************************************************)
(* The small memory heap of src/mem.c: items that tile the memory, each a   *)
(* header followed by data, chained to both neighbours by their offsets.    *)
(*                                                                         *)
(* Offsets and sizes count words of RT_ALIGN_SIZE bytes.  rt_malloc,        *)
(* rt_realloc and rt_free of src/kservice.c hold the heap lock throughout,  *)
(* so that each call is one step.                                          *)
(***************************************************************************)
EXTENDS Integers, FiniteSets

CONSTANTS
    Header,    \* SIZEOF_STRUCT_MEM: 3 words
    MinSize,   \* MIN_SIZE: 3 words
    Total,     \* mem_size_aligned
    Sizes      \* the sizes asked for

ASSUME HeapSizesAssumption ==
    Header \in Nat \ {0} /\ MinSize \in Nat \ {0} /\ Sizes \subseteq Nat \ {0}

(* The loop bound of rt_smem_alloc is an unsigned difference. *)
ASSUME HeapTotalAssumption == Total \in Nat /\ Total >= MinSize

End  == Total + Header   \* offset of heap_end
None == -1

VARIABLES
    item,    \* offset |-> struct rt_small_mem_item, for the items with a pool_ptr
    lfree,   \* offset of the lowest free item
    used,    \* words in used items, headers included
    asked    \* history: offset of a used item |-> size asked for, without heap_end

heapVars == <<item, lfree, used, asked>>

MemItem(busy, next, prev) == [used |-> busy, next |-> next, prev |-> prev]

HeapInit ==
    /\ item = [p \in {0, End} |-> MemItem(p = End, End, IF p = End THEN End ELSE 0)]
    /\ lfree = 0 /\ used = 0 /\ asked = [p \in {} |-> 0]

With(f, p, v)  == [q \in DOMAIN f \cup {p} |-> IF q = p THEN v ELSE f[q]]
Without(f, p)  == [q \in DOMAIN f \ {p} |-> f[q]]
Length(it, p)  == it[p].next - p - Header   \* the words of data of an item

-----------------------------------------------------------------------------
(* The item n is given up to its neighbour p. *)
Merged(it, p, n) ==
    [Without(it, n) EXCEPT ![p].next = it[n].next, ![it[n].next].prev = p]

(* Merges a free item with a free next one, then with a free previous one. *)
plug_holes(it, low, p) ==
    LET n        == it[p].next
        forward  == p # n /\ ~it[n].used /\ n # End
        it1      == IF forward THEN Merged(it, p, n) ELSE it
        low1     == IF forward /\ low = n THEN p ELSE low
        q        == it1[p].prev
        backward == q # p /\ ~it1[q].used
    IN  [item  |-> IF backward THEN Merged(it1, q, p) ELSE it1,
         lfree |-> IF backward /\ low1 = p THEN q ELSE low1]

(* A plausible slip: the header counts as data. *)
FitsWithHeader(it, p, n) == ~it[p].used /\ it[p].next - p >= n

Fits(it, p, n) == ~it[p].used /\ Length(it, p) >= n

(* The first item that fits, from lfree on. *)
FirstFit(it, low, n) ==
    LET search[p \in DOMAIN it] ==
            IF p > Total - n THEN None
            ELSE IF Fits(it, p, n) THEN p
            ELSE search[it[p].next]
    IN  search[low]

(* An item that begins inside p, which has n words of data from then on.    *)
(* The prev of heap_end is not kept.                                       *)
Split(it, p, n) ==
    LET rest == p + Header + n
        it1  == With([it EXCEPT ![p].next = rest], rest, MemItem(FALSE, it[p].next, p))
    IN  IF it[p].next # End THEN [it1 EXCEPT ![it[p].next].prev = rest] ELSE it1

NextFree(it, low) ==
    LET search[p \in DOMAIN it] ==
            IF it[p].used /\ p # End THEN search[it[p].next] ELSE p
    IN  search[low]

AtLeastMin(n) == IF n < MinSize THEN MinSize ELSE n

(* p is taken for n words, what is left over split off when it is worth it. *)
Take(it, low, p, n) ==
    LET it1 == IF Length(it, p) >= n + Header + MinSize THEN Split(it, p, n) ELSE it
        it2 == [it1 EXCEPT ![p].used = TRUE]
    IN  [item  |-> it2,
         lfree |-> IF p = low THEN NextFree(it2, low) ELSE low,
         taken |-> it2[p].next - p]

-----------------------------------------------------------------------------
(* 0 and more than the heap holds are refused; so is what does not fit. *)
rt_smem_alloc(n) ==
    LET p == FirstFit(item, lfree, AtLeastMin(n))
        t == Take(item, lfree, p, AtLeastMin(n))
    IN  /\ n <= Total /\ p # None
        /\ item' = t.item /\ lfree' = t.lfree
        /\ used' = used + t.taken
        /\ asked' = With(asked, p, n)

(* A plausible slip: the freed item is not compared with the lowest one. *)
FreedKeepsLowest(it, low, p) == plug_holes([it EXCEPT ![p].used = FALSE], low, p)

Freed(it, low, p) ==
    plug_holes([it EXCEPT ![p].used = FALSE], IF p < low THEN p ELSE low, p)

(* A plausible slip: the merge comes first, the account after it. *)
FreeCountsMerged(p) ==
    LET h == Freed(item, lfree, p)
        q == IF p \in DOMAIN h.item THEN p ELSE item[p].prev
    IN  /\ p \in DOMAIN asked
        /\ item' = h.item /\ lfree' = h.lfree
        /\ used' = used - (h.item[q].next - q)
        /\ asked' = Without(asked, p)

rt_smem_free(p) ==
    LET h == Freed(item, lfree, p)
    IN  /\ p \in DOMAIN asked
        /\ item' = h.item /\ lfree' = h.lfree
        /\ used' = used - (item[p].next - p)
        /\ asked' = Without(asked, p)

(* A block that shrinks by more than a minimal item gives the rest back. *)
ReallocShrinks(p, n) ==
    LET size == Length(item, p)
        rest == p + Header + n
        h    == plug_holes(Split(item, p, n), IF rest < lfree THEN rest ELSE lfree, rest)
    IN  /\ n + Header + MinSize < size
        /\ item' = h.item /\ lfree' = h.lfree
        /\ used' = used - (size - n)
        /\ asked' = [asked EXCEPT ![p] = n]

(* Otherwise it moves, even when it shrinks: taken first, freed then. *)
ReallocMoves(p, n) ==
    LET b == FirstFit(item, lfree, AtLeastMin(n))
        t == Take(item, lfree, b, AtLeastMin(n))
        h == Freed(t.item, t.lfree, p)
    IN  /\ n # Length(item, p) /\ n + Header + MinSize >= Length(item, p)
        /\ b # None
        /\ item' = h.item /\ lfree' = h.lfree
        /\ used' = used + t.taken - (t.item[p].next - p)
        /\ asked' = With(Without(asked, p), b, n)

(* The size is the same as that of the item: nothing happens. *)
ReallocStays(p, n) ==
    /\ n = Length(item, p)
    /\ asked' = [asked EXCEPT ![p] = n]
    /\ UNCHANGED <<item, lfree, used>>

(* Size 0 frees; no block allocates; else: *)
rt_smem_realloc(p, n) ==
    /\ p \in DOMAIN asked /\ n <= Total
    /\ ReallocStays(p, n) \/ ReallocShrinks(p, n) \/ ReallocMoves(p, n)

HeapNext ==
    \/ \E n \in Sizes : rt_smem_alloc(n) \/ \E p \in DOMAIN asked : rt_smem_realloc(p, n)
    \/ \E p \in DOMAIN asked : rt_smem_free(p)

-----------------------------------------------------------------------------
(* Properties *)

Items(it)     == DOMAIN it \ {End}
FreeItems(it) == {p \in Items(it) : ~it[p].used}
UsedItems(it) == {p \in Items(it) : it[p].used}

(* Each item ends where the next one begins, and knows its neighbours. *)
Tiled(it) ==
    /\ {0, End} \subseteq DOMAIN it /\ it[0].prev = 0
    /\ \A p \in Items(it) :
        /\ it[p].next \in DOMAIN it /\ it[p].next > p + Header
        /\ \A q \in Items(it) : q <= p \/ q >= it[p].next
        /\ p # 0 => it[p].prev \in Items(it) /\ it[it[p].prev].next = p

Coalesced(it) == \A p \in FreeItems(it) : it[p].next \notin FreeItems(it)

IsLowest(it, low) == low \in FreeItems(it) \cup {End} /\ \A p \in FreeItems(it) : low <= p

(* The words of the used items, headers included. *)
Occupied(it) == UNION {p .. it[p].next - 1 : p \in UsedItems(it)}

(* The heap is in order: items tile the memory and are linked both ways, no *)
(* two free ones touch, lfree is the lowest free one, the account of used   *)
(* words is exact, and used items are the blocks handed out.               *)
WellFormed ==
    /\ Tiled(item) /\ Coalesced(item) /\ IsLowest(item, lfree)
    /\ UsedItems(item) = DOMAIN asked
    /\ used = Cardinality(Occupied(item))

(* Memory that is free is found: whatever was allocated, resized and freed  *)
(* before, an allocation is refused only if no stretch between the used     *)
(* items holds it with its header.                                         *)
FitIsFound ==
    \A n \in {AtLeastMin(k) : k \in Sizes} :
        (\E p \in 0 .. Total - n : (p .. p + Header + n - 1) \cap Occupied(item) = {})
            => FirstFit(item, lfree, n) # None

A == INSTANCE Arena WITH
    Words  <- 0 .. End - 1,
    Sizes  <- {Header + n : n \in Sizes},
    blocks <- [p \in DOMAIN asked |-> Header + asked[p]]

(* Every block handed out, with the header in front of it, is in the        *)
(* memory, overlaps no other, is as long as was asked for and stays until   *)
(* it is freed.                                                            *)
ImplementsArena == A!Spec
=============================================================================
