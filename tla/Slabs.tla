------------------------------- MODULE Slabs -------------------------------
(***************************************************************************)
(* slabs.c: the memory of the items.  Each slab class cuts pages into      *)
(* chunks of one size.  A chunk is handed out from the class's free list,  *)
(* else from the rest of its newest page, else from a new page, which the  *)
(* memory limit may refuse.                                                *)
(*                                                                         *)
(* A page is the number of the allocation that produced it, a chunk a pair *)
(* of page and index.  Every operation runs under slabs_lock, so it is one *)
(* step.  malloc and realloc may fail at any call.  The three ghost        *)
(* variables at the end say where the chunks are that the module no longer *)
(* holds.                                                                  *)
(***************************************************************************)
EXTENDS Integers, Sequences

CONSTANTS
    power_largest,
    perslab,     \* class -> chunks in a page
    page_len,    \* class -> bytes of a page, size * perslab
    mem_limit,   \* the -m option, 0 for no limit
    InitialMalloc,  \* T_MEMD_INITIAL_MALLOC, 0 if not set
    FirstArray,  \* first size of the growing arrays, 16 in the code
    MaxPages,    \* malloc has no memory for more pages
    Null         \* a null pointer

POWER_SMALLEST == 1

Classes == POWER_SMALLEST .. power_largest

Chunks == Nat \X Nat

ASSUME SlabsAssumption ==
    /\ power_largest \in Nat
    /\ perslab \in [Classes -> Nat \ {0}]
    /\ page_len \in [Classes -> Nat \ {0}]
    /\ mem_limit \in Nat /\ InitialMalloc \in Nat
    /\ FirstArray \in Nat \ {0}
    /\ MaxPages \in Nat
    /\ Null \notin Chunks

VARIABLES
    slots,          \* class -> its free list; the length is sl_curr
    sl_total,       \* class -> the room of the slots array
    end_page_ptr,   \* class -> next chunk of the newest page, or Null
    end_page_free,  \* class -> chunks left in the newest page
    slab_list,      \* class -> its pages; the length is slabs
    list_size,      \* class -> the room of the slab_list array
    mem_malloced,
    mem_base,       \* is the memory one preallocated block?
    mem_avail,      \* what is left of it
    npages,         \* pages allocated so far, by all classes
    held,           \* ghost: class -> chunks the callers hold
    lost            \* ghost: class -> chunks freed without room to list them

mem   == <<mem_malloced, mem_base, mem_avail, npages>>
pages == <<slab_list, list_size, mem>>
vars  == <<slots, sl_total, end_page_ptr, end_page_free, pages, held, lost>>

----------------------------------------------------------------------------
Chunk(p, i) == <<p, i>>
NextChunk(x) == Chunk(x[1], x[2] + 1)       \* end_page_ptr += size
grown(n) == IF n # 0 THEN n * 2 ELSE FirstArray

\* slabs_init: with preallocation asked for, the one large malloc may fail.
Init ==
    /\ slots = [id \in Classes |-> <<>>]
    /\ sl_total = [id \in Classes |-> 0]
    /\ end_page_ptr = [id \in Classes |-> Null]
    /\ end_page_free = [id \in Classes |-> 0]
    /\ slab_list = [id \in Classes |-> <<>>]
    /\ list_size = [id \in Classes |-> 0]
    /\ mem_malloced = InitialMalloc
    /\ mem_base \in BOOLEAN
    /\ mem_avail = IF mem_base THEN mem_limit ELSE 0
    /\ npages = 0
    /\ held = [id \in Classes |-> {}]
    /\ lost = [id \in Classes |-> {}]

----------------------------------------------------------------------------
\* memory_allocate of a page of this length: it returns the page npages + 1.
memory_allocate(len) ==
    /\ npages < MaxPages
    /\ npages' = npages + 1
    /\ IF mem_base THEN len <= mem_avail /\ mem_avail' = mem_avail - len
                   ELSE UNCHANGED mem_avail

memory_refused(len) == ~mem_base \/ len > mem_avail \/ npages >= MaxPages

\* mutant: the limit compares what is malloced before the page, not after it.
over_limit_late(id) ==
    mem_limit # 0 /\ mem_malloced > mem_limit /\ slab_list[id] # <<>>

\* The first page of a class may pass the limit.
over_limit(id) ==
    /\ mem_limit # 0
    /\ mem_malloced + page_len[id] > mem_limit
    /\ slab_list[id] # <<>>

list_full(id) == Len(slab_list[id]) = list_size[id]

\* mutant: a page is listed without making room in slab_list first.
grow_slab_list_not(id) == UNCHANGED list_size

grow_slab_list(id) ==
    list_size' = IF list_full(id)
                 THEN [list_size EXCEPT ![id] = grown(@)]
                 ELSE list_size

\* do_slabs_newslab returning 1, but for end_page_ptr and end_page_free.
do_slabs_newslab(id) ==
    /\ ~over_limit(id)
    /\ grow_slab_list(id)
    /\ memory_allocate(page_len[id])
    /\ slab_list' = [slab_list EXCEPT ![id] = Append(@, npages + 1)]
    /\ mem_malloced' = mem_malloced + page_len[id]
    /\ UNCHANGED mem_base

\* do_slabs_newslab returning 0: the limit, the realloc of the list, or the
\* malloc of the page stops it, the last with the list already grown.
newslab_refused(id) ==
    /\ \/ /\ over_limit(id) \/ list_full(id)
          /\ UNCHANGED list_size
       \/ /\ ~over_limit(id) /\ memory_refused(page_len[id])
          /\ grow_slab_list(id)
    /\ UNCHANGED <<slab_list, mem>>

\* mutant: end_page_ptr is moved on only when it is the last chunk.
carve_stuck(id, x, free) ==
    /\ held' = [held EXCEPT ![id] = @ \cup {x}]
    /\ end_page_free' = [end_page_free EXCEPT ![id] = free - 1]
    /\ end_page_ptr' = [end_page_ptr EXCEPT
                          ![id] = IF free # 1 THEN x ELSE Null]

\* Handing out the chunk x of the newest page, which has `free` chunks left.
carve(id, x, free) ==
    /\ held' = [held EXCEPT ![id] = @ \cup {x}]
    /\ end_page_free' = [end_page_free EXCEPT ![id] = free - 1]
    /\ end_page_ptr' = [end_page_ptr EXCEPT
                          ![id] = IF free # 1 THEN NextChunk(x) ELSE Null]

\* mutant: a new page is started while the class still has one.
do_slabs_alloc_eager(id) ==
    /\ slots[id] = <<>>
    /\ do_slabs_newslab(id)
    /\ carve(id, Chunk(npages + 1, 0), perslab[id])
    /\ UNCHANGED <<slots, sl_total, lost>>

\* do_slabs_alloc: from the free list, from the newest page, from a new page,
\* or a null pointer.
do_slabs_alloc(id) ==
    \/ /\ slots[id] # <<>>
       /\ LET n == Len(slots[id])
          IN /\ held' = [held EXCEPT ![id] = @ \cup {slots[id][n]}]
             /\ slots' = [slots EXCEPT ![id] = SubSeq(@, 1, n - 1)]
       /\ UNCHANGED <<sl_total, end_page_ptr, end_page_free, pages, lost>>
    \/ /\ slots[id] = <<>> /\ end_page_ptr[id] # Null
       /\ carve(id, end_page_ptr[id], end_page_free[id])
       /\ UNCHANGED <<slots, sl_total, pages, lost>>
    \/ /\ slots[id] = <<>> /\ end_page_ptr[id] = Null
       /\ do_slabs_newslab(id)
       /\ carve(id, Chunk(npages + 1, 0), perslab[id])
       /\ UNCHANGED <<slots, sl_total, lost>>
    \/ /\ slots[id] = <<>> /\ end_page_ptr[id] = Null
       /\ newslab_refused(id)
       /\ UNCHANGED <<slots, sl_total, end_page_ptr, end_page_free, held, lost>>

\* Room for one more entry in the slots array, growing it if it is full.
slots_room(id) ==
    sl_total' = IF Len(slots[id]) = sl_total[id]
                THEN [sl_total EXCEPT ![id] = grown(@)]
                ELSE sl_total

\* do_slabs_free of a chunk the caller got from this class.  If the free list
\* is full and cannot grow, the chunk is dropped.
do_slabs_free(x, id) ==
    /\ x \in held[id]
    /\ held' = [held EXCEPT ![id] = @ \ {x}]
    /\ \/ /\ slots_room(id)
          /\ slots' = [slots EXCEPT ![id] = Append(@, x)]
          /\ UNCHANGED lost
       \/ /\ Len(slots[id]) = sl_total[id]
          /\ lost' = [lost EXCEPT ![id] = @ \cup {x}]
          /\ UNCHANGED <<slots, sl_total>>
    /\ UNCHANGED <<end_page_ptr, end_page_free, pages>>

Next == \E id \in Classes :
            \/ do_slabs_alloc(id)
            \/ \E x \in held[id] : do_slabs_free(x, id)

Spec == Init /\ [][Next]_vars

----------------------------------------------------------------------------
Listed(s) == {s[i] : i \in DOMAIN s}

\* The chunks of the newest page that were never handed out.
Uncut(id) ==
    IF end_page_ptr[id] = Null THEN {}
    ELSE {Chunk(end_page_ptr[id][1], i) :
             i \in end_page_ptr[id][2] .. perslab[id] - 1}

ChunksOf(id) == Listed(slab_list[id]) \X (0 .. perslab[id] - 1)

TypeOK ==
    /\ slots \in [Classes -> Seq(Chunks)]
    /\ sl_total \in [Classes -> Nat]
    /\ end_page_ptr \in [Classes -> Chunks \cup {Null}]
    /\ end_page_free \in [Classes -> Nat]
    /\ slab_list \in [Classes -> Seq(Nat)]
    /\ list_size \in [Classes -> Nat]
    /\ mem_malloced \in Nat /\ mem_avail \in Nat /\ npages \in Nat
    /\ mem_base \in BOOLEAN
    /\ held \in [Classes -> SUBSET Chunks]
    /\ lost \in [Classes -> SUBSET Chunks]

\* A chunk is in one place: with one caller, once on one free list, or not cut
\* yet.  Two items never share memory (do_slabs_alloc, do_slabs_free).
NoSharing ==
    \A id \in Classes :
        /\ \A i, j \in DOMAIN slots[id] : i # j => slots[id][i] # slots[id][j]
        /\ held[id] \cap (Listed(slots[id]) \cup Uncut(id) \cup lost[id]) = {}
        /\ Listed(slots[id]) \cap (Uncut(id) \cup lost[id]) = {}
        /\ Uncut(id) \cap lost[id] = {}
        /\ \A jd \in Classes \ {id} : ChunksOf(id) \cap ChunksOf(jd) = {}

\* No chunk of a page is forgotten while the free list can grow: all of them
\* are free, held, uncut, or were dropped by a do_slabs_free that found no room.
Conserved ==
    \A id \in Classes :
        held[id] \cup Listed(slots[id]) \cup Uncut(id) \cup lost[id] = ChunksOf(id)

\* end_page_free counts the uncut chunks; "used_chunks" of the slab statistics
\* is computed from it, and a wrong count cuts past the end of the page.
EndPageCounted ==
    \A id \in Classes :
        end_page_free[id] = IF end_page_ptr[id] = Null
                            THEN 0 ELSE perslab[id] - end_page_ptr[id][2]

\* The two arrays that grow by doubling are never written past their room.
InRoom ==
    \A id \in Classes : /\ Len(slots[id]) <= sl_total[id]
                        /\ Len(slab_list[id]) <= list_size[id]

\* The sum of f over the classes.
SumOf(f) ==
    LET sum[id \in 0 .. power_largest] == IF id = 0 THEN 0 ELSE sum[id - 1] + f[id]
    IN sum[power_largest]

Malloced == SumOf([id \in Classes |-> Len(slab_list[id]) * page_len[id]])

\* The pages that may be beyond the limit: a class whose first page is gets no
\* second one.
OnlyPages == SumOf([id \in Classes |-> IF Len(slab_list[id]) = 1 THEN page_len[id] ELSE 0])

\* Beyond its limit the cache takes at most the first page of a class
\* (slabs.c:203), never a later one, and from a preallocated block nothing
\* beyond it.
MemBounded ==
    /\ mem_limit # 0 /\ InitialMalloc <= mem_limit
          => mem_malloced <= mem_limit + OnlyPages
    /\ mem_base => Malloced + mem_avail = mem_limit
============================================================================
