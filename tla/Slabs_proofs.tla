--------------------------- MODULE Slabs_proofs ---------------------------
(***************************************************************************)
(* Proofs about the allocator of slabs.c for any classes, page sizes, limit*)
(* and failures of malloc: no two callers are given the same memory, no    *)
(* chunk is forgotten, no array is written past its room, and memory keeps *)
(* to its limit but for first pages.  At the end, the proofs about the     *)
(* dispatch of connections.                                                *)
(***************************************************************************)
EXTENDS Slabs, Dispatch, SequenceTheorems, WellFoundedInduction, TLAPS

Distinct(s) == \A i, j \in DOMAIN s : i # j => s[i] # s[j]

\* What one class keeps to: its chunks partition its pages, and its end page is
\* one of its pages.
ClassInv(id) ==
    /\ Distinct(slots[id])
    /\ held[id] \cap (Listed(slots[id]) \cup Uncut(id) \cup lost[id]) = {}
    /\ Listed(slots[id]) \cap (Uncut(id) \cup lost[id]) = {}
    /\ Uncut(id) \cap lost[id] = {}
    /\ held[id] \cup Listed(slots[id]) \cup Uncut(id) \cup lost[id] = ChunksOf(id)
    /\ end_page_free[id] = IF end_page_ptr[id] = Null
                           THEN 0 ELSE perslab[id] - end_page_ptr[id][2]
    /\ end_page_ptr[id] # Null =>
          /\ end_page_ptr[id][1] \in Listed(slab_list[id])
          /\ end_page_ptr[id][2] \in 0 .. perslab[id] - 1
    /\ Len(slots[id]) <= sl_total[id]
    /\ Len(slab_list[id]) <= list_size[id]

\* A page belongs to one class, and new pages get new numbers.
PagesInv ==
    \A id \in Classes :
        /\ Listed(slab_list[id]) \subseteq 1 .. npages
        /\ \A jd \in Classes \ {id} :
              Listed(slab_list[id]) \cap Listed(slab_list[jd]) = {}

IInv == TypeOK /\ PagesInv /\ \A id \in Classes : ClassInv(id)

LEMMA ListedAppend ==
    ASSUME NEW S, NEW s \in Seq(S), NEW x \in S
    PROVE  /\ Append(s, x) \in Seq(S)
           /\ Listed(Append(s, x)) = Listed(s) \cup {x}
           /\ Len(Append(s, x)) = Len(s) + 1
           /\ Distinct(s) /\ x \notin Listed(s) => Distinct(Append(s, x))
<1>1. /\ DOMAIN s = 1 .. Len(s) /\ Len(s) \in Nat
      /\ DOMAIN Append(s, x) = 1 .. Len(s) + 1
      /\ Append(s, x) \in Seq(S) /\ Len(Append(s, x)) = Len(s) + 1
  OBVIOUS
<1>2. /\ Append(s, x)[Len(s) + 1] = x
      /\ \A i \in 1 .. Len(s) : Append(s, x)[i] = s[i]
  OBVIOUS
<1>3. Listed(Append(s, x)) = Listed(s) \cup {x}
  BY <1>1, <1>2 DEF Listed
<1>4. ASSUME Distinct(s), x \notin Listed(s) PROVE Distinct(Append(s, x))
  BY <1>1, <1>2, <1>4 DEF Listed, Distinct
<1> QED BY <1>1, <1>3, <1>4

\* Taking the last entry off the free list.
LEMMA ListedPop ==
    ASSUME NEW S, NEW s \in Seq(S), s # <<>>, Distinct(s)
    PROVE  LET n == Len(s)  t == SubSeq(s, 1, n - 1)
           IN /\ t \in Seq(S) /\ Distinct(t) /\ Len(t) <= n
              /\ s[n] \in Listed(s) /\ Listed(t) = Listed(s) \ {s[n]}
<1> DEFINE n == Len(s)
           t == SubSeq(s, 1, n - 1)
<1>1. n \in Nat /\ n >= 1 /\ DOMAIN s = 1 .. n
  BY EmptySeq
<1>2. t \in Seq(S) /\ Len(t) = n - 1 /\ DOMAIN t = 1 .. n - 1
      /\ \A i \in 1 .. n - 1 : t[i] = s[i]
  BY <1>1, SubSeqProperties
<1>3. s[n] \in Listed(s)
  BY <1>1 DEF Listed
<1>4. Distinct(t)
  BY <1>1, <1>2 DEF Distinct
<1>5. Listed(t) = Listed(s) \ {s[n]}
  <2>1. ASSUME NEW y \in Listed(t) PROVE y \in Listed(s) \ {s[n]}
    <3>1. PICK i \in 1 .. n - 1 : y = t[i]
      BY <1>2, <2>1 DEF Listed
    <3>2. y = s[i]
      BY <1>2, <3>1
    <3>3. i \in 1 .. n /\ n \in 1 .. n /\ i # n
      <4> HIDE DEF n
      <4> QED BY <1>1
    <3> QED BY <1>1, <3>2, <3>3 DEF Distinct, Listed
  <2>2. ASSUME NEW y \in Listed(s) \ {s[n]} PROVE y \in Listed(t)
    <3>1. PICK i \in 1 .. n : y = s[i]
      BY <1>1, <2>2 DEF Listed
    <3>2. i \in 1 .. n - 1
      BY <1>1, <2>2, <3>1
    <3> QED BY <1>2, <3>1, <3>2 DEF Listed
  <2> QED BY <2>1, <2>2
<1> QED BY <1>1, <1>2, <1>3, <1>4, <1>5

----------------------------------------------------------------------------
\* A class none of whose variables change keeps its invariant.
LEMMA OtherClass ==
    ASSUME NEW jd \in Classes, ClassInv(jd),
           slots'[jd] = slots[jd], sl_total'[jd] = sl_total[jd],
           end_page_ptr'[jd] = end_page_ptr[jd],
           end_page_free'[jd] = end_page_free[jd],
           slab_list'[jd] = slab_list[jd], list_size'[jd] = list_size[jd],
           held'[jd] = held[jd], lost'[jd] = lost[jd]
    PROVE  ClassInv(jd)'
  BY DEF ClassInv, Uncut, ChunksOf

\* A chunk popped off the free list goes from the list to the caller.
LEMMA PopStep ==
    ASSUME IInv, NEW id \in Classes, slots[id] # <<>>,
           held' = [held EXCEPT ![id] = @ \cup {slots[id][Len(slots[id])]}],
           slots' = [slots EXCEPT ![id] = SubSeq(@, 1, Len(slots[id]) - 1)],
           UNCHANGED <<sl_total, end_page_ptr, end_page_free, pages, lost>>
    PROVE  IInv'
<1> DEFINE s == slots[id]
           x == s[Len(s)]
           t == SubSeq(s, 1, Len(s) - 1)
<1>1. TypeOK /\ PagesInv /\ \A jd \in Classes : ClassInv(jd)
  BY DEF IInv
<1>2. s \in Seq(Chunks) /\ Distinct(s)
  BY <1>1 DEF TypeOK, ClassInv
<1>3. /\ t \in Seq(Chunks) /\ Distinct(t) /\ Len(t) <= Len(s)
      /\ x \in Listed(s) /\ Listed(t) = Listed(s) \ {x}
  BY <1>2, ListedPop
<1>4. x \in Chunks
  BY <1>2, <1>3 DEF Listed
<1>5. slots'[id] = t /\ held'[id] = held[id] \cup {x}
  BY <1>1 DEF TypeOK
<1>6. UNCHANGED <<sl_total, end_page_ptr, end_page_free, slab_list, list_size,
                  mem_malloced, mem_base, mem_avail, npages, lost>>
  BY DEF pages, mem
<1>7. TypeOK'
  BY <1>1, <1>3, <1>4, <1>6 DEF TypeOK
<1>8. PagesInv'
  BY <1>1, <1>6 DEF PagesInv
<1>9. ClassInv(id)'
  <2>1. Uncut(id)' = Uncut(id) /\ ChunksOf(id)' = ChunksOf(id)
    BY <1>6 DEF Uncut, ChunksOf
  <2>2. Len(t) <= sl_total[id]
    <3>1. Len(s) \in Nat /\ Len(t) \in Nat /\ sl_total[id] \in Nat
      BY <1>1, <1>2, <1>3 DEF TypeOK
    <3> QED BY <1>1, <1>3, <3>1 DEF ClassInv
  <2> QED BY <1>1, <1>3, <1>5, <1>6, <2>1, <2>2 DEF ClassInv
<1>10. ASSUME NEW jd \in Classes, jd # id PROVE ClassInv(jd)'
  <2>1. slots'[jd] = slots[jd] /\ held'[jd] = held[jd]
    BY <1>1, <1>10 DEF TypeOK
  <2> QED BY <1>1, <1>6, <2>1, OtherClass
<1> QED BY <1>7, <1>8, <1>9, <1>10 DEF IInv

\* A chunk cut off the end page goes from the page to the caller.
LEMMA CarveStep ==
    ASSUME IInv, NEW id \in Classes, end_page_ptr[id] # Null,
           carve(id, end_page_ptr[id], end_page_free[id]),
           UNCHANGED <<slots, sl_total, pages, lost>>
    PROVE  IInv'
<1> DEFINE x == end_page_ptr[id]
           n == perslab[id]
<1>1. TypeOK /\ PagesInv /\ \A jd \in Classes : ClassInv(jd)
  BY DEF IInv
<1>2. x \in Chunks /\ x[1] \in Listed(slab_list[id]) /\ x[2] \in 0 .. n - 1
      /\ end_page_free[id] = n - x[2] /\ n \in Nat \ {0}
  BY <1>1, SlabsAssumption DEF TypeOK, ClassInv
<1>3. x[1] \in Nat /\ x[2] \in Nat /\ x = <<x[1], x[2]>>
  BY <1>2 DEF Chunks
<1>4. /\ held'[id] = held[id] \cup {x}
      /\ end_page_free'[id] = n - x[2] - 1
      /\ end_page_ptr'[id] = IF n - x[2] # 1 THEN <<x[1], x[2] + 1>> ELSE Null
  BY <1>1, <1>2 DEF TypeOK, carve, NextChunk, Chunk
<1>5. UNCHANGED <<slots, sl_total, slab_list, list_size, mem_malloced, mem_base,
                  mem_avail, npages, lost>>
  BY DEF pages, mem
<1>6. <<x[1], x[2] + 1>> \in Chunks /\ <<x[1], x[2] + 1>> # Null
  BY <1>3, SlabsAssumption DEF Chunks
<1>7. TypeOK'
  <2>1. end_page_free' \in [Classes -> Nat]
    <3>1. n - x[2] - 1 \in Nat
      BY <1>2, <1>3
    <3>2. end_page_free' = [end_page_free EXCEPT ![id] = n - x[2] - 1]
      BY <1>2 DEF carve
    <3> QED BY <1>1, <3>1, <3>2 DEF TypeOK
  <2>2. end_page_ptr' \in [Classes -> Chunks \cup {Null}]
    BY <1>1, <1>2, <1>4, <1>6 DEF TypeOK, carve
  <2>3. held' \in [Classes -> SUBSET Chunks]
    BY <1>1, <1>2 DEF TypeOK, carve
  <2> QED BY <1>1, <1>5, <2>1, <2>2, <2>3 DEF TypeOK
<1>8. PagesInv'
  BY <1>1, <1>5 DEF PagesInv
<1>9. x \in Uncut(id) /\ Uncut(id)' = Uncut(id) \ {x}
  <2>1. Uncut(id) = {<<x[1], i>> : i \in x[2] .. n - 1}
    BY DEF Uncut, Chunk
  <2>2. x \in Uncut(id)
    <3>1. x[2] \in x[2] .. n - 1
      BY <1>2, <1>3
    <3> QED BY <1>3, <2>1, <3>1
  <2>3. CASE n - x[2] # 1
    <3>1. Uncut(id)' = {<<x[1], i>> : i \in x[2] + 1 .. n - 1}
      BY <1>4, <1>6, <2>3 DEF Uncut, Chunk
    <3>2. \A i \in x[2] .. n - 1 : i \in x[2] + 1 .. n - 1 <=> i # x[2]
      BY <1>2, <1>3
    <3>3. ASSUME NEW y PROVE y \in Uncut(id)' <=> y \in Uncut(id) \ {x}
      <4>1. ASSUME y \in Uncut(id)' PROVE y \in Uncut(id) \ {x}
        <5>1. PICK i \in x[2] + 1 .. n - 1 : y = <<x[1], i>>
          BY <3>1, <4>1
        <5>2. i \in x[2] .. n - 1 /\ i # x[2]
          BY <1>2, <1>3
        <5> QED BY <1>3, <2>1, <5>1, <5>2
      <4>2. ASSUME y \in Uncut(id) \ {x} PROVE y \in Uncut(id)'
        <5>1. PICK i \in x[2] .. n - 1 : y = <<x[1], i>>
          BY <2>1, <4>2
        <5>2. i \in x[2] + 1 .. n - 1
          BY <1>2, <1>3, <3>2, <4>2, <5>1
        <5> QED BY <3>1, <5>1, <5>2
      <4> QED BY <4>1, <4>2
    <3> QED BY <2>2, <3>3
  <2>4. CASE n - x[2] = 1
    <3>1. Uncut(id)' = {}
      BY <1>4, <2>4 DEF Uncut
    <3>2. x[2] .. n - 1 = {x[2]}
      BY <1>2, <1>3, <2>4
    <3> QED BY <1>3, <2>1, <3>1, <3>2
  <2> QED BY <2>3, <2>4
<1>10. ClassInv(id)'
  <2>1. ChunksOf(id)' = ChunksOf(id)
    BY <1>5 DEF ChunksOf
  <2>2. end_page_free'[id] = IF end_page_ptr'[id] = Null
                             THEN 0 ELSE n - end_page_ptr'[id][2]
    BY <1>2, <1>3, <1>4, <1>6
  <2>3. end_page_ptr'[id] # Null => /\ end_page_ptr'[id][1] \in Listed(slab_list[id])
                                    /\ end_page_ptr'[id][2] \in 0 .. n - 1
    BY <1>2, <1>3, <1>4
  <2>4. x \notin held[id] /\ x \notin Listed(slots[id]) /\ x \notin lost[id]
    BY <1>1, <1>9 DEF ClassInv
  <2> QED BY <1>1, <1>4, <1>5, <1>9, <2>1, <2>2, <2>3, <2>4 DEF ClassInv
<1>11. ASSUME NEW jd \in Classes, jd # id PROVE ClassInv(jd)'
  <2>1. held'[jd] = held[jd] /\ end_page_ptr'[jd] = end_page_ptr[jd]
        /\ end_page_free'[jd] = end_page_free[jd]
    BY <1>1, <1>11 DEF TypeOK, carve
  <2> QED BY <1>1, <1>5, <2>1, OtherClass
<1> QED BY <1>7, <1>8, <1>10, <1>11 DEF IInv

\* A chunk that comes back goes from the caller to the free list.
LEMMA FreeStep ==
    ASSUME IInv, NEW id \in Classes, NEW x \in held[id],
           held' = [held EXCEPT ![id] = @ \ {x}],
           slots_room(id),
           slots' = [slots EXCEPT ![id] = Append(@, x)],
           UNCHANGED <<end_page_ptr, end_page_free, pages, lost>>
    PROVE  IInv'
<1> DEFINE s == slots[id]
           t == Append(s, x)
<1>1. TypeOK /\ PagesInv /\ \A jd \in Classes : ClassInv(jd)
  BY DEF IInv
<1>2. s \in Seq(Chunks) /\ Distinct(s) /\ x \in Chunks /\ x \notin Listed(s)
  BY <1>1 DEF TypeOK, ClassInv
<1>3. /\ t \in Seq(Chunks) /\ Distinct(t) /\ Len(t) = Len(s) + 1
      /\ Listed(t) = Listed(s) \cup {x}
  BY <1>2, ListedAppend
<1>4. slots'[id] = t /\ held'[id] = held[id] \ {x}
  BY <1>1 DEF TypeOK
<1>5. UNCHANGED <<end_page_ptr, end_page_free, slab_list, list_size,
                  mem_malloced, mem_base, mem_avail, npages, lost>>
  BY DEF pages, mem
<1>6. /\ sl_total' \in [Classes -> Nat]
      /\ Len(s) <= sl_total[id] => Len(s) + 1 <= sl_total'[id]
      /\ \A jd \in Classes \ {id} : sl_total'[jd] = sl_total[jd]
  <2>1. Len(s) \in Nat /\ sl_total \in [Classes -> Nat] /\ FirstArray \in Nat \ {0}
    BY <1>1, <1>2, SlabsAssumption DEF TypeOK
  <2>2. CASE Len(s) = sl_total[id]
    <3>1. sl_total' = [sl_total EXCEPT ![id] = grown(@)]
      BY <2>2 DEF slots_room
    <3>2. grown(sl_total[id]) \in Nat /\ sl_total[id] + 1 <= grown(sl_total[id])
      BY <2>1 DEF grown
    <3> QED BY <2>1, <2>2, <3>1, <3>2
  <2>3. CASE Len(s) # sl_total[id]
    BY <2>1, <2>3 DEF slots_room
  <2> QED BY <2>2, <2>3
<1>7. TypeOK'
  BY <1>1, <1>3, <1>5, <1>6 DEF TypeOK
<1>8. PagesInv'
  BY <1>1, <1>5 DEF PagesInv
<1>9. ClassInv(id)'
  <2>1. Uncut(id)' = Uncut(id) /\ ChunksOf(id)' = ChunksOf(id)
    BY <1>5 DEF Uncut, ChunksOf
  <2>2. Len(t) <= sl_total'[id]
    BY <1>1, <1>3, <1>6 DEF ClassInv
  <2> QED BY <1>1, <1>3, <1>4, <1>5, <2>1, <2>2 DEF ClassInv
<1>10. ASSUME NEW jd \in Classes, jd # id PROVE ClassInv(jd)'
  <2>1. slots'[jd] = slots[jd] /\ held'[jd] = held[jd]
    BY <1>1, <1>10 DEF TypeOK
  <2> QED BY <1>1, <1>5, <1>6, <1>10, <2>1, OtherClass
<1> QED BY <1>7, <1>8, <1>9, <1>10 DEF IInv

\* A chunk that comes back while the free list cannot grow is dropped.
LEMMA DropStep ==
    ASSUME IInv, NEW id \in Classes, NEW x \in held[id],
           held' = [held EXCEPT ![id] = @ \ {x}],
           lost' = [lost EXCEPT ![id] = @ \cup {x}],
           UNCHANGED <<slots, sl_total, end_page_ptr, end_page_free, pages>>
    PROVE  IInv'
<1>1. TypeOK /\ PagesInv /\ \A jd \in Classes : ClassInv(jd)
  BY DEF IInv
<1>2. UNCHANGED <<slots, sl_total, end_page_ptr, end_page_free, slab_list,
                  list_size, mem_malloced, mem_base, mem_avail, npages>>
  BY DEF pages, mem
<1>3. held'[id] = held[id] \ {x} /\ lost'[id] = lost[id] \cup {x} /\ x \in Chunks
  BY <1>1 DEF TypeOK
<1>4. TypeOK'
  BY <1>1, <1>2, <1>3 DEF TypeOK
<1>5. PagesInv'
  BY <1>1, <1>2 DEF PagesInv
<1>6. ClassInv(id)'
  <2>1. Uncut(id)' = Uncut(id) /\ ChunksOf(id)' = ChunksOf(id)
    BY <1>2 DEF Uncut, ChunksOf
  <2> QED BY <1>1, <1>2, <1>3, <2>1 DEF ClassInv
<1>7. ASSUME NEW jd \in Classes, jd # id PROVE ClassInv(jd)'
  <2>1. held'[jd] = held[jd] /\ lost'[jd] = lost[jd]
    BY <1>1, <1>7 DEF TypeOK
  <2> QED BY <1>1, <1>2, <2>1, OtherClass
<1> QED BY <1>4, <1>5, <1>6, <1>7 DEF IInv

\* The list of pages may have grown without a page coming of it.
LEMMA RefusedStep ==
    ASSUME IInv, NEW id \in Classes, newslab_refused(id),
           UNCHANGED <<slots, sl_total, end_page_ptr, end_page_free, held, lost>>
    PROVE  IInv'
<1>1. TypeOK /\ PagesInv /\ \A jd \in Classes : ClassInv(jd)
  BY DEF IInv
<1>2. UNCHANGED <<slab_list, mem_malloced, mem_base, mem_avail, npages>>
  BY DEF newslab_refused, mem
<1>3. /\ list_size' \in [Classes -> Nat]
      /\ Len(slab_list[id]) <= list_size'[id]
      /\ \A jd \in Classes \ {id} : list_size'[jd] = list_size[jd]
  <2>1. /\ Len(slab_list[id]) \in Nat /\ list_size \in [Classes -> Nat]
        /\ FirstArray \in Nat \ {0} /\ Len(slab_list[id]) <= list_size[id]
    BY <1>1, SlabsAssumption DEF TypeOK, ClassInv
  <2>2. CASE UNCHANGED list_size
    BY <2>1, <2>2
  <2>3. CASE list_size' = [list_size EXCEPT ![id] = grown(@)]
    <3>1. grown(list_size[id]) \in Nat /\ list_size[id] <= grown(list_size[id])
      BY <2>1 DEF grown
    <3> QED BY <2>1, <2>3, <3>1
  <2> QED BY <2>2, <2>3 DEF newslab_refused, grow_slab_list
<1>4. TypeOK'
  BY <1>1, <1>2, <1>3 DEF TypeOK
<1>5. PagesInv'
  BY <1>1, <1>2 DEF PagesInv
<1>6. ClassInv(id)'
  <2>1. Uncut(id)' = Uncut(id) /\ ChunksOf(id)' = ChunksOf(id)
    BY <1>2 DEF Uncut, ChunksOf
  <2> QED BY <1>1, <1>2, <1>3, <2>1 DEF ClassInv
<1>7. ASSUME NEW jd \in Classes, jd # id PROVE ClassInv(jd)'
  BY <1>1, <1>2, <1>3, <1>7, OtherClass
<1> QED BY <1>4, <1>5, <1>6, <1>7 DEF IInv

\* A new page belongs to the class that asked for it; its first chunk goes to
\* the caller, the others stay uncut.
LEMMA NewPageStep ==
    ASSUME IInv, NEW id \in Classes,
           slots[id] = <<>>, end_page_ptr[id] = Null,
           do_slabs_newslab(id),
           carve(id, Chunk(npages + 1, 0), perslab[id]),
           UNCHANGED <<slots, sl_total, lost>>
    PROVE  IInv'
<1> DEFINE p == npages + 1
           n == perslab[id]
           list == slab_list[id]
<1>1. TypeOK /\ PagesInv /\ \A jd \in Classes : ClassInv(jd)
  BY DEF IInv
<1>2. n \in Nat \ {0} /\ npages \in Nat /\ list \in Seq(Nat)
      /\ page_len[id] \in Nat
  BY <1>1, SlabsAssumption DEF TypeOK
<1>3. p \in Nat /\ <<p, 0>> \in Chunks /\ <<p, 1>> \in Chunks
      /\ <<p, 1>> # Null /\ p \notin 1 .. npages
  BY <1>2, SlabsAssumption DEF Chunks
<1>4. /\ held' = [held EXCEPT ![id] = @ \cup {<<p, 0>>}]
      /\ end_page_free' = [end_page_free EXCEPT ![id] = n - 1]
      /\ end_page_ptr' = [end_page_ptr EXCEPT ![id] =
                             IF n # 1 THEN <<p, 1>> ELSE Null]
  BY DEF carve, NextChunk, Chunk
<1>5. /\ npages' = p
      /\ mem_avail' \in Nat
      /\ slab_list' = [slab_list EXCEPT ![id] = Append(@, p)]
      /\ mem_malloced' \in Nat
      /\ mem_base' \in BOOLEAN
  <2>1. npages' = p /\ slab_list' = [slab_list EXCEPT ![id] = Append(@, p)]
        /\ mem_malloced' = mem_malloced + page_len[id] /\ mem_base' = mem_base
    BY DEF do_slabs_newslab, memory_allocate
  <2>2. mem_malloced' \in Nat /\ mem_base' \in BOOLEAN
    BY <1>1, <1>2, <2>1 DEF TypeOK
  <2>3. mem_avail' \in Nat
    <3>1. mem_avail \in Nat
      BY <1>1 DEF TypeOK
    <3>2. CASE mem_base
      BY <1>2, <3>1, <3>2 DEF do_slabs_newslab, memory_allocate
    <3>3. CASE ~mem_base
      BY <3>1, <3>3 DEF do_slabs_newslab, memory_allocate
    <3> QED BY <3>2, <3>3
  <2> QED BY <2>1, <2>2, <2>3
<1>6. UNCHANGED <<slots, sl_total, lost>>
  OBVIOUS
<1>7. /\ Append(list, p) \in Seq(Nat)
      /\ Listed(Append(list, p)) = Listed(list) \cup {p}
      /\ Len(Append(list, p)) = Len(list) + 1
      /\ slab_list'[id] = Append(list, p)
  BY <1>1, <1>2, <1>3, <1>5, ListedAppend DEF TypeOK
<1>8. /\ list_size' \in [Classes -> Nat]
      /\ Len(list) + 1 <= list_size'[id]
      /\ \A jd \in Classes \ {id} : list_size'[jd] = list_size[jd]
  <2>1. /\ Len(list) \in Nat /\ list_size \in [Classes -> Nat]
        /\ FirstArray \in Nat \ {0} /\ Len(list) <= list_size[id]
    BY <1>1, <1>2, SlabsAssumption DEF TypeOK, ClassInv
  <2>2. CASE Len(list) = list_size[id]
    <3>1. list_size' = [list_size EXCEPT ![id] = grown(@)]
      BY <2>2 DEF do_slabs_newslab, grow_slab_list, list_full
    <3>2. grown(list_size[id]) \in Nat
          /\ list_size[id] + 1 <= grown(list_size[id])
      BY <2>1 DEF grown
    <3> QED BY <2>1, <2>2, <3>1, <3>2
  <2>3. CASE Len(list) # list_size[id]
    BY <2>1, <2>3 DEF do_slabs_newslab, grow_slab_list, list_full
  <2> QED BY <2>2, <2>3
<1>9. TypeOK'
  <2>1. slab_list' \in [Classes -> Seq(Nat)]
    BY <1>1, <1>5, <1>7 DEF TypeOK
  <2>2. end_page_free' \in [Classes -> Nat]
    <3>1. n - 1 \in Nat
      BY <1>2
    <3> QED BY <1>1, <1>4, <3>1 DEF TypeOK
  <2>3. end_page_ptr' \in [Classes -> Chunks \cup {Null}]
    BY <1>1, <1>3, <1>4 DEF TypeOK
  <2>4. held' \in [Classes -> SUBSET Chunks]
    BY <1>1, <1>3, <1>4 DEF TypeOK
  <2>5. npages' \in Nat
    BY <1>3, <1>5
  <2> QED BY <1>1, <1>5, <1>6, <1>8, <2>1, <2>2, <2>3, <2>4, <2>5 DEF TypeOK
<1>10. \A jd \in Classes \ {id} : slab_list'[jd] = slab_list[jd]
  BY <1>1, <1>5 DEF TypeOK
<1>11. 1 .. npages \subseteq 1 .. p
  BY <1>2
<1>12. PagesInv'
  <2>1. \A jd \in Classes : Listed(slab_list[jd]) \subseteq 1 .. npages
    BY <1>1 DEF PagesInv
  <2>2. p \in 1 .. p
    BY <1>2
  <2>3. ASSUME NEW jd \in Classes PROVE Listed(slab_list'[jd]) \subseteq 1 .. p
    BY <1>7, <1>10, <1>11, <2>1, <2>2
  <2>4. ASSUME NEW jd \in Classes, NEW kd \in Classes \ {jd}
        PROVE  Listed(slab_list'[jd]) \cap Listed(slab_list'[kd]) = {}
    <3>1. Listed(slab_list[jd]) \cap Listed(slab_list[kd]) = {}
      BY <1>1 DEF PagesInv
    <3>2. p \notin Listed(slab_list[jd]) /\ p \notin Listed(slab_list[kd])
      BY <1>3, <2>1
    <3> QED BY <1>7, <1>10, <3>1, <3>2
  <2> QED BY <1>5, <2>3, <2>4 DEF PagesInv
<1>13. ClassInv(id)'
  <2> DEFINE new == {p} \X (0 .. n - 1)
  <2>1. Listed(list) \X (0 .. n - 1) = ChunksOf(id)
    BY DEF ChunksOf
  <2>2. ChunksOf(id)' = ChunksOf(id) \cup new
    BY <1>7, <2>1 DEF ChunksOf
  <2>3. ChunksOf(id) \cap new = {}
    <3>1. p \notin Listed(list)
      BY <1>1, <1>3 DEF PagesInv
    <3> QED BY <2>1, <3>1
  <2>4. Uncut(id) = {} /\ Listed(slots[id]) = {}
    BY DEF Uncut, Listed
  <2>5. Uncut(id)' = new \ {<<p, 0>>} /\ <<p, 0>> \in new
    <3>1. 0 \in 0 .. n - 1
      BY <1>2
    <3>2. CASE n = 1
      <4>1. Uncut(id)' = {}
        BY <1>1, <1>4, <3>2 DEF Uncut, TypeOK
      <4>2. 0 .. n - 1 = {0}
        BY <3>2
      <4> QED BY <4>1, <4>2
    <3>3. CASE n # 1
      <4>1. end_page_ptr'[id] = <<p, 1>>
        BY <1>1, <1>4, <3>3 DEF TypeOK
      <4>2. Uncut(id)' = {<<p, i>> : i \in 1 .. n - 1}
        BY <1>3, <4>1 DEF Uncut, Chunk
      <4>3. \A i : i \in 0 .. n - 1 <=> i = 0 \/ i \in 1 .. n - 1
        BY <1>2
      <4>4. 0 \notin 1 .. n - 1
        OBVIOUS
      <4> QED BY <3>1, <4>2, <4>3, <4>4
    <3> QED BY <3>2, <3>3
  <2>6. held'[id] = held[id] \cup {<<p, 0>>}
    BY <1>1, <1>4 DEF TypeOK
  <2>7. end_page_free'[id] = IF end_page_ptr'[id] = Null
                             THEN 0 ELSE n - end_page_ptr'[id][2]
    BY <1>1, <1>2, <1>3, <1>4 DEF TypeOK
  <2>8. end_page_ptr'[id] # Null =>
            /\ end_page_ptr'[id][1] \in Listed(slab_list'[id])
            /\ end_page_ptr'[id][2] \in 0 .. n - 1
    <3> SUFFICES ASSUME end_page_ptr'[id] # Null
                 PROVE  /\ end_page_ptr'[id][1] \in Listed(slab_list'[id])
                        /\ end_page_ptr'[id][2] \in 0 .. n - 1
      OBVIOUS
    <3>1. n # 1 /\ end_page_ptr'[id] = <<p, 1>>
      BY <1>1, <1>4 DEF TypeOK
    <3>2. 1 \in 0 .. n - 1
      BY <1>2, <3>1
    <3> QED BY <1>7, <3>1, <3>2
  <2>9. held[id] \cup lost[id] = ChunksOf(id) /\ held[id] \cap lost[id] = {}
    BY <1>1, <2>4 DEF ClassInv
  <2>10. /\ Distinct(slots'[id]) /\ Len(slots'[id]) <= sl_total'[id]
         /\ Listed(slots'[id]) = {} /\ lost'[id] = lost[id]
    BY <1>1, <1>6, <2>4 DEF ClassInv
  <2>11. Len(slab_list'[id]) <= list_size'[id]
    BY <1>7, <1>8
  <2>12. /\ held'[id] \cap (Listed(slots'[id]) \cup Uncut(id)' \cup lost'[id]) = {}
         /\ Listed(slots'[id]) \cap (Uncut(id)' \cup lost'[id]) = {}
         /\ Uncut(id)' \cap lost'[id] = {}
         /\ held'[id] \cup Listed(slots'[id]) \cup Uncut(id)' \cup lost'[id]
               = ChunksOf(id)'
    <3> HIDE DEF new
    <3> QED BY <2>2, <2>3, <2>5, <2>6, <2>9, <2>10
  <2> QED BY <2>7, <2>8, <2>10, <2>11, <2>12 DEF ClassInv
<1>14. ASSUME NEW jd \in Classes, jd # id PROVE ClassInv(jd)'
  <2>1. held'[jd] = held[jd] /\ end_page_ptr'[jd] = end_page_ptr[jd]
        /\ end_page_free'[jd] = end_page_free[jd]
    BY <1>1, <1>4, <1>14 DEF TypeOK
  <2> QED BY <1>1, <1>6, <1>8, <1>10, <1>14, <2>1, OtherClass
<1> QED BY <1>9, <1>12, <1>13, <1>14 DEF IInv

----------------------------------------------------------------------------
LEMMA InitIInv == Init => IInv
<1> SUFFICES ASSUME Init PROVE IInv
  OBVIOUS
<1>1. TypeOK
  BY SlabsAssumption DEF Init, TypeOK
<1>2. \A id \in Classes : /\ slots[id] = <<>> /\ slab_list[id] = <<>>
                            /\ end_page_ptr[id] = Null /\ end_page_free[id] = 0
                            /\ held[id] = {} /\ lost[id] = {}
                            /\ sl_total[id] = 0 /\ list_size[id] = 0
  BY DEF Init
<1>3. Listed(<<>>) = {} /\ Distinct(<<>>) /\ Len(<<>>) = 0
  <2>1. DOMAIN <<>> = {}
    OBVIOUS
  <2>2. Len(<<>>) = 0
    OBVIOUS
  <2> QED BY <2>1, <2>2 DEF Listed, Distinct
<1>4. PagesInv
  BY <1>2, <1>3 DEF PagesInv
<1>5. ASSUME NEW id \in Classes PROVE ClassInv(id)
  <2>1. Uncut(id) = {} /\ ChunksOf(id) = {}
    BY <1>2, <1>3 DEF Uncut, ChunksOf
  <2> QED BY <1>2, <1>3, <2>1 DEF ClassInv
<1> QED BY <1>1, <1>4, <1>5 DEF IInv

LEMMA StepIInv == IInv /\ [Next]_vars => IInv'
<1> SUFFICES ASSUME IInv, [Next]_vars PROVE IInv'
  OBVIOUS
<1>1. ASSUME NEW id \in Classes, do_slabs_alloc(id) PROVE IInv'
  <2>1. CASE slots[id] # <<>>
    BY <1>1, <2>1, PopStep DEF do_slabs_alloc
  <2>2. CASE slots[id] = <<>> /\ end_page_ptr[id] # Null
    BY <1>1, <2>2, CarveStep DEF do_slabs_alloc
  <2>3. CASE slots[id] = <<>> /\ end_page_ptr[id] = Null
    BY <1>1, <2>3, NewPageStep, RefusedStep DEF do_slabs_alloc
  <2> QED BY <2>1, <2>2, <2>3
<1>2. ASSUME NEW id \in Classes, NEW x \in held[id], do_slabs_free(x, id)
      PROVE  IInv'
  BY <1>2, FreeStep, DropStep DEF do_slabs_free
<1>3. CASE UNCHANGED vars
  <2>1. UNCHANGED <<slots, sl_total, end_page_ptr, end_page_free, slab_list,
                    list_size, mem_malloced, mem_base, mem_avail, npages, held,
                    lost>>
    BY <1>3 DEF vars, pages, mem
  <2>2. TypeOK' /\ PagesInv'
    BY <2>1 DEF IInv, TypeOK, PagesInv
  <2>3. \A id \in Classes : ClassInv(id)'
    BY <2>1, OtherClass DEF IInv
  <2> QED BY <2>2, <2>3 DEF IInv
<1> QED BY <1>1, <1>2, <1>3 DEF Next

\* The chunks of every class partition its pages, always.
THEOREM Invariance == Spec => []IInv
  BY InitIInv, StepIInv, PTL DEF Spec

\* The variables keep their types: end_page_free, an unsigned count, never goes
\* below zero.
THEOREM TypeCorrect == Spec => []TypeOK
<1>1. IInv => TypeOK
  BY DEF IInv
<1> QED BY <1>1, Invariance, PTL

\* The allocator never hands out memory that some caller holds or that a free
\* list also has, whatever mallocs and reallocs fail.
THEOREM NeverShared == Spec => []NoSharing
<1>1. IInv => NoSharing
  <2> SUFFICES ASSUME IInv, NEW id \in Classes
               PROVE /\ Distinct(slots[id])
                     /\ held[id] \cap (Listed(slots[id]) \cup Uncut(id) \cup lost[id]) = {}
                     /\ Listed(slots[id]) \cap (Uncut(id) \cup lost[id]) = {}
                     /\ Uncut(id) \cap lost[id] = {}
                     /\ \A jd \in Classes \ {id} : ChunksOf(id) \cap ChunksOf(jd) = {}
    BY DEF NoSharing, Distinct
  <2>1. ClassInv(id)
    BY DEF IInv
  <2>2. \A jd \in Classes \ {id} : ChunksOf(id) \cap ChunksOf(jd) = {}
    BY DEF IInv, PagesInv, ChunksOf
  <2> QED BY <2>1, <2>2 DEF ClassInv
<1> QED BY <1>1, Invariance, PTL

\* No chunk is forgotten other than those do_slabs_free found no room for.
THEOREM AlwaysConserved == Spec => []Conserved
<1>1. IInv => Conserved
  BY DEF IInv, ClassInv, Conserved
<1> QED BY <1>1, Invariance, PTL

\* No entry is written past the room of the slots and slab_list arrays.
THEOREM AlwaysInRoom == Spec => []InRoom
<1>1. IInv => InRoom
  BY DEF IInv, ClassInv, InRoom
<1> QED BY <1>1, Invariance, PTL

\* end_page_free is the number of uncut chunks.
THEOREM AlwaysEndPageCounted == Spec => []EndPageCounted
<1>1. IInv => EndPageCounted
  BY DEF IInv, ClassInv, EndPageCounted
<1> QED BY <1>1, Invariance, PTL

----------------------------------------------------------------------------
(* The memory limit *)

\* A set of numbers has a least one.
LEMMA Smallest ==
    ASSUME NEW T, T \subseteq Nat, T # {}
    PROVE  \E x \in T : \A y \in T : x <= y
<1>1. PICK x \in T : \A y \in T : ~(<<y, x>> \in OpToRel(<, Nat))
  BY NatLessThanWellFounded, WFMin
<1>2. \A y \in T : ~(y < x)
  BY <1>1 DEF OpToRel
<1> QED BY <1>2

\* The sums that SumOf(f) is defined by, up to the class m.
Sums(s, f, m) == s = [id \in 0 .. m |-> IF id = 0 THEN 0 ELSE s[id - 1] + f[id]]

\* They exist: the smallest m without would have a predecessor without.
LEMMA SumsExist ==
    ASSUME NEW f, NEW m \in Nat
    PROVE  \E s : Sums(s, f, m)
<1> DEFINE T == {n \in 0 .. m : ~\E s : Sums(s, f, n)}
<1>1. SUFFICES ASSUME T # {} PROVE FALSE
  <2>1. m \notin T
    BY <1>1
  <2> QED BY <2>1
<1>2. PICK x \in T : \A y \in T : x <= y
  <2>1. T \subseteq Nat
    OBVIOUS
  <2> HIDE DEF T
  <2> QED BY <1>1, <2>1, Smallest
<1>3. x # 0
  <2>1. Sums([id \in 0 .. 0 |-> 0], f, 0)
    BY DEF Sums
  <2> QED BY <2>1
<1>4. x \in 1 .. m /\ x - 1 \in 0 .. m /\ x - 1 \notin T
  BY <1>2, <1>3
<1>5. PICK r : Sums(r, f, x - 1)
  BY <1>4
<1> DEFINE q == [id \in 0 .. x |-> IF id = x THEN r[x - 1] + f[x] ELSE r[id]]
<1>6. ASSUME NEW id \in 0 .. x
      PROVE  q[id] = IF id = 0 THEN 0 ELSE q[id - 1] + f[id]
  <2>1. CASE id = x
    <3>1. x - 1 \in 0 .. x /\ x - 1 # x
      BY <1>4
    <3>2. q[x] = r[x - 1] + f[x] /\ q[x - 1] = r[x - 1]
      BY <1>4, <3>1
    <3> HIDE DEF q
    <3> QED BY <1>3, <2>1, <3>2
  <2>2. CASE id # x
    <3>1. id \in 0 .. x - 1
      BY <1>4, <2>2
    <3>2. r[id] = IF id = 0 THEN 0 ELSE r[id - 1] + f[id]
      BY <1>5, <3>1 DEF Sums
    <3>3. id # 0 => id - 1 \in 0 .. x /\ id - 1 # x
      BY <1>4, <3>1
    <3>4. q[id] = r[id] /\ (id # 0 => q[id - 1] = r[id - 1])
      BY <2>2, <3>3
    <3> HIDE DEF q
    <3> QED BY <3>2, <3>4
  <2> QED BY <2>1, <2>2
<1>7. Sums(q, f, x)
  <2> DEFINE p == [id \in 0 .. x |-> IF id = 0 THEN 0 ELSE q[id - 1] + f[id]]
  <2>1. DOMAIN q = 0 .. x /\ q = [id \in 0 .. x |-> q[id]]
    OBVIOUS
  <2> HIDE DEF q
  <2>2. q = p
    BY <1>6, <2>1
  <2> QED BY <2>2 DEF Sums
<1> QED BY <1>2, <1>7

\* SumOf(f) is the last of them.
LEMMA SumLast ==
    ASSUME NEW f
    PROVE  \E s : Sums(s, f, power_largest) /\ SumOf(f) = s[power_largest]
<1>1. \E s : Sums(s, f, power_largest)
  BY SumsExist, SlabsAssumption
<1> QED BY <1>1 DEF SumOf, Sums

\* What one class has more or less, the sum has.
LEMMA SumMoves ==
    ASSUME NEW f, NEW g, NEW k \in Classes,
           \A id \in Classes : f[id] \in Nat /\ g[id] \in Nat,
           \A id \in Classes \ {k} : g[id] = f[id]
    PROVE  /\ SumOf(f) \in Nat /\ SumOf(g) \in Nat
           /\ SumOf(g) + f[k] = SumOf(f) + g[k]
<1> DEFINE N == power_largest
<1>1. N \in Nat /\ Classes = 1 .. N
  BY SlabsAssumption DEF Classes, POWER_SMALLEST
<1>2. PICK s : Sums(s, f, N) /\ SumOf(f) = s[N]
  BY SumLast
<1>3. PICK r : Sums(r, g, N) /\ SumOf(g) = r[N]
  BY SumLast
<1>4. s[0] = 0 /\ r[0] = 0
  BY <1>1, <1>2, <1>3 DEF Sums
<1>5. ASSUME NEW n \in 1 .. N
      PROVE  /\ s[n] = s[n - 1] + f[n] /\ f[n] \in Nat
             /\ r[n] = r[n - 1] + g[n] /\ g[n] \in Nat
             /\ n # k => g[n] = f[n]
  <2>1. n \in 0 .. N /\ n # 0 /\ n \in Classes
    BY <1>1
  <2> QED BY <1>2, <1>3, <2>1 DEF Sums
<1> DEFINE P(n) == /\ s[n] \in Nat /\ r[n] \in Nat
                   /\ n < k => r[n] = s[n]
                   /\ n >= k => r[n] + f[k] = s[n] + g[k]
           T == {n \in 0 .. N : ~P(n)}
<1>6. k \in 1 .. N
  BY <1>1
<1>7. T = {}
  <2>1. SUFFICES ASSUME T # {} PROVE FALSE
    OBVIOUS
  <2>2. PICK x \in T : \A y \in T : x <= y
    <3>1. T \subseteq Nat
      BY <1>1
    <3> HIDE DEF T
    <3> QED BY <2>1, <3>1, Smallest
  <2>3. x \in 0 .. N /\ ~P(x)
    BY <2>2
  <2>4. P(0)
    BY <1>4, <1>6
  <2>5. x # 0
    BY <2>3, <2>4
  <2>6. x \in 1 .. N /\ x - 1 \in 0 .. N /\ x - 1 \notin T
    BY <1>1, <2>2, <2>3, <2>5
  <2>7. P(x - 1)
    BY <2>6
  <2> DEFINE a == s[x - 1]
             b == r[x - 1]
             c == f[x]
             d == g[x]
  <2>8. /\ s[x] = a + c /\ c \in Nat /\ r[x] = b + d /\ d \in Nat /\ a \in Nat /\ b \in Nat
        /\ x # k => c = d
        /\ x - 1 < k => a = b
        /\ x - 1 >= k => b + f[k] = a + g[k]
    BY <1>5, <2>6, <2>7
  <2>9. f[k] \in Nat /\ g[k] \in Nat
    BY <1>1
  <2>10. x = k => c = f[k] /\ d = g[k]
    OBVIOUS
  <2> HIDE DEF a, b, c, d
  <2>11. s[x] \in Nat /\ r[x] \in Nat
    BY <2>8
  <2>12. x < k => r[x] = s[x]
    BY <1>6, <2>6, <2>8
  <2>13. x >= k => r[x] + f[k] = s[x] + g[k]
    <3>1. CASE x = k
      <4>1. a = b
        BY <1>6, <2>8, <3>1
      <4> QED BY <2>8, <2>10, <3>1, <4>1
    <3>2. CASE x > k
      <4>1. b + f[k] = a + g[k] /\ c = d
        BY <1>6, <2>6, <2>8, <3>2
      <4> QED BY <2>8, <2>9, <4>1
    <3> QED BY <1>6, <2>6, <3>1, <3>2
  <2> QED BY <2>3, <2>11, <2>12, <2>13
<1>8. P(N)
  BY <1>1, <1>7
<1> QED BY <1>1, <1>2, <1>3, <1>6, <1>8

\* The sum of nothing.
LEMMA SumZero ==
    ASSUME NEW f, \A id \in Classes : f[id] = 0
    PROVE  SumOf(f) = 0
<1> DEFINE N == power_largest
<1>1. N \in Nat /\ Classes = 1 .. N
  BY SlabsAssumption DEF Classes, POWER_SMALLEST
<1>2. PICK s : Sums(s, f, N) /\ SumOf(f) = s[N]
  BY SumLast
<1> DEFINE T == {n \in 0 .. N : s[n] # 0}
<1>3. T = {}
  <2>1. SUFFICES ASSUME T # {} PROVE FALSE
    OBVIOUS
  <2>2. PICK x \in T : \A y \in T : x <= y
    <3>1. T \subseteq Nat
      BY <1>1
    <3> HIDE DEF T
    <3> QED BY <2>1, <3>1, Smallest
  <2>3. x \in 0 .. N /\ s[x] # 0
    BY <2>2
  <2>4. x # 0
    BY <1>1, <1>2, <2>3 DEF Sums
  <2>5. x - 1 \in 0 .. N /\ x - 1 \notin T /\ x \in Classes
    BY <1>1, <2>2, <2>3, <2>4
  <2>6. s[x - 1] = 0 /\ f[x] = 0
    BY <2>5
  <2>7. s[x] = s[x - 1] + f[x]
    BY <1>2, <2>3, <2>4 DEF Sums
  <2> QED BY <2>3, <2>6, <2>7
<1> QED BY <1>1, <1>2, <1>3

LEMMA InitMemBounded == Init => MemBounded
<1> SUFFICES ASSUME Init PROVE MemBounded
  OBVIOUS
<1>1. \A id \in Classes : Len(slab_list[id]) = 0
  BY DEF Init
<1>2. Malloced = 0
  <2> DEFINE f == [id \in Classes |-> Len(slab_list[id]) * page_len[id]]
  <2>1. \A id \in Classes : f[id] = 0
    BY <1>1, SlabsAssumption
  <2> HIDE DEF f
  <2>2. SumOf(f) = 0
    BY <2>1, SumZero
  <2> QED BY <2>2 DEF Malloced, f
<1>3. OnlyPages = 0
  <2> DEFINE f == [id \in Classes |-> IF Len(slab_list[id]) = 1 THEN page_len[id] ELSE 0]
  <2>1. \A id \in Classes : f[id] = 0
    BY <1>1
  <2> HIDE DEF f
  <2>2. SumOf(f) = 0
    BY <2>1, SumZero
  <2> QED BY <2>2 DEF OnlyPages, f
<1> QED BY <1>2, <1>3, SlabsAssumption DEF Init, MemBounded

\* A new page of the class: it counts as an only page if it is the first.
LEMMA PageCounts ==
    ASSUME TypeOK, NEW id \in Classes, do_slabs_newslab(id)
    PROVE  /\ Malloced \in Nat /\ Malloced' = Malloced + page_len[id]
           /\ OnlyPages \in Nat /\ OnlyPages' \in Nat
           /\ slab_list[id] = <<>> => OnlyPages' = OnlyPages + page_len[id]
<1> DEFINE p == page_len[id]
           l == Len(slab_list[id])
<1>1. /\ p \in Nat /\ l \in Nat /\ Len(slab_list'[id]) = l + 1
      /\ \A jd \in Classes \ {id} : slab_list'[jd] = slab_list[jd]
      /\ \A jd \in Classes : Len(slab_list[jd]) \in Nat /\ page_len[jd] \in Nat
      /\ \A jd \in Classes : Len(slab_list'[jd]) \in Nat
  <2>1. /\ slab_list' = [slab_list EXCEPT ![id] = Append(@, npages + 1)]
        /\ slab_list \in [Classes -> Seq(Nat)] /\ npages \in Nat
    BY DEF do_slabs_newslab, TypeOK
  <2>2. Len(slab_list'[id]) = l + 1 /\ l \in Nat
    BY <2>1
  <2>3. \A jd \in Classes \ {id} : slab_list'[jd] = slab_list[jd]
    BY <2>1
  <2>4. \A jd \in Classes : Len(slab_list[jd]) \in Nat /\ page_len[jd] \in Nat
    <3>1. \A jd \in Classes : page_len[jd] \in Nat
      BY SlabsAssumption
    <3>2. \A jd \in Classes : Len(slab_list[jd]) \in Nat
      BY <2>1
    <3> QED BY <3>1, <3>2
  <2> HIDE DEF l
  <2>5. \A jd \in Classes : Len(slab_list'[jd]) \in Nat
    BY <2>2, <2>3, <2>4
  <2> QED BY <2>2, <2>3, <2>4, <2>5
<1>2. Malloced \in Nat /\ Malloced' = Malloced + p
  <2> DEFINE f == [jd \in Classes |-> Len(slab_list[jd]) * page_len[jd]]
             g == [jd \in Classes |-> Len(slab_list'[jd]) * page_len[jd]]
  <2>1. \A jd \in Classes : f[jd] \in Nat /\ g[jd] \in Nat
    BY <1>1
  <2>2. \A jd \in Classes \ {id} : g[jd] = f[jd]
    BY <1>1
  <2>3. g[id] = f[id] + p
    <3> HIDE DEF p, l
    <3>1. (l + 1) * p = l * p + p
      BY <1>1
    <3> QED BY <1>1, <3>1 DEF p, l
  <2> HIDE DEF f, g, p
  <2>4. SumOf(f) \in Nat /\ SumOf(g) \in Nat /\ SumOf(g) + f[id] = SumOf(f) + g[id]
    BY <2>1, <2>2, SumMoves
  <2> DEFINE a == SumOf(f)
             b == SumOf(g)
             x == f[id]
             y == g[id]
  <2>5. a \in Nat /\ b \in Nat /\ b + x = a + y /\ y = x + p /\ x \in Nat /\ y \in Nat
    BY <2>1, <2>3, <2>4
  <2>6. Malloced = a /\ Malloced' = b
    BY DEF Malloced, f, g
  <2> HIDE DEF a, b, x, y
  <2> QED BY <1>1, <2>5, <2>6
<1>3. /\ OnlyPages \in Nat /\ OnlyPages' \in Nat
      /\ slab_list[id] = <<>> => OnlyPages' = OnlyPages + p
  <2> DEFINE f == [jd \in Classes |-> IF Len(slab_list[jd]) = 1 THEN page_len[jd] ELSE 0]
             g == [jd \in Classes |-> IF Len(slab_list'[jd]) = 1 THEN page_len[jd] ELSE 0]
  <2>1. \A jd \in Classes : f[jd] \in Nat /\ g[jd] \in Nat
    BY <1>1
  <2>2. \A jd \in Classes \ {id} : g[jd] = f[jd]
    BY <1>1
  <2>3. slab_list[id] = <<>> => f[id] = 0 /\ g[id] = p
    BY <1>1
  <2> HIDE DEF f, g, p
  <2>4. SumOf(f) \in Nat /\ SumOf(g) \in Nat /\ SumOf(g) + f[id] = SumOf(f) + g[id]
    BY <2>1, <2>2, SumMoves
  <2> DEFINE a == SumOf(f)
             b == SumOf(g)
             x == f[id]
             y == g[id]
  <2>5. a \in Nat /\ b \in Nat /\ b + x = a + y /\ x \in Nat /\ y \in Nat
    BY <2>1, <2>4
  <2>6. OnlyPages = a /\ OnlyPages' = b
    BY DEF OnlyPages, f, g
  <2>7. slab_list[id] = <<>> => x = 0 /\ y = p
    BY <2>3
  <2> HIDE DEF a, b, x, y
  <2>8. CASE slab_list[id] # <<>>
    BY <2>5, <2>6, <2>8
  <2>9. CASE slab_list[id] = <<>>
    <3>1. b = a + p
      BY <2>5, <2>7, <2>9
    <3> QED BY <2>5, <2>6, <3>1
  <2> QED BY <2>8, <2>9
<1> QED BY <1>2, <1>3

\* A class that has pages gets another only within the limit.
LEMMA StepMemBounded == TypeOK /\ MemBounded /\ [Next]_vars => MemBounded'
<1> SUFFICES ASSUME TypeOK, MemBounded, [Next]_vars PROVE MemBounded'
  OBVIOUS
<1>1. ASSUME NEW id \in Classes, do_slabs_newslab(id) PROVE MemBounded'
  <2> DEFINE p == page_len[id]
             a == OnlyPages
             b == OnlyPages'
             m == Malloced
             n == Malloced'
  <2>1. /\ m \in Nat /\ n = m + p /\ a \in Nat /\ b \in Nat
        /\ slab_list[id] = <<>> => b = a + p
    BY <1>1, PageCounts
  <2>2. /\ p \in Nat /\ mem_limit \in Nat /\ InitialMalloc \in Nat
        /\ mem_malloced \in Nat /\ mem_avail \in Nat
    BY SlabsAssumption DEF TypeOK
  <2>3. /\ mem_malloced' = mem_malloced + p /\ mem_base' = mem_base
        /\ mem_base => mem_avail' = mem_avail - p
        /\ mem_limit # 0 /\ slab_list[id] # <<>> => ~(mem_malloced + p > mem_limit)
    BY <1>1 DEF do_slabs_newslab, memory_allocate, over_limit
  <2>4. /\ mem_limit # 0 /\ InitialMalloc <= mem_limit => mem_malloced <= mem_limit + a
        /\ mem_base => m + mem_avail = mem_limit
    BY DEF MemBounded
  <2> HIDE DEF p, a, b, m, n
  <2>5. ASSUME mem_limit # 0, InitialMalloc <= mem_limit
        PROVE  mem_malloced' <= mem_limit + b
    <3>1. CASE slab_list[id] = <<>>
      BY <2>1, <2>2, <2>3, <2>4, <2>5, <3>1
    <3>2. CASE slab_list[id] # <<>>
      BY <2>1, <2>2, <2>3, <2>5, <3>2
    <3> QED BY <3>1, <3>2
  <2>6. ASSUME mem_base PROVE n + mem_avail' = mem_limit
    BY <2>1, <2>2, <2>3, <2>4, <2>6
  <2> QED BY <2>3, <2>5, <2>6 DEF MemBounded, b, n
<1>2. ASSUME UNCHANGED <<slab_list, mem_malloced, mem_base, mem_avail>> PROVE MemBounded'
  <2>1. Malloced' = Malloced /\ OnlyPages' = OnlyPages
    BY <1>2 DEF Malloced, OnlyPages
  <2> QED BY <1>2, <2>1 DEF MemBounded
<1>3. ASSUME NEW id \in Classes, do_slabs_alloc(id) PROVE MemBounded'
  BY <1>1, <1>2, <1>3 DEF do_slabs_alloc, newslab_refused, pages, mem
<1>4. ASSUME NEW id \in Classes, NEW x \in held[id], do_slabs_free(x, id)
      PROVE  MemBounded'
  BY <1>2, <1>4 DEF do_slabs_free, pages, mem
<1>5. CASE UNCHANGED vars
  BY <1>2, <1>5 DEF vars, pages, mem
<1> QED BY <1>3, <1>4, <1>5 DEF Next

\* Memory goes beyond its limit by first pages of classes only (do_slabs_newslab), and a
\* preallocated block is handed out page by page.
THEOREM AlwaysMemBounded == Spec => []MemBounded
<1>1. IInv => TypeOK
  BY DEF IInv
<1> QED BY <1>1, Invariance, InitMemBounded, StepMemBounded, PTL DEF Spec

----------------------------------------------------------------------------
(***************************************************************************)
(* Proofs about the dispatch of connections, for any descriptors and any   *)
(* number of workers: a descriptor has one owner, and every connection on  *)
(* a queue has its byte in the pipe of that queue's worker.                *)
(***************************************************************************)
Once(q) == \A m, n \in DOMAIN q : q[m] = q[n] => m = n

Holds(q, f) == \E n \in DOMAIN q : q[n] = f

Owns(t, f) == f \in conns[t] \/ Queued(t, f)

\* Every descriptor is in one place.
Placed ==
    \A f \in Fds :
        /\ f \in free \/ InHand(f) \/ \E t \in Workers : Owns(t, f)
        /\ f \in free => ~InHand(f)
        /\ \A t \in Workers :
            /\ Owns(t, f) => f \notin free /\ ~InHand(f)
            /\ ~(f \in conns[t] /\ Queued(t, f))
            /\ \A u \in Workers : t # u /\ Owns(t, f) => ~Owns(u, f)

\* The inductive invariant adds where the dispatch thread's locals have values.
DispatchInv ==
    /\ DispatchTypeOK
    /\ main.at = "push" => main.fd \in Fds
    /\ main.at = "notify" => last_thread \in Workers
    /\ \A t \in Workers : Once(queue[t])
    /\ Placed
    /\ Notified

----------------------------------------------------------------------------
LEMMA NextThread == ASSUME last_thread \in 0 .. NWorkers PROVE next_thread \in Workers
  <1>1. NWorkers \in Nat \ {0} /\ last_thread \in Nat
    BY DispatchAssumption
  <1>2. last_thread % NWorkers \in 0 .. NWorkers - 1
    BY <1>1
  <1> QED
    BY <1>1, <1>2 DEF next_thread, Workers

\* cq_push of a descriptor that the queue does not hold.
LEMMA Pushed ==
    ASSUME NEW q \in Seq(Fds), NEW f \in Fds, Once(q), ~Holds(q, f)
    PROVE  /\ cq_push(q, f) \in Seq(Fds)
           /\ Len(cq_push(q, f)) = Len(q) + 1
           /\ Once(cq_push(q, f))
           /\ \A g \in Fds : Holds(cq_push(q, f), g) <=> Holds(q, g) \/ g = f
  <1> DEFINE r == Append(q, f)
  <1>1. /\ r \in Seq(Fds) /\ Len(r) = Len(q) + 1 /\ Len(q) \in Nat
        /\ DOMAIN q = 1 .. Len(q) /\ DOMAIN r = 1 .. Len(q) + 1
        /\ \A n \in 1 .. Len(q) : r[n] = q[n]
        /\ r[Len(q) + 1] = f
    OBVIOUS
  <1>2. \A n \in DOMAIN r : n \in DOMAIN q \/ n = Len(q) + 1
    BY <1>1
  <1>3. Once(r)
    BY <1>1, <1>2 DEF Once, Holds
  <1>4. \A g \in Fds : Holds(r, g) <=> Holds(q, g) \/ g = f
    <2> TAKE g \in Fds
    <2>1. Holds(r, g) => Holds(q, g) \/ g = f
      BY <1>1, <1>2 DEF Holds
    <2>2. Holds(q, g) => Holds(r, g)
      BY <1>1 DEF Holds
    <2>3. g = f => Holds(r, g)
      BY <1>1 DEF Holds
    <2> QED
      BY <2>1, <2>2, <2>3
  <1> QED
    BY <1>1, <1>3, <1>4 DEF cq_push

\* cq_peek of a queue that holds something.
LEMMA Peeked ==
    ASSUME NEW q \in Seq(Fds), q # <<>>, Once(q)
    PROVE  /\ cq_peek(q) \in Seq(Fds) /\ Head(q) \in Fds
           /\ Len(cq_peek(q)) = Len(q) - 1
           /\ Once(cq_peek(q))
           /\ Holds(q, Head(q))
           /\ \A g \in Fds : Holds(cq_peek(q), g) <=> Holds(q, g) /\ g # Head(q)
  <1> DEFINE r == Tail(q)
  <1>1. /\ r \in Seq(Fds) /\ Len(r) = Len(q) - 1 /\ Len(q) \in Nat \ {0}
        /\ DOMAIN q = 1 .. Len(q) /\ DOMAIN r = 1 .. Len(q) - 1
        /\ \A n \in 1 .. Len(q) - 1 : r[n] = q[n + 1]
        /\ Head(q) = q[1] /\ Head(q) \in Fds
    OBVIOUS
  <1>2. Once(r)
    BY <1>1 DEF Once
  <1>3. Holds(q, Head(q))
    BY <1>1 DEF Holds
  <1>4. \A g \in Fds : Holds(r, g) <=> Holds(q, g) /\ g # Head(q)
    <2> TAKE g \in Fds
    <2>1. ASSUME Holds(r, g) PROVE Holds(q, g) /\ g # Head(q)
      <3>1. PICK n \in 1 .. Len(q) - 1 : q[n + 1] = g
        BY <1>1, <2>1 DEF Holds
      <3>2. n + 1 \in DOMAIN q /\ n + 1 # 1 /\ 1 \in DOMAIN q
        BY <1>1, <3>1
      <3> QED
        BY <1>1, <3>1, <3>2 DEF Holds, Once
    <2>2. ASSUME Holds(q, g), g # Head(q) PROVE Holds(r, g)
      <3>1. PICK n \in 1 .. Len(q) : q[n] = g
        BY <1>1, <2>2 DEF Holds
      <3>2. n - 1 \in 1 .. Len(q) - 1 /\ (n - 1) + 1 = n
        BY <1>1, <2>2, <3>1
      <3> QED
        BY <1>1, <3>1, <3>2 DEF Holds
    <2> QED
      BY <2>1, <2>2
  <1>5. cq_peek(q) = r
    BY DEF cq_peek
  <1> QED
    BY <1>1, <1>2, <1>3, <1>4, <1>5

----------------------------------------------------------------------------
LEMMA InitDispatchInv == DispatchInit => DispatchInv
  <1> SUFFICES ASSUME DispatchInit PROVE DispatchInv
    OBVIOUS
  <1> USE DEF DispatchInit
  <1>1. DispatchTypeOK
    BY DispatchAssumption DEF DispatchTypeOK, Places
  <1>2. main.at = "wait"
    OBVIOUS
  <1>3. \A t \in Workers : Once(queue[t]) /\ \A f \in Fds : ~Queued(t, f)
    BY DEF Once, Queued
  <1>4. Placed
    BY <1>2, <1>3 DEF Placed, Owns, InHand
  <1>5. Notified
    BY <1>2 DEF Notified
  <1> QED
    BY <1>1, <1>2, <1>3, <1>4, <1>5 DEF DispatchInv

\* Steps that move no descriptor.
LEMMA Still ==
    ASSUME DispatchInv, DispatchTypeOK', UNCHANGED <<free, queue, pipe, conns, last_thread>>,
           main.at \notin {"push", "notify"}, main'.at \notin {"push", "notify"}
    PROVE  DispatchInv'
  <1>1. Placed'
    BY DEF DispatchInv, Placed, Owns, InHand, Queued
  <1>2. Notified'
    BY DEF DispatchInv, Notified
  <1> QED
    BY <1>1, <1>2 DEF DispatchInv

LEMMA DispatchInvInductive == DispatchInv /\ [DispatchNext]_dispatchVars => DispatchInv'
  <1> SUFFICES ASSUME DispatchInv, [DispatchNext]_dispatchVars PROVE DispatchInv'
    OBVIOUS
  <1>0. DispatchTypeOK
    BY DEF DispatchInv
  <1>1. CASE connect
    <2>1. DispatchTypeOK'
      BY <1>0, <1>1, DispatchAssumption DEF connect, DispatchTypeOK
    <2>2. Placed' /\ Notified'
      BY <1>1 DEF connect, DispatchInv, Placed, Owns, InHand, Queued, Notified
    <2> QED
      BY <1>1, <2>1, <2>2 DEF connect, DispatchInv
  <1>2. CASE wake
    <2>1. DispatchTypeOK'
      BY <1>0, <1>2 DEF wake, Main, DispatchTypeOK, Places
    <2> QED
      BY <1>0, <1>2, <2>1, Still DEF wake, Main, DispatchTypeOK
  <1>3. CASE accept
    <2>1. PICK f \in free :
              /\ free' = free \ {f} /\ main' = [at |-> "push", fd |-> f]
              /\ UNCHANGED <<listening, last_thread, queue, pipe, conns, closing>>
              /\ main.at = "accept" /\ clients > 0 /\ clients' = clients - 1
      BY <1>3 DEF accept
    <2>2. f \in Fds
      BY <1>0, <2>1 DEF DispatchTypeOK
    <2>3. DispatchTypeOK'
      BY <1>0, <2>1, <2>2, DispatchAssumption DEF DispatchTypeOK, Places
    <2>4. \A g \in Fds : ~InHand(g) /\ (InHand(g)' <=> g = f)
      BY <2>1 DEF InHand
    <2>5. \A t \in Workers, g \in Fds : /\ Owns(t, g)' <=> Owns(t, g)
                                        /\ Queued(t, g)' <=> Queued(t, g)
      BY <2>1 DEF Owns, Queued
    <2>6. Placed'
      BY <2>1, <2>2, <2>4, <2>5 DEF Placed, DispatchInv
    <2>7. Notified'
      BY <2>1 DEF DispatchInv, Notified
    <2> QED
      BY <2>1, <2>2, <2>3, <2>6, <2>7 DEF DispatchInv
  <1>4. CASE accept_closed
    <2>1. DispatchTypeOK'
      BY <1>0, <1>4, DispatchAssumption DEF accept_closed, DispatchTypeOK
    <2> QED
      BY <1>4, <2>1, Still DEF accept_closed
  <1>5. CASE accept_nobody \/ accept_emfile \/ disable
    <2>1. DispatchTypeOK'
      BY <1>0, <1>5 DEF accept_nobody, accept_emfile, disable, Main, DispatchTypeOK, Places
    <2> QED
      BY <1>0, <1>5, <2>1, Still
         DEF accept_nobody, accept_emfile, disable, Main, DispatchTypeOK
  <1>6. CASE dispatch_conn_new
    <2> DEFINE t0 == next_thread  f0 == main.fd
    <2>1. /\ main.at = "push" /\ main' = [main EXCEPT !.at = "notify"]
          /\ last_thread' = t0
          /\ queue' = [queue EXCEPT ![t0] = cq_push(@, f0)]
          /\ UNCHANGED <<clients, listening, free, pipe, conns, closing>>
      BY <1>6 DEF dispatch_conn_new, Main
    <2>2. t0 \in Workers
      BY <1>0, NextThread DEF DispatchTypeOK
    <2>3. f0 \in Fds /\ main'.at = "notify" /\ InHand(f0)
      BY <1>0, <2>1 DEF DispatchInv, InHand, DispatchTypeOK
    <2> HIDE DEF t0, f0
    <2>4. queue[t0] \in Seq(Fds) /\ ~Holds(queue[t0], f0) /\ Once(queue[t0])
      BY <1>0, <2>2, <2>3 DEF DispatchInv, DispatchTypeOK, Placed, Owns, Queued, Holds
    <2>5. /\ queue'[t0] = cq_push(queue[t0], f0)
          /\ \A t \in Workers \ {t0} : queue'[t] = queue[t]
      BY <1>0, <2>1, <2>2 DEF DispatchTypeOK
    <2>6. /\ queue'[t0] \in Seq(Fds) /\ Len(queue'[t0]) = Len(queue[t0]) + 1
          /\ Once(queue'[t0])
          /\ \A g \in Fds : Holds(queue'[t0], g) <=> Holds(queue[t0], g) \/ g = f0
      BY <2>3, <2>4, <2>5, Pushed
    <2>7. DispatchTypeOK'
      <3>1. queue' \in [Workers -> Seq(Fds)]
        BY <1>0, <2>1, <2>4, <2>3, <2>2, <2>5, <2>6 DEF DispatchTypeOK
      <3>2. last_thread' \in 0 .. NWorkers
        BY <2>1, <2>2, DispatchAssumption DEF Workers
      <3>3. main' \in [at : Places, fd : Fds \cup {NoFd}]
        BY <1>0, <2>1 DEF DispatchTypeOK, Places
      <3> QED
        BY <1>0, <2>1, <3>1, <3>2, <3>3 DEF DispatchTypeOK
    <2>8. \A t \in Workers, g \in Fds :
              Queued(t, g)' <=> Queued(t, g) \/ (t = t0 /\ g = f0)
      BY <2>5, <2>6 DEF Queued, Holds
    <2>9. \A g \in Fds : ~InHand(g)' /\ (InHand(g) <=> g = f0)
      BY <2>1, <2>3 DEF InHand, f0
    <2>10. Placed'
      <3>1. \A t \in Workers, g \in Fds :
                Owns(t, g)' <=> Owns(t, g) \/ (t = t0 /\ g = f0)
        BY <2>1, <2>8 DEF Owns
      <3> QED
        BY <2>1, <2>2, <2>3, <2>8, <2>9, <3>1 DEF DispatchInv, Placed, Owns
    <2>11. Notified'
      <3> SUFFICES ASSUME NEW t \in Workers
                   PROVE  Len(queue'[t]) = pipe'[t] + IF t = t0 THEN 1 ELSE 0
        BY <2>1, <2>3 DEF Notified
      <3>1. Len(queue[t]) = pipe[t] /\ pipe[t] \in Nat /\ pipe'[t] = pipe[t]
        BY <1>0, <2>1 DEF DispatchInv, Notified, DispatchTypeOK
      <3> QED
        BY <2>5, <2>6, <3>1
    <2> QED
      BY <2>1, <2>2, <2>3, <2>5, <2>6, <2>7, <2>10, <2>11 DEF DispatchInv
  <1>7. CASE notify
    <2>1. /\ main.at = "notify" /\ main' = [at |-> "accept", fd |-> NoFd]
          /\ pipe' = [pipe EXCEPT ![last_thread] = @ + 1]
          /\ last_thread \in Workers
          /\ UNCHANGED <<clients, listening, free, last_thread, queue, conns, closing>>
      BY <1>7 DEF notify, notify_thread, DispatchInv
    <2>2. DispatchTypeOK'
      BY <1>0, <2>1 DEF DispatchTypeOK, Places
    <2>3. Placed'
      BY <2>1 DEF DispatchInv, Placed, Owns, InHand, Queued
    <2>4. Notified'
      BY <1>0, <2>1 DEF DispatchInv, Notified, DispatchTypeOK
    <2> QED
      BY <2>1, <2>2, <2>3, <2>4 DEF DispatchInv
  <1>8. ASSUME NEW t \in Workers, thread_libevent_process(t) PROVE DispatchInv'
    <2>1. /\ pipe[t] > 0 /\ pipe[t] \in Nat /\ queue[t] \in Seq(Fds) /\ Once(queue[t])
          /\ pipe' = [pipe EXCEPT ![t] = @ - 1]
          /\ queue' = [queue EXCEPT ![t] = cq_peek(@)]
          /\ UNCHANGED <<clients, listening, main, last_thread, closing>>
      BY <1>0, <1>8 DEF thread_libevent_process, DispatchInv, DispatchTypeOK
    <2>2. queue[t] # <<>>
      BY <2>1 DEF DispatchInv, Notified
    <2> DEFINE f0 == Head(queue[t])
    <2>3. /\ queue'[t] \in Seq(Fds) /\ f0 \in Fds
          /\ Len(queue'[t]) = Len(queue[t]) - 1
          /\ Once(queue'[t]) /\ Holds(queue[t], f0)
          /\ \A g \in Fds : Holds(queue'[t], g) <=> Holds(queue[t], g) /\ g # f0
          /\ \A u \in Workers \ {t} : queue'[u] = queue[u]
      <3>1. queue'[t] = cq_peek(queue[t]) /\ \A u \in Workers \ {t} : queue'[u] = queue[u]
        BY <1>0, <2>1 DEF DispatchTypeOK
      <3> QED
        BY <2>1, <2>2, <3>1, Peeked
    <2>4. \/ conns' = [conns EXCEPT ![t] = @ \cup {f0}] /\ free' = free
          \/ free' = free \cup {f0} /\ conns' = conns
      BY <1>8, <2>2 DEF thread_libevent_process
    <2> HIDE DEF f0
    <2>5. DispatchTypeOK'
      <3>1. queue' \in [Workers -> Seq(Fds)]
        BY <1>0, <2>1, <2>3 DEF DispatchTypeOK
      <3>2. pipe' \in [Workers -> Nat]
        BY <1>0, <2>1 DEF DispatchTypeOK
      <3>3. conns' \in [Workers -> SUBSET Fds] /\ free' \subseteq Fds
        BY <1>0, <2>3, <2>4 DEF DispatchTypeOK
      <3> QED
        BY <1>0, <2>1, <3>1, <3>2, <3>3 DEF DispatchTypeOK
    <2>6. /\ \A u \in Workers, g \in Fds :
                Queued(u, g)' <=> Queued(u, g) /\ ~(u = t /\ g = f0)
          /\ Queued(t, f0)
      BY <2>3 DEF Queued, Holds
    <2>7. \A g \in Fds : InHand(g)' <=> InHand(g)
      BY <2>1 DEF InHand
    <2>8. Placed'
      <3>1. CASE conns' = [conns EXCEPT ![t] = @ \cup {f0}] /\ free' = free
        <4>1. \A u \in Workers, g \in Fds :
                  g \in conns'[u] <=> g \in conns[u] \/ (u = t /\ g = f0)
          BY <1>0, <3>1 DEF DispatchTypeOK
        <4>2. \A u \in Workers, g \in Fds : Owns(u, g)' <=> Owns(u, g)
          BY <2>6, <4>1 DEF Owns
        <4> QED
          BY <2>3, <2>6, <2>7, <3>1, <4>1, <4>2 DEF DispatchInv, Placed, Owns
      <3>2. CASE free' = free \cup {f0} /\ conns' = conns
        <4>1. Owns(t, f0) /\ f0 \notin conns[t] /\ ~InHand(f0)
          BY <2>3, <2>6 DEF DispatchInv, Placed, Owns
        <4>2. \A u \in Workers, g \in Fds : Owns(u, g)' <=> Owns(u, g) /\ g # f0
          BY <2>3, <2>6, <3>2, <4>1 DEF DispatchInv, Placed, Owns
        <4> QED
          BY <2>3, <2>6, <2>7, <3>2, <4>1, <4>2 DEF DispatchInv, Placed
      <3> QED
        BY <2>4, <3>1, <3>2
    <2>9. Notified'
      <3> SUFFICES ASSUME NEW u \in Workers
                   PROVE  Len(queue'[u]) = pipe'[u] +
                              IF main.at = "notify" /\ u = last_thread THEN 1 ELSE 0
        BY <2>1 DEF Notified
      <3>1. /\ Len(queue[u]) = pipe[u] + IF main.at = "notify" /\ u = last_thread THEN 1 ELSE 0
            /\ pipe[u] \in Nat
            /\ pipe'[u] = IF u = t THEN pipe[u] - 1 ELSE pipe[u]
        BY <1>0, <2>1 DEF DispatchInv, Notified, DispatchTypeOK
      <3> QED
        BY <2>1, <2>3, <3>1
    <2> QED
      BY <2>1, <2>3, <2>5, <2>8, <2>9 DEF DispatchInv
  <1>9. ASSUME NEW t \in Workers, accept_again(t) PROVE DispatchInv'
    <2>1. DispatchTypeOK'
      BY <1>0, <1>9 DEF accept_again, DispatchTypeOK
    <2>2. Placed' /\ Notified'
      BY <1>9 DEF accept_again, DispatchInv, Placed, Owns, InHand, Queued, Notified
    <2> QED
      BY <1>9, <2>1, <2>2 DEF accept_again, DispatchInv
  <1>10. ASSUME NEW t \in Workers, NEW f \in Fds, conn_close(t, f) PROVE DispatchInv'
    <2>1. /\ f \in conns[t]
          /\ conns' = [conns EXCEPT ![t] = @ \ {f}] /\ free' = free \cup {f}
          /\ closing' = closing \cup {t}
          /\ UNCHANGED <<clients, listening, main, last_thread, queue, pipe>>
      BY <1>10 DEF conn_close
    <2>2. DispatchTypeOK'
      BY <1>0, <2>1 DEF DispatchTypeOK
    <2>3. \A u \in Workers, g \in Fds :
              /\ g \in conns'[u] <=> g \in conns[u] /\ ~(u = t /\ g = f)
              /\ Queued(u, g)' <=> Queued(u, g)
              /\ InHand(g)' <=> InHand(g)
      BY <1>0, <2>1 DEF DispatchTypeOK, Queued, InHand
    <2>4. Owns(t, f) /\ ~Queued(t, f) /\ ~InHand(f)
      BY <2>1 DEF DispatchInv, Placed, Owns
    <2>5. \A u \in Workers, g \in Fds : Owns(u, g)' <=> Owns(u, g) /\ g # f
      BY <2>1, <2>3, <2>4 DEF DispatchInv, Placed, Owns
    <2>6. Placed'
      BY <2>1, <2>3, <2>4, <2>5 DEF DispatchInv, Placed
    <2>7. Notified'
      BY <2>1 DEF DispatchInv, Notified
    <2> QED
      BY <2>1, <2>2, <2>6, <2>7 DEF DispatchInv
  <1>11. CASE UNCHANGED dispatchVars
    <2>1. DispatchTypeOK' /\ Placed' /\ Notified'
      BY <1>11 DEF dispatchVars, DispatchInv, DispatchTypeOK, Placed, Owns, InHand, Queued, Notified
    <2> QED
      BY <1>11, <2>1 DEF dispatchVars, DispatchInv
  <1> QED
    BY <1>1, <1>2, <1>3, <1>4, <1>5, <1>6, <1>7, <1>8, <1>9, <1>10, <1>11
       DEF DispatchNext, Dispatcher, Worker

LEMMA AlwaysDispatchInv == DispatchSpec => []DispatchInv
  BY InitDispatchInv, DispatchInvInductive, PTL DEF DispatchSpec

----------------------------------------------------------------------------
\* A descriptor is free, in the dispatch thread's hand, on one worker's queue
\* once, or one worker's connection (dispatch_conn_new, conn_close).
THEOREM OnlyOnePlace == DispatchSpec => []OnePlace
  <1>1. DispatchInv => OnePlace
    <2> SUFFICES ASSUME DispatchInv, NEW f \in Fds, NEW t \in Workers
                 PROVE  \A m, n \in DOMAIN queue[t] :
                            queue[t][m] = f /\ queue[t][n] = f => m = n
      BY DEF DispatchInv, OnePlace, Placed, Owns
    <2> QED
      BY DEF DispatchInv, Once
  <1> QED
    BY <1>1, AlwaysDispatchInv, PTL

\* A worker's pipe holds a byte for every connection on its queue, but for the
\* one about to be written (dispatch_conn_new, thread_libevent_process).
THEOREM AlwaysNotified == DispatchSpec => []Notified
  <1>1. DispatchInv => Notified
    BY DEF DispatchInv
  <1> QED
    BY <1>1, AlwaysDispatchInv, PTL
============================================================================
