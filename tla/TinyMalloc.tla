------------------------------ MODULE TinyMalloc ------------------------------
(***************************************************************************)
(* The allocator of riscv-tests/debug/programs/tiny-malloc.c, for a heap   *)
(* that grows upwards (MALLOC_DIRECTION 1).  Addresses and sizes are in    *)
(* words of sizeof(size_t): a block has one word of size before the user's *)
(* memory, and a freelist_entry is two words.  The free list is the        *)
(* sequence of its blocks.  Requests are far from the largest size_t.      *)
(*                                                                         *)
(* MALLOC_LIMIT is the frame of the call, so each call has a limit of its  *)
(* own.  CAN_ALLOC_P subtracts unsigned words: calls are made from frames  *)
(* that lie MALLOC_MINIMUM_GAP beyond malloc_end or further.               *)
(***************************************************************************)
EXTENDS Naturals, Integers, Sequences, FiniteSets, FiniteSetsExt, SequencesExt

CONSTANTS Limits,          \* MALLOC_LIMIT less MALLOC_MINIMUM_GAP, in words
          Sizes, Aligns,   \* requests
          BLOCKS           \* bound on the blocks in use

ASSUME HeapAssumption == 
  /\ Limits \subseteq Nat /\ IsFiniteSet(Limits) /\ Limits # {}
  /\ Sizes \subseteq Nat /\ Aligns \subseteq Nat \ {0}

VARIABLES malloc_freelist, malloc_end,
          in_use           \* the blocks given out, with the request each one answers

tmVars == <<malloc_freelist, malloc_end, in_use>>

Block(a, n) == [addr |-> a, size |-> n]
ENTRY == 2

REAL_SIZE(sz) == IF sz < 1 THEN ENTRY ELSE sz + 1
M_ALIGN(x, align) == (0 - x) % align

\* The heap as a value: what malloc and free are given and leave.
Heap(limit) == [free |-> malloc_freelist, end |-> malloc_end, limit |-> limit]
Callable == {limit \in Limits : limit >= malloc_end}
NoBlock == [addr |-> 0, size |-> 0]
Got(h, b) == [heap |-> h, block |-> b]
CAN_ALLOC_P(h, n) == h.limit - h.end >= n
After(b) == b.addr + b.size
TouchesEnd(h) == h.free # <<>> /\ After(h.free[Len(h.free)]) = h.end

tmInit == malloc_freelist = <<>> /\ malloc_end = 0 /\ in_use = {}

\* malloc takes the free block i: whole if the rest is no freelist_entry, else split.
Take(h, i, real) ==
  LET b == h.free[i] IN
  IF b.size < real + ENTRY
  THEN Got([h EXCEPT !.free = RemoveAt(@, i)], b)
  ELSE Got([h EXCEPT !.free[i] = Block(b.addr + real, b.size - real)], Block(b.addr, real))

\* malloc: the first block that is large enough, or the last one enlarged if it ends at
\* malloc_end, or new space.
Malloc(h, sz) ==
  LET real == REAL_SIZE(sz)
      fits == {i \in 1 .. Len(h.free) : h.free[i].size >= real}
      last == h.free[Len(h.free)] IN
  IF fits # {} THEN Take(h, Min(fits), real)
  ELSE IF TouchesEnd(h)
  THEN IF CAN_ALLOC_P(h, real - last.size)
       THEN Got([h EXCEPT !.free = RemoveAt(@, Len(@)), !.end = last.addr + real],
                Block(last.addr, real))
       ELSE Got(h, NoBlock)
  ELSE IF CAN_ALLOC_P(h, real)
  THEN Got([h EXCEPT !.end = @ + real], Block(h.end, real))
  ELSE Got(h, NoBlock)

\* free of a block just after free block i; the next free block may be just after it.
Join(h, i, b) ==
  LET n == h.free[i].size + b.size IN
  IF i < Len(h.free) /\ After(b) = h.free[i + 1].addr
  THEN [h EXCEPT !.free = RemoveAt([@ EXCEPT ![i].size = n + h.free[i + 1].size], i + 1)]
  ELSE [h EXCEPT !.free[i].size = n]

\* free: the loop stops at the first free block next to the block or behind it.
Free(h, b) ==
  LET f == h.free
      stops == {i \in 1 .. Len(f) : After(f[i]) = b.addr \/ f[i].addr = After(b) \/ f[i].addr > b.addr}
      i == Min(stops) IN
  IF stops = {} THEN [h EXCEPT !.free = Append(@, b)]
  ELSE IF After(f[i]) = b.addr THEN Join(h, i, b)
  ELSE IF f[i].addr = After(b) THEN [h EXCEPT !.free[i] = Block(b.addr, b.size + f[i].size)]
  ELSE [h EXCEPT !.free = InsertAt(@, i, b)]

\* The space memalign leaves before an aligned block: none, or a freelist_entry at least.
Before(b, align) ==
  IF M_ALIGN(b.addr + 1, align) = 0 THEN 0
  ELSE ENTRY + M_ALIGN(b.addr + ENTRY + 1, align)

\* Mutant: the space before the block is not given back to the list.
Carve_Loses(h, i, real, before) ==
  LET b == h.free[i]
      block == b.addr + before
      n == b.size - before IN
  IF n <= real + ENTRY
  THEN Got([h EXCEPT !.free = RemoveAt(@, i)], Block(block, n))
  ELSE Got([h EXCEPT !.free[i] = Block(block + real, n - real)], Block(block, real))

\* memalign cuts the aligned block out of the free block i.
Carve(h, i, real, before) ==
  LET b == h.free[i]
      block == b.addr + before
      n == b.size - before
      rest == Block(block + real, n - real)
      whole == n <= real + ENTRY IN
  Got([h EXCEPT !.free =
         IF before # 0
         THEN LET cut == [@ EXCEPT ![i] = Block(b.addr, before)] IN
              IF whole THEN cut ELSE InsertAt(cut, i + 1, rest)
         ELSE IF whole THEN RemoveAt(@, i) ELSE [@ EXCEPT ![i] = rest]],
      Block(block, IF whole THEN n ELSE real))

\* memalign on block i, which is enlarged first if it is the last, at the end and too small.
Enlarge(h, i, real, align) ==
  LET b == h.free[i]
      before == Before(b, align) IN
  IF b.size >= real + before THEN Carve(h, i, real, before)
  ELSE IF CAN_ALLOC_P(h, before + real - b.size)
  THEN Carve([h EXCEPT !.free[i].size = before + real, !.end = b.addr + before + real],
             i, real, before)
  ELSE Got(h, NoBlock)

\* memalign: the first block that will do, or a new one at malloc_end.
Memalign(h, align, sz) ==
  LET real == REAL_SIZE(sz)
      n == Len(h.free)
      fits == {i \in 1 .. n : \/ h.free[i].size >= real + Before(h.free[i], align)
                              \/ i = n /\ TouchesEnd(h)}
      more == real + M_ALIGN(h.end + 1, align)
      grown == [h EXCEPT !.free = Append(@, Block(h.end, more)), !.end = @ + more] IN
  IF align \notin {1, 2, 4, 8} THEN Got(h, NoBlock)
  ELSE IF fits # {} THEN Enlarge(h, Min(fits), real, align)
  ELSE IF CAN_ALLOC_P(h, more) THEN Enlarge(grown, n + 1, real, align)
  ELSE Got(h, NoBlock)

Keep(h) == malloc_freelist' = h.free /\ malloc_end' = h.end

\* A block that was got is in use for a request of sz words at a multiple of align.
Give(got, kept, sz, align) ==
  /\ Keep(got.heap)
  /\ in_use' = IF got.block = NoBlock THEN in_use
               ELSE kept \cup {[block |-> got.block, sz |-> sz, align |-> align]}

malloc(limit, sz) ==
  Cardinality(in_use) < BLOCKS /\ Give(Malloc(Heap(limit), sz), in_use, sz, 1)

memalign(limit, align, sz) ==
  Cardinality(in_use) < BLOCKS /\ Give(Memalign(Heap(limit), align, sz), in_use, sz, align)

free(limit, u) == Keep(Free(Heap(limit), u.block)) /\ in_use' = in_use \ {u}

\* realloc: get, copy and free when it grows; give back the rest when it shrinks.
realloc(limit, u, sz) ==
  LET real == REAL_SIZE(sz)
      old == u.block
      got == Malloc(Heap(limit), sz)
      tail == Block(old.addr + real, old.size - real) IN
  IF old.size < real
  THEN IF got.block = NoBlock THEN UNCHANGED tmVars
       ELSE Give([got EXCEPT !.heap = Free(@, old)], in_use \ {u}, sz, 1)
  ELSE IF old.size - real >= ENTRY
  THEN Give(Got(Free(Heap(limit), tail), Block(old.addr, real)), in_use \ {u}, sz, u.align)
  ELSE Give(Got(Heap(limit), old), in_use \ {u}, sz, u.align)

tmNext ==
  \E limit \in Callable :
    \/ \E sz \in Sizes : malloc(limit, sz)
    \/ \E sz \in Sizes, align \in Aligns : memalign(limit, align, sz)
    \/ \E u \in in_use : free(limit, u)
    \/ \E u \in in_use, sz \in Sizes : realloc(limit, u, sz)
-----------------------------------------------------------------------------
(* Properties *)

Blocks == {malloc_freelist[i] : i \in DOMAIN malloc_freelist} \cup {u.block : u \in in_use}
Highest == Max(Limits)
HeapWords(b) == b.addr .. After(b) - 1

tmTypeOK ==
  /\ malloc_end \in 0 .. Highest
  /\ \A b \in Blocks : b.addr \in 0 .. Highest /\ b.size \in ENTRY .. Highest

\* The heap is always tiled: every word below malloc_end is in exactly one block, free
\* or in use, so no block overlaps another and none is lost, whatever the order of calls.
HeapTiled ==
  /\ UNION {HeapWords(b) : b \in Blocks} = 0 .. malloc_end - 1
  /\ Len(malloc_freelist) + Cardinality(in_use) = Cardinality(Blocks)
  /\ \A b, d \in Blocks : b # d => HeapWords(b) \cap HeapWords(d) = {}

\* The free list is in address order and fully joined: free relies on the order to stop,
\* and no sequence of calls splits the heap into free blocks side by side.
FreeJoined ==
  \A i \in 1 .. Len(malloc_freelist) - 1 :
    After(malloc_freelist[i]) < malloc_freelist[i + 1].addr

\* A block in use has room for its request, and is aligned as memalign was asked.
RequestsMet ==
  \A u \in in_use : u.block.size >= u.sz + 1 /\ (u.block.addr + 1) % u.align = 0

\* The allocator keeps its heap in order and gives what it is asked for.
HeapSound == tmTypeOK /\ HeapTiled /\ FreeJoined /\ RequestsMet
=============================================================================
