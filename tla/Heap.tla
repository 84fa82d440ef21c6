-------------------------------- MODULE Heap --------------------------------
(***************************************************************************)
(* The allocator of src/include/libc.h: malloc, free, calloc and realloc   *)
(* over one list of free blocks, in a program with one thread.             *)
(*                                                                         *)
(* Addresses and sizes count units of eight bytes: a uheap_hdr_t takes     *)
(* three, sizes are rounded up to two, and a rest is split off from seven. *)
(* The list that runs through the headers is a sequence of addresses.      *)
(* A header's magic number is there exactly when its address is in the     *)
(* domain of hdr; clients do not write the magic number where a header     *)
(* used to be.  Sizes wrap around at SizeMod as a size_t does.  No client  *)
(* asks for a size so large that uheap_align wraps it around to 0.         *)
(*                                                                         *)
(* Clients are objects that hold one allocation each and write their own   *)
(* name into all of it, over the zeros that calloc leaves; they use no     *)
(* memory but what they hold.                                              *)
(***************************************************************************)
EXTENDS Integers, FiniteSets, SequencesExt

CONSTANTS
  Object,    \* the clients' objects
  Sizes,     \* sizes asked of malloc and realloc
  Products,  \* pairs asked of calloc
  SizeMod,   \* one more than the largest size_t
  Limit,     \* the most that the kernel grants
  Null       \* the null pointer, and no owner

HeapAssumption ==
  /\ SizeMod \in Nat /\ SizeMod % 2 = 0 /\ Limit \in 0 .. SizeMod - 1
  /\ Sizes \subseteq 0 .. SizeMod - 2
  /\ \A mn \in Products : mn[1] \in Nat /\ mn[2] \in Nat /\ mn[1] * mn[2] # SizeMod - 1
  /\ Null \notin Object /\ Null \notin Nat /\ Null \notin [ptr : Nat, size : Nat]

Header == 3
Rest == 7

VARIABLES
  heap,  \* hdr: the headers; list: g_uheap_free; brk: the end of the heap
  held,  \* per object: its pointer and the size it asked for, or Null
  data,  \* per unit of memory: the object that wrote it, or Null
  lowered  \* TRUE once a call moved the break down: no step comes after

vars == <<heap, held, data, lowered>>

Init ==
  /\ heap = [hdr |-> <<>>, list |-> <<>>, brk |-> 0]
  /\ held = [o \in Object |-> Null]
  /\ data = [a \in 0 .. Limit - 1 |-> Null]
  /\ lowered = FALSE

-----------------------------------------------------------------------------
(* The functions on a heap H.                                              *)

uheap_align(n) == ((((n + 1) % SizeMod) \div 2) * 2)

SetHeader(H, a, size, free) ==
  [H EXCEPT !.hdr = [b \in DOMAIN H.hdr \cup {a} |->
                       IF b = a THEN [size |-> size, free |-> free] ELSE H.hdr[b]]]

Wipe(H, a) == [H EXCEPT !.hdr = [b \in DOMAIN H.hdr \ {a} |-> H.hdr[b]]]

End(H, a) == a + Header + H.hdr[a].size

\* Faulty: a freed block goes to the front of the list.
InsertFree_Front(H, a) ==
  [H EXCEPT !.hdr[a].free = TRUE, !.list = <<a>> \o @]

\* uheap_insert_free: before the first block that does not lie below a.
InsertFree(H, a) ==
  LET below == {i \in 0 .. Len(H.list) : \A j \in 1 .. i : H.list[j] < a}
  IN  [H EXCEPT !.hdr[a].free = TRUE, !.list = InsertAt(@, Max(below) + 1, a)]

\* Faulty: the header of the block that was merged is not counted.
Merge_PayloadOnly(H, a, b) ==
  SetHeader(Wipe(H, b), a, H.hdr[a].size + H.hdr[b].size, TRUE)

\* Block a takes in block b, and b's magic is wiped.
Merge(H, a, b) ==
  SetHeader(Wipe(H, b), a, H.hdr[a].size + Header + H.hdr[b].size, H.hdr[a].free)

\* uheap_coalesce: each block of the list is merged into the one before it
\* that ends where it begins; merged[i] is the heap after i blocks.
Take(G, b) == IF G.list # <<>> /\ End(G, Last(G.list)) = b
              THEN Merge(G, Last(G.list), b)
              ELSE [G EXCEPT !.list = Append(@, b)]

Coalesce(H) ==
  LET merged[i \in 0 .. Len(H.list)] ==
        IF i = 0 THEN [H EXCEPT !.list = <<>>] ELSE Take(merged[i - 1], H.list[i])
  IN  merged[Len(H.list)]

\* uheap_split_if_needed.
Split(H, a, need) ==
  LET rest == H.hdr[a].size - need
      b    == a + Header + need
  IN  IF rest < Rest THEN H
      ELSE InsertFree(SetHeader(SetHeader(H, a, need, H.hdr[a].free), b, rest - Header, TRUE), b)

\* Faulty: a total that wraps around is not noticed.
FromKernel_NoCheck(payload) == uheap_align(Header + payload)

\* What uheap_request_from_kernel asks sbrk for, or Null where it refuses.
FromKernel(payload) ==
  LET total == uheap_align(Header + payload)
  IN  IF payload > SizeMod - 1 - Header \/ total < payload THEN Null ELSE total

Failed(H) == [heap |-> H, ptr |-> Null]

\* The places where the search of malloc stops.
Hits(H, size) ==
  {i \in DOMAIN H.list :
     \/ H.list[i] \notin DOMAIN H.hdr
     \/ H.hdr[H.list[i]].free /\ H.hdr[H.list[i]].size >= size}

\* The block at place i of the list is given out.
FromList(H, i, size) ==
  LET a == H.list[i]
  IN  [heap |-> Split(SetHeader([H EXCEPT !.list = RemoveAt(@, i)], a, H.hdr[a].size, FALSE),
                      a, size),
       ptr  |-> a + Header]

\* The break moves by total, and what is gained is given out.
FromBreak(H, total, size) ==
  [heap |-> Split(SetHeader([H EXCEPT !.brk = @ + total], H.brk, total - Header, FALSE),
                  H.brk, size),
   ptr  |-> H.brk + Header]

\* malloc: the first block of the list that is large enough, or a new one;
\* granted: the kernel moves the break.
malloc(H, n, granted) ==
  LET size  == uheap_align(n)
      hits  == Hits(H, size)
      total == FromKernel(size)
  IN  IF n = 0 THEN Failed(H)
      ELSE IF hits # {}
      THEN IF H.list[Min(hits)] \notin DOMAIN H.hdr THEN Failed(H)
           ELSE FromList(H, Min(hits), size)
      ELSE IF total = Null \/ ~ granted THEN Failed(H) ELSE FromBreak(H, total, size)

\* Faulty: a block that is free is freed again.
free_Again(H, p) == Coalesce(InsertFree(H, p - Header))

\* free: nothing for a block without its magic, or that is free.
free(H, p) ==
  LET a == p - Header
  IN  IF a \notin DOMAIN H.hdr \/ H.hdr[a].free THEN H ELSE Coalesce(InsertFree(H, a))

\* uheap_remove_free.
RemoveFree(H, b) ==
  [H EXCEPT !.list = RemoveAt(@, Min({i \in DOMAIN H.list : H.list[i] = b}))]

\* The block a grown over the free block behind it.
Grown(H, a) == Merge(RemoveFree(H, End(H, a)), a, End(H, a))

\* The block behind a is free and together they have room for size.  Both
\* lie in the heap, so that their sum does not wrap around.
CanGrow(H, a, size) ==
  LET next == End(H, a)
  IN  /\ next \in DOMAIN H.hdr /\ H.hdr[next].free /\ next \in ToSet(H.list)
      /\ H.hdr[a].size + Header + H.hdr[next].size >= size

-----------------------------------------------------------------------------
(* The clients' calls.                                                     *)

Pointers == {held[o].ptr : o \in {x \in Object : held[x] # Null}}

\* The units that o uses of the n it asked for at p: none beyond its block.
Given(H, p, n) == {a \in p .. p + n - 1 : a < End(H, p - Header)}

\* Memory once the headers of H are written, o uses the units given, has
\* filled those from first on, and has left all others.
Written(H, old, o, given, first) ==
  [a \in DOMAIN data |->
     IF \E b \in DOMAIN H.hdr : a \in b .. b + Header - 1 THEN Null
     ELSE IF a \in given THEN IF a >= first THEN o ELSE old[a]
     ELSE IF old[a] = o THEN Null ELSE old[a]]

\* The conversion to intptr_t: the upper half of the sizes is negative.
Increment(total) == IF total < SizeMod \div 2 THEN total ELSE total - SizeMod

\* For n units sbrk is asked to move the break down.
AsksDown(n) ==
  LET total == FromKernel(uheap_align(n)) IN total # Null /\ Increment(total) < 0

\* Whether the kernel moves the break up for n units, as it may refuse.
Granted(n) == IF FromKernel(uheap_align(n)) = Null \/ AsksDown(n) THEN {FALSE}
              ELSE {FALSE, heap.brk + FromKernel(uheap_align(n)) <= Limit}

\* o gets n units from malloc, or nothing.
Obtain(o, n, H, p) ==
  /\ heap' = H
  /\ held' = IF p = Null THEN held ELSE [held EXCEPT ![o] = [ptr |-> p, size |-> n]]
  /\ data' = IF p = Null THEN data ELSE Written(H, data, o, Given(H, p, n), p)

Malloc(o, n) ==
  /\ held[o] = Null
  /\ \E granted \in Granted(n) :
       LET r == malloc(heap, n, granted) IN Obtain(o, n, r.heap, r.ptr)

\* calloc's test that m * n does not fit into a size_t.
Overflows(m, n) == m > 0 /\ n > (SizeMod - 1) \div m

\* malloc's memory is set to zero, and the client writes over it.
Calloc(o, m, n) ==
  /\ held[o] = Null
  /\ IF Overflows(m, n) THEN UNCHANGED vars
     ELSE \E granted \in Granted((m * n) % SizeMod) :
            LET r == malloc(heap, (m * n) % SizeMod, granted) IN Obtain(o, m * n, r.heap, r.ptr)

\* free, which realloc calls for size 0.
Free(o) ==
  /\ held[o] # Null
  /\ heap' = free(heap, held[o].ptr)
  /\ held' = [held EXCEPT ![o] = Null]
  /\ data' = Written(heap', data, o, {}, 0)

\* A block is freed a second time.
FreeAgain(a) ==
  /\ a \in DOMAIN heap.hdr /\ a + Header \notin Pointers
  /\ heap' = free(heap, a + Header)
  /\ UNCHANGED <<held, data>>

\* Faulty: the copy has the size of the header.
Copied_Header(p, n, size) ==
  [a \in DOMAIN data |-> IF a \in n .. n + Header - 1 THEN data[p + (a - n)] ELSE data[a]]

\* memcpy of size units from p to n.
Copied(p, n, size) ==
  [a \in DOMAIN data |-> IF a \in n .. n + size - 1 THEN data[p + (a - n)] ELSE data[a]]

\* realloc in place: the block is large enough, or grows over the next one.
ReallocInPlace(o, n) ==
  LET p    == held[o].ptr
      a    == p - Header
      size == uheap_align(n)
      H    == IF heap.hdr[a].size >= size THEN heap ELSE Grown(heap, a)
  IN  /\ held[o] # Null
      /\ n # 0
      /\ heap.hdr[a].size >= size \/ CanGrow(heap, a, size)
      /\ heap' = Split(H, a, size)
      /\ held' = [held EXCEPT ![o].size = n]
      /\ data' = Written(heap', data, o, Given(heap', p, n), p + held[o].size)

\* realloc elsewhere: allocate, copy, free; or fail and leave all as it is.
ReallocMove(o, n) ==
  LET p    == held[o].ptr
      a    == p - Header
      size == uheap_align(n)
  IN  /\ held[o] # Null
      /\ n # 0
      /\ ~ (heap.hdr[a].size >= size \/ CanGrow(heap, a, size))
      /\ \E granted \in Granted(size) :
           LET r == malloc(heap, size, granted)
           IN  IF r.ptr = Null THEN UNCHANGED vars
               ELSE /\ heap' = free(r.heap, p)
                    /\ held' = [held EXCEPT ![o] = [ptr |-> r.ptr, size |-> n]]
                    /\ data' = Written(heap', Copied(p, r.ptr, heap.hdr[a].size), o,
                                       Given(heap', r.ptr, n), r.ptr + held[o].size)

\* The kernel moves the break down, as it was asked to in malloc, calloc or
\* realloc of a block that cannot stay.  The old break is taken for a block of
\* n units, behind which the heap has ended: what comes then is not described.
Lower(o, n) ==
  /\ held[o] # Null => ~ (\/ heap.hdr[held[o].ptr - Header].size >= uheap_align(n)
                         \/ CanGrow(heap, held[o].ptr - Header, uheap_align(n)))
  /\ n # 0 /\ Hits(heap, uheap_align(n)) = {}
  /\ AsksDown(n) /\ heap.brk + Increment(FromKernel(uheap_align(n))) >= 0
  /\ lowered' = TRUE
  /\ UNCHANGED <<heap, held, data>>

Call ==
  \/ \E o \in Object :
       \/ \E n \in Sizes : Malloc(o, n) \/ ReallocInPlace(o, n) \/ ReallocMove(o, n)
       \/ \E mn \in Products : Calloc(o, mn[1], mn[2])
       \/ Free(o)
  \/ \E a \in DOMAIN heap.hdr : FreeAgain(a)

Next ==
  /\ ~ lowered
  /\ \/ Call /\ UNCHANGED lowered
     \/ \E o \in Object :
          \/ \E n \in Sizes : Lower(o, n)
          \/ \E mn \in Products : /\ held[o] = Null /\ ~ Overflows(mn[1], mn[2])
                                  /\ Lower(o, mn[1] * mn[2])

Spec == Init /\ [][Next]_vars

-----------------------------------------------------------------------------

\* The type invariant.
TypeOK ==
  /\ heap.brk \in 0 .. Limit
  /\ DOMAIN heap.hdr \subseteq 0 .. Limit - 1
  /\ \A a \in DOMAIN heap.hdr : heap.hdr[a] \in [size : 0 .. Limit, free : BOOLEAN]
  /\ heap.list \in Seq(DOMAIN heap.hdr)
  /\ held \in [Object -> [ptr : 0 .. Limit, size : Nat] \cup {Null}]
  /\ data \in [0 .. Limit - 1 -> Object \cup {Null}]
  /\ lowered \in BOOLEAN

\* The blocks lie end to end from the start of the heap to the break,
\* through any splitting, merging and growing: no two overlap, no unit is
\* lost, and no header survives inside another block.
BlocksTile ==
  LET heads == DOMAIN heap.hdr
      ends  == {End(heap, a) : a \in heads}
  IN  /\ heads \cup {heap.brk} = ends \cup {0}
      /\ \A a, b \in heads : a < b => End(heap, a) <= b

\* Every block is either in the free list, once, in the order of addresses
\* that merging relies on, or in the hands of one client: so none is
\* leaked, none is given out twice, and freeing a block twice does nothing.
FreeOrHeld ==
  LET Offered == {a \in DOMAIN heap.hdr : heap.hdr[a].free}
  IN  /\ ToSet(heap.list) = Offered
      /\ \A i, j \in DOMAIN heap.list : i < j => heap.list[i] < heap.list[j]
      /\ Pointers = {a + Header : a \in DOMAIN heap.hdr \ Offered}
      /\ Cardinality(Pointers) = Cardinality({o \in Object : held[o] # Null})

\* What a client wrote stays as it was while it holds the block, through
\* realloc and whatever others do, and the block has the room it asked for:
\* for sizes up to the largest total that intptr_t holds, for larger ones that
\* the kernel refuses, and for those that wrap around.
ContentsKept ==
  \A o \in Object : held[o] # Null =>
    \A a \in held[o].ptr .. held[o].ptr + held[o].size - 1 : a \in DOMAIN data /\ data[a] = o

\* When everything has been freed the heap is one block again, however it
\* was cut up: memory does not fragment for ever.
AllFreedIsOneBlock ==
  (\A o \in Object : held[o] = Null) => Len(heap.list) <= 1

=============================================================================
