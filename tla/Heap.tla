-------------------------------- MODULE Heap --------------------------------
(***************************************************************************)
(* The kernel heap, memory/heap.c: a doubly linked list of segments, each  *)
(* a header followed by its data, that covers the heap from HeapStart to   *)
(* heap_end without a gap.  A header is found by its address; the segments *)
(* that are still reachable from HeapStart are the domain of seg.          *)
(*                                                                         *)
(* malloc walks the list one segment per step, as the code does; free is   *)
(* one step, nothing runs between its statements.  Every page the heap asks *)
(* for is granted (the code does not look at a NULL from request_page).    *)
(***************************************************************************)
EXTENDS Integers, FiniteSets

CONSTANTS ALIGN,                \* 0x10
          HDR,                  \* sizeof(heap_segment_header)
          PAGE,                 \* 0x1000
          HeapStart,            \* HEAP_START_VIRTUAL
          InitPages,            \* pages given to heap_init
          Sizes,                \* the sizes asked for
          MaxEnd                \* bound on heap_end

NULL == 0

ASSUME HeapAssumption ==
    /\ ALIGN \in Nat \ {0} /\ HDR \in Nat \ {0} /\ PAGE \in Nat
    /\ HeapStart \in Nat \ {0} /\ InitPages \in Nat \ {0} /\ MaxEnd \in Int
    /\ Sizes \subseteq Nat
    /\ HDR + ALIGN <= PAGE

VARIABLES h,                    \* [seg, last_segment, heap_end]
          owned,                \* blocks malloc returned and nobody freed: [ptr, len]
          pc,                   \* "idle", or "search" inside malloc
          size,                 \* malloc's rounded argument
          asked,                \* and what its caller passed
          current               \* the segment malloc looks at

vars == <<h, owned, pc, size, asked, current>>

RoundUp(n, unit) == ((n + unit - 1) \div unit) * unit
End(g, a) == a + HDR + g.seg[a].size

-----------------------------------------------------------------------------
\* The list operations.

\* A header.
Seg(n, nx, la, fr) == [size |-> n, next |-> nx, last |-> la, free |-> fr]

\* Faulty: next->next->last is not redirected.
MutCombineStaleLast(g, a) ==
    LET n == g.seg[a].next
    IN  IF n = NULL \/ ~g.seg[n].free THEN g
        ELSE [seg |-> [b \in DOMAIN g.seg \ {n} |->
                 Seg(IF b = a THEN g.seg[a].size + g.seg[n].size + HDR ELSE g.seg[b].size,
                     IF b = a THEN g.seg[n].next ELSE g.seg[b].next,
                     g.seg[b].last, g.seg[b].free)],
              last_segment |-> IF n = g.last_segment THEN a ELSE g.last_segment,
              heap_end |-> g.heap_end]

\* Absorb the next segment if it is free.
heapseg_combine_fwd(g, a) ==
    LET n == g.seg[a].next
    IN  IF n = NULL \/ ~g.seg[n].free THEN g
        ELSE [seg |-> [b \in DOMAIN g.seg \ {n} |->
                 Seg(IF b = a THEN g.seg[a].size + g.seg[n].size + HDR ELSE g.seg[b].size,
                     IF b = a THEN g.seg[n].next ELSE g.seg[b].next,
                     IF b = g.seg[n].next THEN a ELSE g.seg[b].last,
                     g.seg[b].free)],
              last_segment |-> IF n = g.last_segment THEN a ELSE g.last_segment,
              heap_end |-> g.heap_end]

heapseg_combine_bwd(g, a) ==
    LET p == g.seg[a].last
    IN  IF p # NULL /\ g.seg[p].free THEN heapseg_combine_fwd(g, p) ELSE g

\* Cut segment a at first_size, the second part rest bytes long.
CutAt(g, a, first_size, rest) ==
    LET new == a + first_size + HDR
    IN  [seg |-> [b \in DOMAIN g.seg \cup {new} |->
             IF b = new THEN Seg(rest, g.seg[a].next, a, g.seg[a].free)
             ELSE Seg(IF b = a THEN first_size ELSE g.seg[b].size,
                      IF b = a THEN new ELSE g.seg[b].next,
                      IF b = g.seg[a].next THEN new ELSE g.seg[b].last,
                      g.seg[b].free)],
         last_segment |-> IF g.last_segment = a THEN new ELSE g.last_segment,
         heap_end |-> g.heap_end]

\* Faulty: cut even when the rest cannot hold a header.
MutSplitAlways(g, a, first_size) ==
    IF first_size < ALIGN THEN g
    ELSE CutAt(g, a, first_size, g.seg[a].size - first_size - HDR)

\* Cut a segment in two when the rest can hold a header and ALIGN bytes.
heapseg_split(g, a, first_size) ==
    IF first_size < ALIGN \/ g.seg[a].size - first_size - HDR < ALIGN THEN g
    ELSE CutAt(g, a, first_size, g.seg[a].size - first_size - HDR)

\* segment->free = false, and = true.
set_used(g, a) ==
    [seg |-> [b \in DOMAIN g.seg |-> Seg(g.seg[b].size, g.seg[b].next, g.seg[b].last,
                                         b # a /\ g.seg[b].free)],
     last_segment |-> g.last_segment,
     heap_end |-> g.heap_end]

set_free(g, a) ==
    [seg |-> [b \in DOMAIN g.seg |-> Seg(g.seg[b].size, g.seg[b].next, g.seg[b].last,
                                         b = a \/ g.seg[b].free)],
     last_segment |-> g.last_segment,
     heap_end |-> g.heap_end]

\* The pages added at heap_end, as a segment of their own.
append(g, bytes) ==
    LET new == g.heap_end
    IN  [seg |-> [b \in DOMAIN g.seg \cup {new} |->
             IF b = new THEN Seg(bytes - HDR, NULL, g.last_segment, TRUE)
             ELSE Seg(g.seg[b].size,
                      IF b = g.last_segment THEN new ELSE g.seg[b].next,
                      g.seg[b].last, g.seg[b].free)],
         last_segment |-> new,
         heap_end |-> new + bytes]

\* Faulty: the new segment is not combined with a free last one.
MutExpandNoCombine(g, amount) == append(g, RoundUp(amount, PAGE))

\* Faulty: the amount is rounded down.
MutExpandRoundDown(g, amount) ==
    heapseg_combine_bwd(append(g, (amount \div PAGE) * PAGE), g.heap_end)

expand_heap(g, amount) ==
    heapseg_combine_bwd(append(g, RoundUp(amount, PAGE)), g.heap_end)

heap_init(start, pages) ==
    [seg |-> [b \in {start} |-> Seg(pages * PAGE - HDR, NULL, NULL, TRUE)],
     last_segment |-> start,
     heap_end |-> start + pages * PAGE]

-----------------------------------------------------------------------------
Init == /\ h = heap_init(HeapStart, InitPages)
        /\ owned = {}
        /\ pc = "idle"
        /\ size = 0
        /\ asked = 0
        /\ current = HeapStart

\* The bound MaxEnd: the heap has a segment for the request, or room for the two
\* expansions the call may need.
Room(n) == \/ \E a \in DOMAIN h.seg : h.seg[a].free /\ h.seg[a].size >= RoundUp(n, ALIGN)
           \/ h.heap_end + 2 * RoundUp(RoundUp(n, ALIGN), PAGE) <= MaxEnd

\* malloc up to its loop.  (malloc(0) returns NULL and changes nothing.)
Malloc(n) ==
    /\ pc = "idle" /\ n > 0
    /\ Room(n)
    /\ pc' = "search"
    /\ asked' = n
    /\ size' = RoundUp(n, ALIGN)
    /\ current' = HeapStart
    /\ UNCHANGED <<h, owned>>

\* Faulty: an exact fit is passed over.
MutFits(a) == h.seg[a].free /\ h.seg[a].size > size

\* Faulty: a segment in use is taken.
MutFitsUsed(a) == h.seg[a].size >= size

Fits(a) == h.seg[a].free /\ h.seg[a].size >= size

\* The locals of malloc go with its frame.
Return == pc' = "idle" /\ size' = 0 /\ asked' = 0 /\ current' = HeapStart

\* The segment at hand is large enough: cut it unless the size is exact,
\* return its data.
Take ==
    /\ pc = "search" /\ Fits(current)
    /\ h' = set_used(IF h.seg[current].size > size THEN heapseg_split(h, current, size) ELSE h,
                     current)
    /\ owned' = owned \cup {[ptr |-> current + HDR, len |-> asked]}
    /\ Return

Advance ==
    /\ pc = "search" /\ ~Fits(current)
    /\ h.seg[current].next # NULL
    /\ current' = h.seg[current].next
    /\ UNCHANGED <<h, owned, pc, size, asked>>

\* The end of the list: grow the heap, then malloc calls itself.
Expand ==
    /\ pc = "search" /\ ~Fits(current)
    /\ h.seg[current].next = NULL
    /\ h' = expand_heap(h, size)
    /\ current' = HeapStart
    /\ UNCHANGED <<owned, pc, size, asked>>

\* The owner of a block frees it, once.
Free(b) ==
    /\ pc = "idle"
    /\ h' = LET s == b.ptr - HDR
            IN  heapseg_combine_bwd(heapseg_combine_fwd(set_free(h, s), s), s)
    /\ owned' = owned \ {b}
    /\ UNCHANGED <<pc, size, asked, current>>

Next == \/ \E n \in Sizes : Malloc(n)
        \/ Take
        \/ Advance
        \/ Expand
        \/ \E b \in owned : Free(b)

\* malloc runs on, its caller need not call it.
Fairness == WF_vars(Take) /\ WF_vars(Advance) /\ WF_vars(Expand)

Spec == Init /\ [][Next]_vars /\ Fairness

-----------------------------------------------------------------------------
\* What it means for g to be a well-formed segment list.

Segment == [size : Nat, next : Nat, last : Nat, free : BOOLEAN]

HeapType(g) ==
    /\ DOMAIN g = {"seg", "last_segment", "heap_end"}
    /\ g.seg \in [DOMAIN g.seg -> Segment]
    /\ DOMAIN g.seg \subseteq Nat
    /\ HeapStart \in DOMAIN g.seg
    /\ g.heap_end \in Nat

Tiled(g) ==
    /\ \A a \in DOMAIN g.seg :
          /\ a >= HeapStart
          /\ End(g, a) <= g.heap_end
          /\ End(g, a) = IF g.seg[a].next = NULL THEN g.heap_end ELSE g.seg[a].next
    /\ \A a, b \in DOMAIN g.seg : a < b => End(g, a) <= b

DoublyLinked(g) ==
    /\ g.last_segment \in DOMAIN g.seg
    /\ \A a \in DOMAIN g.seg :
          /\ g.seg[a].next # NULL =>
                g.seg[a].next \in DOMAIN g.seg /\ g.seg[g.seg[a].next].last = a
          /\ g.seg[a].last # NULL =>
                g.seg[a].last \in DOMAIN g.seg /\ g.seg[g.seg[a].last].next = a
          /\ g.seg[a].last = NULL <=> a = HeapStart
          /\ g.seg[a].next = NULL <=> a = g.last_segment

-----------------------------------------------------------------------------
Segs == DOMAIN h.seg

\* Every header the list reaches is a header, and malloc stands on one.
TypeOK ==
    /\ HeapType(h)
    /\ owned \subseteq [ptr : Nat, len : Nat]
    /\ pc \in {"idle", "search"}
    /\ size \in Nat /\ asked \in Nat
    /\ current \in Segs

\* The segments tile the heap: each one ends where its next begins and the
\* last one at heap_end, and no two overlap, whatever was split and combined.
Tiling == Tiled(h)

\* The list is doubly linked, HeapStart is its only head and last_segment its
\* only tail: expand_heap appends behind the last segment, not behind a header
\* that was absorbed.
Linked == DoublyLinked(h)

\* Through any splits, combinations and expansions the list stays well-formed.
WellFormed == Tiling /\ Linked

\* No two neighbours are both free: free and expand_heap combine whatever can
\* be combined, so freed memory can serve a larger request.
Coalesced ==
    \A a \in Segs : h.seg[a].free /\ h.seg[a].next # NULL => ~h.seg[h.seg[a].next].free

\* Every block a caller still holds is the data of a segment of its own that
\* is in use and at least as long as asked; every segment in use is held.
BlocksAreSegments ==
    /\ \A b \in owned : /\ b.ptr - HDR \in Segs
                        /\ ~h.seg[b.ptr - HDR].free
                        /\ b.len <= h.seg[b.ptr - HDR].size
    /\ \A a \in Segs : ~h.seg[a].free => \E b \in owned : b.ptr = a + HDR

\* No byte belongs to two blocks that callers hold, and no block reaches into a
\* header or past the end of the heap.
BlocksDisjoint ==
    /\ \A b \in owned : b.ptr + b.len <= h.heap_end
    /\ \A b, c \in owned : b # c => b.ptr + b.len <= c.ptr \/ c.ptr + c.len <= b.ptr
    /\ \A b \in owned, a \in Segs : a + HDR <= b.ptr \/ b.ptr + b.len <= a

\* The heap grows only when no free segment could have served the request.
GrowsOnlyWhenFull ==
    [][h'.heap_end # h.heap_end =>
          \A a \in Segs : h.seg[a].free => h.seg[a].size < size]_vars

\* malloc returns: one expansion may be too short by a header (the rounded size
\* is a whole number of pages), the second one is joined to it and suffices.
MallocReturns == pc = "search" ~> pc = "idle"
=============================================================================
