----------------------------- MODULE Heap_proofs -----------------------------
(***************************************************************************)
(* The kernel heap keeps its segment list well formed and its blocks apart  *)
(* for every alignment, header size, page size, start address and request.  *)
(* Each list operation is a lemma about one well-formed list; the actions   *)
(* only compose them.                                                       *)
(***************************************************************************)
EXTENDS Heap, TLAPS

Wf(g) == HeapType(g) /\ Tiled(g) /\ DoublyLinked(g)

\* No two free neighbours, unless the first of them is in X.
NoFreePairBut(g, X) ==
    \A a \in DOMAIN g.seg \ X :
        g.seg[a].free /\ g.seg[a].next # NULL => ~g.seg[g.seg[a].next].free

\* r has the segments in use of g, with their sizes.
SameUsed(g, r) ==
    /\ \A a \in DOMAIN g.seg : ~g.seg[a].free =>
          a \in DOMAIN r.seg /\ ~r.seg[a].free /\ r.seg[a].size = g.seg[a].size
    /\ \A a \in DOMAIN r.seg : ~r.seg[a].free => a \in DOMAIN g.seg /\ ~g.seg[a].free

\* The type of one header of a list.
LEMMA HeaderType ==
  ASSUME NEW g, HeapType(g), NEW a \in DOMAIN g.seg
  PROVE  /\ g.seg[a] = Seg(g.seg[a].size, g.seg[a].next, g.seg[a].last, g.seg[a].free)
         /\ a \in Nat
         /\ g.seg[a].size \in Nat /\ g.seg[a].next \in Nat /\ g.seg[a].last \in Nat
         /\ g.seg[a].free \in BOOLEAN
BY DEF HeapType, Segment, Seg

\* The fields of a header.
LEMMA SegFields ==
  \A sz, next, last, free :
     /\ Seg(sz, next, last, free).size = sz
     /\ Seg(sz, next, last, free).next = next
     /\ Seg(sz, next, last, free).last = last
     /\ Seg(sz, next, last, free).free = free
     /\ sz \in Nat /\ next \in Nat /\ last \in Nat /\ free \in BOOLEAN
           => Seg(sz, next, last, free) \in Segment
BY DEF Seg, Segment

\* Every header of a well-formed list lies at or after HeapStart, which is not
\* NULL, and header sizes are positive.
LEMMA Positive ==
  /\ HDR \in Nat /\ HDR > 0 /\ ALIGN \in Nat /\ ALIGN > 0 /\ PAGE \in Nat
  /\ HDR < PAGE /\ HDR + ALIGN <= PAGE
  /\ HeapStart \in Nat /\ HeapStart # NULL
  /\ \A g : Tiled(g) => NULL \notin DOMAIN g.seg
BY HeapAssumption DEF Tiled, NULL

\* Absorbing a free next segment keeps the list well formed, every segment in
\* use where it is, and settles the pair that starts at a.
LEMMA CombineFwd ==
  ASSUME NEW g, Wf(g), NEW a \in DOMAIN g.seg, g.seg[a].free, NEW X,
         NoFreePairBut(g, X \cup {a}), g.seg[a].next # NULL => g.seg[a].next \notin X
  PROVE  /\ Wf(heapseg_combine_fwd(g, a))
         /\ a \in DOMAIN heapseg_combine_fwd(g, a).seg
         /\ heapseg_combine_fwd(g, a).seg[a].free
         /\ heapseg_combine_fwd(g, a).seg[a].last = g.seg[a].last
         /\ \A b \in DOMAIN g.seg : b < a =>
               b \in DOMAIN heapseg_combine_fwd(g, a).seg
         /\ heapseg_combine_fwd(g, a).heap_end = g.heap_end
         /\ SameUsed(g, heapseg_combine_fwd(g, a))
         /\ NoFreePairBut(heapseg_combine_fwd(g, a), X \ {a})
<1> DEFINE n == g.seg[a].next
           nn == g.seg[n].next
           r == heapseg_combine_fwd(g, a)
<1> USE Positive
<1>1. CASE n = NULL \/ ~g.seg[n].free
  <2>1. r = g BY <1>1 DEF heapseg_combine_fwd
  <2>2. NoFreePairBut(g, X \ {a})
    BY <1>1 DEF NoFreePairBut
  <2> QED BY <2>1, <2>2 DEF SameUsed
<1>2. CASE ~(n = NULL \/ ~g.seg[n].free)
  <2> DEFINE D == DOMAIN g.seg
  <2>0. /\ a \in D /\ n \in D /\ g.seg[n].last = a /\ n = End(g, a) /\ g.seg[n].free
        /\ n # NULL /\ a # NULL
    BY <1>2 DEF Wf, DoublyLinked, Tiled
  <2>1. \A b \in D : /\ b \in Nat /\ g.seg[b].size \in Nat /\ g.seg[b].next \in Nat
                     /\ g.seg[b].last \in Nat /\ g.seg[b].free \in BOOLEAN
                     /\ End(g, b) = b + HDR + g.seg[b].size /\ End(g, b) > b
    BY HeaderType DEF Wf, End
  <2>2. /\ n > a /\ n # a /\ nn # a /\ nn # n
        /\ nn # NULL => nn \in D /\ g.seg[nn].last = n /\ nn = End(g, n)
        /\ nn = NULL => End(g, n) = g.heap_end /\ n = g.last_segment
    BY <2>0, <2>1 DEF Wf, DoublyLinked, Tiled
  <2>3. /\ DOMAIN r = {"seg", "last_segment", "heap_end"}
        /\ DOMAIN r.seg = D \ {n} /\ r.heap_end = g.heap_end
        /\ r.last_segment = IF n = g.last_segment THEN a ELSE g.last_segment
        /\ \A b \in D \ {n} : r.seg[b] = Seg(
                 IF b = a THEN g.seg[a].size + g.seg[n].size + HDR ELSE g.seg[b].size,
                 IF b = a THEN nn ELSE g.seg[b].next,
                 IF b = nn THEN a ELSE g.seg[b].last,
                 g.seg[b].free)
        /\ r.seg = [b \in D \ {n} |-> r.seg[b]]
    BY <1>2 DEF heapseg_combine_fwd
  <2> HIDE DEF r, D, n, nn
  <2>4. \A b \in D \ {n} :
           /\ r.seg[b].size = IF b = a THEN g.seg[a].size + g.seg[n].size + HDR ELSE g.seg[b].size
           /\ r.seg[b].next = IF b = a THEN nn ELSE g.seg[b].next
           /\ r.seg[b].last = IF b = nn THEN a ELSE g.seg[b].last
           /\ r.seg[b].free = g.seg[b].free
    BY <2>3, SegFields
  <2>5. \A b \in D \ {n} : End(r, b) = IF b = a THEN End(g, n) ELSE End(g, b)
    BY <2>0, <2>1, <2>4 DEF End
  <2>6. HeapType(r)
    <3>1. \A b \in D \ {n} : r.seg[b] \in Segment
      <4>1. g.seg[n].size \in Nat /\ g.seg[a].size \in Nat /\ nn \in Nat /\ a \in Nat
        BY <2>0, <2>1 DEF n, nn, D
      <4> TAKE b \in D \ {n}
      <4>2. r.seg[b].size \in Nat /\ r.seg[b].next \in Nat /\ r.seg[b].last \in Nat /\ r.seg[b].free \in BOOLEAN
        BY <2>1, <2>4, <4>1, Positive
      <4> QED BY <2>3, <4>2, SegFields
    <3>2. r.seg \in [D \ {n} -> Segment] BY <2>3, <3>1
    <3>3. HeapStart # n BY <2>0, <2>2 DEF Wf, Tiled, D, HeapType
    <3> QED BY <2>3, <3>2, <3>3 DEF Wf, HeapType, D
  <2>7. Tiled(r)
    <3>1. ASSUME NEW b \in D \ {n}
          PROVE /\ b >= HeapStart
                /\ End(r, b) <= r.heap_end
                /\ End(r, b) = IF r.seg[b].next = NULL THEN r.heap_end ELSE r.seg[b].next
      <4>1. /\ b >= HeapStart /\ End(g, b) <= g.heap_end
            /\ End(g, b) = IF g.seg[b].next = NULL THEN g.heap_end ELSE g.seg[b].next
            /\ End(g, n) <= g.heap_end
            /\ End(g, n) = IF nn = NULL THEN g.heap_end ELSE nn
        BY <2>0 DEF Wf, Tiled, D, nn
      <4> QED BY <2>0, <2>3, <2>4, <2>5, <4>1
    <3>2. ASSUME NEW b \in D \ {n}, NEW c \in D \ {n}, b < c
          PROVE End(r, b) <= c
      <4>1. CASE b # a BY <2>5, <3>2, <4>1 DEF Wf, Tiled, D
      <4>2. CASE b = a
        <5>1. n <= c BY <2>0, <3>2, <4>2 DEF Wf, Tiled, D
        <5>2. n < c BY <2>0, <2>1, <3>2, <5>1
        <5> QED BY <2>0, <2>5, <4>2, <5>2 DEF Wf, Tiled, D
      <4> QED BY <4>1, <4>2
    <3> QED BY <2>3, <3>1, <3>2 DEF Tiled
  <2>8. DoublyLinked(r)
    <3>1. r.last_segment \in D \ {n}
      BY <2>0, <2>2, <2>3 DEF Wf, DoublyLinked, D
    <3>2. ASSUME NEW b \in D \ {n}, r.seg[b].next # NULL
          PROVE r.seg[b].next \in D \ {n} /\ r.seg[r.seg[b].next].last = b
      <4>1. CASE b = a BY <2>2, <2>4, <3>2, <4>1
      <4>2. CASE b # a
        <5>1. /\ r.seg[b].next = g.seg[b].next /\ g.seg[b].next \in D
              /\ g.seg[g.seg[b].next].last = b
          BY <2>4, <3>2, <4>2 DEF Wf, DoublyLinked, D
        <5>2. g.seg[b].next # n /\ g.seg[b].next # nn
          BY <2>0, <2>2, <3>2, <4>2, <5>1
        <5> QED BY <2>4, <5>1, <5>2
      <4> QED BY <4>1, <4>2
    <3>3. ASSUME NEW b \in D \ {n}, r.seg[b].last # NULL
          PROVE r.seg[b].last \in D \ {n} /\ r.seg[r.seg[b].last].next = b
      <4>1. CASE b = nn
        <5>1. r.seg[b].last = a /\ r.seg[a].next = nn BY <2>0, <2>2, <2>4, <4>1
        <5> QED BY <2>0, <2>2, <4>1, <5>1
      <4>2. CASE b # nn
        <5>1. /\ r.seg[b].last = g.seg[b].last /\ g.seg[b].last \in D
              /\ g.seg[g.seg[b].last].next = b
          BY <2>4, <3>3, <4>2 DEF Wf, DoublyLinked, D
        <5>2. g.seg[b].last # n /\ g.seg[b].last # a
          BY <3>3, <4>2, <5>1 DEF n, nn
        <5> QED BY <2>4, <5>1, <5>2
      <4> QED BY <4>1, <4>2
    <3>4. ASSUME NEW b \in D \ {n}
          PROVE /\ r.seg[b].last = NULL <=> b = HeapStart
                /\ r.seg[b].next = NULL <=> b = r.last_segment
      <4>1. r.seg[b].last = NULL <=> g.seg[b].last = NULL
        <5>1. CASE b = nn
          <6>1. nn # NULL BY <5>1 DEF Wf, D
          <6> QED BY <2>0, <2>2, <2>4, <5>1, <6>1
        <5>2. CASE b # nn BY <2>4, <5>2
        <5> QED BY <5>1, <5>2
      <4>2. r.seg[b].next = NULL <=> b = r.last_segment
        <5>1. \A c \in D : g.seg[c].next = NULL <=> c = g.last_segment
          BY DEF Wf, DoublyLinked, D
        <5>2. nn = NULL <=> n = g.last_segment BY <2>0, <5>1 DEF nn
        <5>3. a # g.last_segment BY <2>0, <5>1 DEF n
        <5>4. CASE b = a BY <2>0, <2>2, <2>3, <2>4, <5>2, <5>3, <5>4
        <5>5. CASE b # a BY <2>0, <2>3, <2>4, <5>1, <5>2, <5>3, <5>5
        <5> QED BY <5>4, <5>5
      <4> QED BY <4>1, <4>2 DEF Wf, DoublyLinked, D
    <3> QED BY <2>3, <3>1, <3>2, <3>3, <3>4 DEF DoublyLinked
  <2>9. NoFreePairBut(r, X \ {a})
    <3> SUFFICES ASSUME NEW b \in (D \ {n}) \ (X \ {a}), r.seg[b].free, r.seg[b].next # NULL
                 PROVE  ~r.seg[r.seg[b].next].free
      BY <2>3 DEF NoFreePairBut
    <3>1. CASE b = a
      <4>1. n \in D \ (X \cup {a}) BY <2>0, <2>2 DEF n
      <4>2. nn # NULL /\ r.seg[b].next = nn BY <2>4, <3>1
      <4>3. ~g.seg[nn].free BY <2>0, <4>1, <4>2 DEF NoFreePairBut, D, nn
      <4> QED BY <2>2, <2>4, <4>2, <4>3
    <3>2. CASE b # a
      <4>1. r.seg[b].next = g.seg[b].next /\ g.seg[b].free BY <2>4, <3>2
      <4>2. ~g.seg[g.seg[b].next].free /\ g.seg[b].next \in D
        BY <3>2, <4>1 DEF NoFreePairBut, D, Wf, DoublyLinked
      <4>3. g.seg[b].next # n BY <2>0, <4>2
      <4> QED BY <2>4, <4>1, <4>2, <4>3
    <3> QED BY <3>1, <3>2
  <2>10. SameUsed(g, r) BY <2>0, <2>3, <2>4 DEF SameUsed, D
  <2>11. a \in D \ {n} /\ r.seg[a].free /\ r.seg[a].last = g.seg[a].last
    BY <2>0, <2>2, <2>4
  <2>12. \A b \in D : b < a => b \in D \ {n} BY <2>1, <2>2 DEF D
  <2> QED BY <2>3, <2>6, <2>7, <2>8, <2>9, <2>10, <2>11, <2>12 DEF Wf, D, r
<1> QED BY <1>1, <1>2

\* Absorbing into the segment before does the same one step to the left.
LEMMA CombineBwd ==
  ASSUME NEW g, Wf(g), NEW a \in DOMAIN g.seg, NoFreePairBut(g, {g.seg[a].last})
  PROVE  /\ Wf(heapseg_combine_bwd(g, a))
         /\ heapseg_combine_bwd(g, a).heap_end = g.heap_end
         /\ SameUsed(g, heapseg_combine_bwd(g, a))
         /\ NoFreePairBut(heapseg_combine_bwd(g, a), {})
<1> DEFINE p == g.seg[a].last
           r == heapseg_combine_bwd(g, a)
<1>1. CASE p # NULL /\ g.seg[p].free
  <2>1. r = heapseg_combine_fwd(g, p) BY <1>1 DEF heapseg_combine_bwd
  <2>2. p \in DOMAIN g.seg BY <1>1 DEF Wf, DoublyLinked
  <2>3. NoFreePairBut(g, {} \cup {p}) /\ g.seg[p].next \notin {}
    <3>1. {} \cup {p} = {p} OBVIOUS
    <3> QED BY <3>1
  <2>4. g.seg[p].free BY <1>1
  <2> HIDE DEF p, r
  <2>5. /\ Wf(r) /\ r.heap_end = g.heap_end /\ SameUsed(g, r)
        /\ NoFreePairBut(r, {} \ {p})
    BY <2>1, <2>2, <2>3, <2>4, CombineFwd
  <2>6. {} \ {p} = {} OBVIOUS
  <2> QED BY <2>5, <2>6 DEF r
<1>2. CASE ~(p # NULL /\ g.seg[p].free)
  <2>1. r = g BY <1>2 DEF heapseg_combine_bwd
  <2>2. NULL \notin DOMAIN g.seg BY Positive DEF Wf
  <2>3. NoFreePairBut(g, {}) BY <1>2, <2>2 DEF NoFreePairBut
  <2> QED BY <2>1, <2>3 DEF SameUsed
<1> QED BY <1>1, <1>2

\* A list with the headers of g, but for their marks, is as well formed as g.
LEMMA SameShape ==
  ASSUME NEW g, Wf(g), NEW r, HeapType(r), DOMAIN r.seg = DOMAIN g.seg,
         r.heap_end = g.heap_end, r.last_segment = g.last_segment,
         \A b \in DOMAIN g.seg : /\ r.seg[b].size = g.seg[b].size
                                 /\ r.seg[b].next = g.seg[b].next
                                 /\ r.seg[b].last = g.seg[b].last
  PROVE  Wf(r)
<1> DEFINE D == DOMAIN g.seg
<1>1. \A b \in D : End(r, b) = End(g, b) BY DEF End
<1>2. Tiled(r) BY <1>1 DEF Wf, Tiled
<1>3. DoublyLinked(r)
  <2>1. /\ g.last_segment \in D
        /\ \A b \in D : /\ g.seg[b].next # NULL => g.seg[b].next \in D /\ g.seg[g.seg[b].next].last = b
                        /\ g.seg[b].last # NULL => g.seg[b].last \in D /\ g.seg[g.seg[b].last].next = b
                        /\ g.seg[b].last = NULL <=> b = HeapStart
                        /\ g.seg[b].next = NULL <=> b = g.last_segment
    BY DEF Wf, DoublyLinked
  <2> HIDE DEF D
  <2> SUFFICES /\ r.last_segment \in D
               /\ \A b \in D : /\ r.seg[b].next # NULL => r.seg[b].next \in D /\ r.seg[r.seg[b].next].last = b
                               /\ r.seg[b].last # NULL => r.seg[b].last \in D /\ r.seg[r.seg[b].last].next = b
                               /\ r.seg[b].last = NULL <=> b = HeapStart
                               /\ r.seg[b].next = NULL <=> b = r.last_segment
    BY DEF DoublyLinked, D
  <2> QED BY <2>1 DEF D
<1> QED BY <1>2, <1>3 DEF Wf

\* Marking a segment as in use changes nothing but its mark.
LEMMA SetUsed ==
  ASSUME NEW g, Wf(g), NEW a \in DOMAIN g.seg, NEW r, r = set_used(g, a)
  PROVE  /\ Wf(r) /\ DOMAIN r.seg = DOMAIN g.seg /\ r.heap_end = g.heap_end
         /\ ~r.seg[a].free
         /\ \A b \in DOMAIN g.seg :
               /\ r.seg[b].size = g.seg[b].size /\ r.seg[b].next = g.seg[b].next
               /\ r.seg[b].last = g.seg[b].last
               /\ b # a => r.seg[b].free = g.seg[b].free
<1> DEFINE D == DOMAIN g.seg
<1>1. /\ DOMAIN r = {"seg", "last_segment", "heap_end"}
      /\ DOMAIN r.seg = D /\ r.heap_end = g.heap_end /\ r.last_segment = g.last_segment
      /\ r.seg = [b \in D |-> r.seg[b]]
  BY DEF set_used
<1>2. \A b \in D : /\ r.seg[b].size = g.seg[b].size /\ r.seg[b].next = g.seg[b].next
                   /\ r.seg[b].last = g.seg[b].last
                   /\ r.seg[b].free = (b # a /\ g.seg[b].free)
  BY DEF set_used, Seg
<1>3. \A b \in D : r.seg[b] \in Segment BY DEF set_used, Seg, Wf, HeapType, Segment
<1>4. HeapType(r)
  <2>1. r.seg \in [D -> Segment] BY <1>1, <1>3
  <2> QED BY <1>1, <2>1 DEF Wf, HeapType
<1>5. \A b \in D : b # a => r.seg[b].free = g.seg[b].free
  BY DEF set_used, Seg, Wf, HeapType, Segment
<1>6. Wf(r)
  <2>1. \A b \in D : /\ r.seg[b].size = g.seg[b].size /\ r.seg[b].next = g.seg[b].next
                     /\ r.seg[b].last = g.seg[b].last
    BY <1>2
  <2> QED BY <1>1, <1>4, <2>1, SameShape
<1>7. ~r.seg[a].free BY <1>2
<1> QED BY <1>1, <1>2, <1>5, <1>6, <1>7

\* Marking a segment as free changes nothing but its mark.
LEMMA SetFree ==
  ASSUME NEW g, Wf(g), NEW a \in DOMAIN g.seg, NEW r, r = set_free(g, a)
  PROVE  /\ Wf(r) /\ DOMAIN r.seg = DOMAIN g.seg /\ r.heap_end = g.heap_end
         /\ r.seg[a].free
         /\ \A b \in DOMAIN g.seg :
               /\ r.seg[b].size = g.seg[b].size /\ r.seg[b].next = g.seg[b].next
               /\ r.seg[b].last = g.seg[b].last
               /\ b # a => r.seg[b].free = g.seg[b].free
<1> DEFINE D == DOMAIN g.seg
<1>1. /\ DOMAIN r = {"seg", "last_segment", "heap_end"}
      /\ DOMAIN r.seg = D /\ r.heap_end = g.heap_end /\ r.last_segment = g.last_segment
      /\ r.seg = [b \in D |-> r.seg[b]]
  BY DEF set_free
<1>2. \A b \in D : /\ r.seg[b].size = g.seg[b].size /\ r.seg[b].next = g.seg[b].next
                   /\ r.seg[b].last = g.seg[b].last
                   /\ r.seg[b].free = (b = a \/ g.seg[b].free)
  BY DEF set_free, Seg
<1>3. \A b \in D : r.seg[b] \in Segment BY DEF set_free, Seg, Wf, HeapType, Segment
<1>4. HeapType(r)
  <2>1. r.seg \in [D -> Segment] BY <1>1, <1>3
  <2> QED BY <1>1, <2>1 DEF Wf, HeapType
<1>5. \A b \in D : b # a => r.seg[b].free = g.seg[b].free
  BY DEF set_free, Seg, Wf, HeapType, Segment
<1>6. Wf(r) BY <1>1, <1>2, <1>4, SameShape
<1>7. r.seg[a].free BY <1>2
<1> QED BY <1>1, <1>2, <1>5, <1>6, <1>7

\* Rounding a positive number up to a unit.
LEMMA RoundUpLemma ==
  ASSUME NEW n \in Nat \ {0}, NEW u \in Nat \ {0}
  PROVE  RoundUp(n, u) \in Nat /\ RoundUp(n, u) >= n /\ RoundUp(n, u) >= u
<1> DEFINE q == (n + u - 1) \div u
<1>1. q \in Int /\ u * q <= n + u - 1 /\ n + u - 1 < u * q + u
  <2>1. \A k \in Nat, d \in Nat \ {0} :
           k \div d \in Int /\ d * (k \div d) <= k /\ k < d * (k \div d) + d
    BY SMTT(60)
  <2> QED BY <2>1
<1>2. q >= 1
  <2>1. u * q > 0 BY <1>1
  <2>2. \A x \in Int, d \in Nat \ {0} : d * x > 0 => x >= 1 BY SMTT(60)
  <2> QED BY <1>1, <2>1, <2>2
<1>3. q * u = u * q /\ u * q \in Int BY <1>1
<1>4. u * q >= n BY <1>1, <1>3
<1>5. u * q >= u
  <2>1. \A x \in Int, d \in Nat \ {0} : x >= 1 => d * x >= d BY SMTT(60)
  <2> QED BY <1>1, <1>2, <2>1
<1> QED BY <1>1, <1>3, <1>4, <1>5 DEF RoundUp

\* The types of the headers of a list.
LEMMA HeaderFields ==
  ASSUME NEW g, HeapType(g)
  PROVE  \A b \in DOMAIN g.seg :
            /\ b \in Nat /\ g.seg[b].size \in Nat /\ g.seg[b].next \in Nat
            /\ g.seg[b].last \in Nat /\ g.seg[b].free \in BOOLEAN
            /\ End(g, b) = b + HDR + g.seg[b].size /\ End(g, b) \in Nat /\ End(g, b) > b + HDR - 1
BY HeaderType, Positive DEF End

\* Splitting a free segment at n bytes leaves n bytes or more in it; only the
\* pair it forms with the new segment is free on both sides.
LEMMA Split ==
  ASSUME NEW g, Wf(g), NEW a \in DOMAIN g.seg, g.seg[a].free, NEW n \in Nat,
         g.seg[a].size > n, NoFreePairBut(g, {})
  PROVE  LET r == heapseg_split(g, a, n)
         IN  /\ Wf(r) /\ a \in DOMAIN r.seg
             /\ r.seg[a].free /\ r.seg[a].size >= n
             /\ r.heap_end = g.heap_end
             /\ SameUsed(g, r) /\ NoFreePairBut(r, {a})
<1> DEFINE D == DOMAIN g.seg
           new == a + n + HDR
           rest == g.seg[a].size - n - HDR
           nx == g.seg[a].next
           r == heapseg_split(g, a, n)
<1> USE Positive
<1>0. /\ a \in D /\ a \in Nat /\ g.seg[a].size \in Nat
      /\ \A b \in D : /\ b \in Nat /\ g.seg[b].size \in Nat /\ g.seg[b].next \in Nat
                      /\ g.seg[b].last \in Nat /\ g.seg[b].free \in BOOLEAN
                      /\ End(g, b) = b + HDR + g.seg[b].size /\ End(g, b) \in Nat /\ End(g, b) > b
  BY HeaderFields DEF Wf
<1>1. CASE n < ALIGN \/ rest < ALIGN
  <2>1. r = g BY <1>1 DEF heapseg_split
  <2> QED BY <1>0, <2>1 DEF SameUsed, NoFreePairBut
<1>2. CASE ~(n < ALIGN \/ rest < ALIGN)
  <2>1. /\ rest \in Nat /\ rest > 0 /\ n > 0 /\ new \in Nat
        /\ a < new /\ a # new /\ new < End(g, a) /\ new + HDR + rest = End(g, a)
    BY <1>0, <1>2
  <2>2. new \notin D BY <1>0, <2>1 DEF Wf, Tiled
  <2>3. /\ DOMAIN r = {"seg", "last_segment", "heap_end"}
        /\ DOMAIN r.seg = D \cup {new} /\ r.heap_end = g.heap_end
        /\ r.last_segment = IF g.last_segment = a THEN new ELSE g.last_segment
        /\ r.seg[new] = Seg(rest, nx, a, g.seg[a].free)
        /\ \A b \in D : r.seg[b] = Seg(IF b = a THEN n ELSE g.seg[b].size,
                                       IF b = a THEN new ELSE g.seg[b].next,
                                       IF b = nx THEN new ELSE g.seg[b].last,
                                       g.seg[b].free)
        /\ r.seg = [b \in D \cup {new} |-> r.seg[b]]
    <3>1. r = CutAt(g, a, n, rest) BY <1>2 DEF heapseg_split
    <3>2. r = [seg |-> [b \in D \cup {new} |->
                   IF b = new THEN Seg(rest, nx, a, g.seg[a].free)
                   ELSE Seg(IF b = a THEN n ELSE g.seg[b].size,
                            IF b = a THEN new ELSE g.seg[b].next,
                            IF b = nx THEN new ELSE g.seg[b].last,
                            g.seg[b].free)],
                 last_segment |-> IF g.last_segment = a THEN new ELSE g.last_segment,
                 heap_end |-> g.heap_end]
      BY <3>1 DEF CutAt
    <3> HIDE DEF r, D, new, rest, nx
    <3>3. /\ DOMAIN r = {"seg", "last_segment", "heap_end"}
          /\ DOMAIN r.seg = D \cup {new} /\ r.heap_end = g.heap_end
          /\ r.last_segment = IF g.last_segment = a THEN new ELSE g.last_segment
      BY <3>2
    <3>4. r.seg = [b \in D \cup {new} |->
                   IF b = new THEN Seg(rest, nx, a, g.seg[a].free)
                   ELSE Seg(IF b = a THEN n ELSE g.seg[b].size,
                            IF b = a THEN new ELSE g.seg[b].next,
                            IF b = nx THEN new ELSE g.seg[b].last,
                            g.seg[b].free)]
      BY <3>2
    <3>5. /\ r.seg[new] = Seg(rest, nx, a, g.seg[a].free)
          /\ \A b \in D : b # new
      BY <2>2, <3>4
    <3>6. \A b \in D : r.seg[b] = Seg(IF b = a THEN n ELSE g.seg[b].size,
                                       IF b = a THEN new ELSE g.seg[b].next,
                                       IF b = nx THEN new ELSE g.seg[b].last,
                                       g.seg[b].free)
      BY <3>4, <3>5
    <3>7. r.seg = [b \in D \cup {new} |-> r.seg[b]] BY <3>4
    <3> QED BY <3>3, <3>5, <3>6, <3>7
  <2> HIDE DEF r, D, new, rest, nx
  <2>13. /\ r.seg[new].size = rest /\ r.seg[new].next = nx /\ r.seg[new].last = a
         /\ r.seg[new].free = TRUE
    <3>1. g.seg[a].free = TRUE BY <1>0
    <3>2. r.seg[new] = Seg(rest, nx, a, TRUE) BY <2>3, <3>1
    <3> QED BY <3>2 DEF Seg
  <2>4. /\ r.seg[new].size = rest /\ r.seg[new].next = nx /\ r.seg[new].last = a
        /\ r.seg[new].free
        /\ \A b \in D : /\ r.seg[b].size = IF b = a THEN n ELSE g.seg[b].size
                        /\ r.seg[b].next = IF b = a THEN new ELSE g.seg[b].next
                        /\ r.seg[b].last = IF b = nx THEN new ELSE g.seg[b].last
                        /\ r.seg[b].free = g.seg[b].free
    <3>1. ASSUME NEW b \in D
          PROVE  /\ r.seg[b].size = IF b = a THEN n ELSE g.seg[b].size
                 /\ r.seg[b].next = IF b = a THEN new ELSE g.seg[b].next
                 /\ r.seg[b].last = IF b = nx THEN new ELSE g.seg[b].last
                 /\ r.seg[b].free = g.seg[b].free
      <4>1. r.seg[b] = Seg(IF b = a THEN n ELSE g.seg[b].size,
                           IF b = a THEN new ELSE g.seg[b].next,
                           IF b = nx THEN new ELSE g.seg[b].last,
                           g.seg[b].free)
        BY <2>3
      <4> QED BY <4>1, SegFields
    <3> QED BY <2>13, <3>1
  <2>5. /\ End(r, new) = End(g, a)
        /\ \A b \in D : End(r, b) = IF b = a THEN new ELSE End(g, b)
    BY <1>0, <2>1, <2>2, <2>4 DEF End, new
  <2>6. /\ nx # a
        /\ nx # NULL => nx \in D /\ g.seg[nx].last = a /\ nx = End(g, a)
        /\ nx = NULL <=> a = g.last_segment
        /\ nx = NULL => End(g, a) = g.heap_end
        /\ nx \in Nat /\ nx # new /\ NULL \notin D /\ new # NULL
    <3>1. /\ nx # NULL => nx \in D /\ g.seg[nx].last = a
          /\ nx = NULL <=> a = g.last_segment
          /\ End(g, a) = IF nx = NULL THEN g.heap_end ELSE nx
      BY DEF Wf, DoublyLinked, Tiled, nx, D
    <3>2. nx \in Nat /\ NULL \notin D BY <1>0 DEF Wf, nx, D
    <3>3. new # NULL BY <1>0, <2>1 DEF NULL
    <3>4. nx # a BY <1>0, <3>1, <3>2
    <3> QED BY <1>0, <2>1, <2>2, <3>1, <3>2, <3>3, <3>4
  <2>7. HeapType(r)
    <3>1. ASSUME NEW b \in D \cup {new} PROVE r.seg[b] \in Segment
      <4>1. CASE b = new
        <5>1. r.seg[new] = Seg(rest, nx, a, g.seg[a].free) BY <2>3
        <5>2. g.seg[a].free \in BOOLEAN /\ rest \in Nat /\ nx \in Nat /\ a \in Nat
          BY <1>0, <2>1, <2>6
        <5> QED BY <4>1, <5>1, <5>2 DEF Seg, Segment
      <4>2. CASE b \in D
        <5>1. /\ (IF b = a THEN n ELSE g.seg[b].size) \in Nat
              /\ (IF b = a THEN new ELSE g.seg[b].next) \in Nat
              /\ (IF b = nx THEN new ELSE g.seg[b].last) \in Nat
              /\ g.seg[b].free \in BOOLEAN
          BY <1>0, <2>1, <4>2
        <5> QED BY <2>3, <4>2, <5>1, SegFields
      <4> QED BY <4>1, <4>2
    <3>2. r.seg \in [D \cup {new} -> Segment] BY <2>3, <3>1
    <3> QED BY <2>1, <2>3, <3>2 DEF Wf, HeapType, D
  <2>8. Tiled(r)
    <3>1. \A b \in D : /\ b >= HeapStart /\ End(g, b) <= g.heap_end
                       /\ End(g, b) = IF g.seg[b].next = NULL THEN g.heap_end ELSE g.seg[b].next
      BY DEF Wf, Tiled, D
    <3>2. g.heap_end \in Nat BY DEF Wf, HeapType
    <3>3. ASSUME NEW b \in D \cup {new}
          PROVE /\ b >= HeapStart
                /\ End(r, b) <= r.heap_end
                /\ End(r, b) = IF r.seg[b].next = NULL THEN r.heap_end ELSE r.seg[b].next
      <4>1. CASE b = new
        <5>1. End(r, b) = End(g, a) /\ r.seg[b].next = nx BY <2>4, <2>5, <4>1
        <5>2. End(g, a) <= g.heap_end /\ End(g, a) = IF nx = NULL THEN g.heap_end ELSE nx
          BY <1>0, <2>6, <3>1
        <5>3. new >= HeapStart BY <1>0, <2>1, <3>1
        <5> QED BY <2>3, <4>1, <5>1, <5>2, <5>3
      <4>2. CASE b = a BY <1>0, <2>1, <2>3, <2>4, <2>5, <2>6, <3>1, <3>2, <4>2
      <4>3. CASE b \in D \ {a} BY <2>3, <2>4, <2>5, <3>1, <4>3
      <4> QED BY <4>1, <4>2, <4>3
    <3>4. \A b, c \in D : b < c => End(g, b) <= c BY DEF Wf, Tiled, D
    <3>5. ASSUME NEW b \in D \cup {new}, NEW c \in D \cup {new}, b < c
          PROVE End(r, b) <= c
      <4>1. CASE b = new /\ c \in D
        <5>1. a < c BY <1>0, <2>1, <3>5, <4>1
        <5> QED BY <1>0, <2>5, <3>4, <4>1, <5>1
      <4>2. CASE b \in D /\ c = new
        <5>1. CASE b = a BY <1>0, <2>1, <2>5, <4>2, <5>1
        <5>2. CASE b < a
          <6>1. End(g, b) <= a BY <1>0, <3>4, <4>2, <5>2
          <6> QED BY <1>0, <2>1, <2>5, <4>2, <5>2, <6>1
        <5>3. CASE b > a
          <6>1. End(g, a) <= b BY <1>0, <3>4, <4>2, <5>3
          <6> QED BY <1>0, <2>1, <3>5, <4>2, <6>1
        <5> QED BY <1>0, <4>2, <5>1, <5>2, <5>3
      <4>3. CASE b \in D /\ c \in D
        <5>1. CASE b = a
          <6>1. End(g, a) <= c BY <1>0, <3>4, <3>5, <4>3, <5>1
          <6> QED BY <1>0, <2>1, <2>5, <4>3, <5>1, <6>1
        <5>2. CASE b # a BY <2>5, <3>4, <3>5, <4>3, <5>2
        <5> QED BY <5>1, <5>2
      <4>4. CASE b = new /\ c = new BY <2>1, <3>5, <4>4
      <4> QED BY <4>1, <4>2, <4>3, <4>4
    <3> QED BY <2>3, <3>3, <3>5 DEF Tiled
  <2>9. DoublyLinked(r)
    <3>1. /\ g.last_segment \in D
          /\ \A b \in D : /\ g.seg[b].next # NULL => g.seg[b].next \in D /\ g.seg[g.seg[b].next].last = b
                          /\ g.seg[b].last # NULL => g.seg[b].last \in D /\ g.seg[g.seg[b].last].next = b
                          /\ g.seg[b].last = NULL <=> b = HeapStart
                          /\ g.seg[b].next = NULL <=> b = g.last_segment
      BY DEF Wf, DoublyLinked, D
    <3>2. r.last_segment \in D \cup {new} BY <2>3, <3>1
    <3>3. ASSUME NEW b \in D \cup {new}, r.seg[b].next # NULL
          PROVE r.seg[b].next \in D \cup {new} /\ r.seg[r.seg[b].next].last = b
      <4>1. CASE b = new BY <2>4, <2>6, <3>3, <4>1
      <4>2. CASE b = a BY <1>0, <2>4, <4>2
      <4>3. CASE b \in D \ {a}
        <5>1. r.seg[b].next = g.seg[b].next /\ g.seg[b].next \in D /\ g.seg[g.seg[b].next].last = b
          BY <2>4, <3>1, <3>3, <4>3
        <5>2. g.seg[b].next # nx BY <2>6, <3>3, <4>3, <5>1
        <5> QED BY <2>4, <5>1, <5>2
      <4> QED BY <4>1, <4>2, <4>3
    <3>4. ASSUME NEW b \in D \cup {new}, r.seg[b].last # NULL
          PROVE r.seg[b].last \in D \cup {new} /\ r.seg[r.seg[b].last].next = b
      <4>1. CASE b = new BY <1>0, <2>4, <4>1
      <4>2. CASE b = nx /\ b \in D BY <2>4, <4>2
      <4>3. CASE b \in D \ {nx}
        <5>1. r.seg[b].last = g.seg[b].last /\ g.seg[b].last \in D /\ g.seg[g.seg[b].last].next = b
          BY <2>4, <3>1, <3>4, <4>3
        <5>2. g.seg[b].last # a BY <4>3, <5>1 DEF nx
        <5> QED BY <2>4, <5>1, <5>2
      <4> QED BY <4>1, <4>2, <4>3
    <3>5. ASSUME NEW b \in D \cup {new}
          PROVE /\ r.seg[b].last = NULL <=> b = HeapStart
                /\ r.seg[b].next = NULL <=> b = r.last_segment
      <4>0. HeapStart \in D BY DEF Wf, HeapType, D
      <4>1. CASE b = new
        <5>1. b # HeapStart /\ r.seg[b].last = a /\ a # NULL BY <1>0, <2>2, <2>4, <2>6, <4>0, <4>1
        <5>2. r.seg[b].next = nx BY <2>4, <4>1
        <5>3. b = r.last_segment <=> a = g.last_segment BY <2>2, <2>3, <3>1, <4>1
        <5> QED BY <2>6, <5>1, <5>2, <5>3
      <4>2. CASE b \in D
        <5>1. r.seg[b].last = NULL <=> b = HeapStart
          <6>1. CASE b = nx BY <1>0, <2>4, <2>6, <3>1, <4>2, <6>1
          <6>2. CASE b # nx BY <2>4, <3>1, <4>2, <6>2
          <6> QED BY <6>1, <6>2
        <5>2. r.seg[b].next = NULL <=> b = r.last_segment
          <6>1. CASE b = a BY <2>1, <2>3, <2>4, <2>6, <4>2, <6>1
          <6>2. CASE b # a BY <2>2, <2>3, <2>4, <3>1, <4>2, <6>2
          <6> QED BY <6>1, <6>2
        <5> QED BY <5>1, <5>2
      <4> QED BY <4>1, <4>2
    <3> QED BY <2>3, <3>2, <3>3, <3>4, <3>5 DEF DoublyLinked
  <2>10. NoFreePairBut(r, {a})
    <3> SUFFICES ASSUME NEW b \in (D \cup {new}) \ {a}, r.seg[b].free, r.seg[b].next # NULL
                 PROVE  ~r.seg[r.seg[b].next].free
      BY <2>3 DEF NoFreePairBut
    <3>1. \A c \in D : g.seg[c].free /\ g.seg[c].next # NULL => ~g.seg[g.seg[c].next].free
      BY DEF NoFreePairBut, D
    <3>2. CASE b = new
      <4>1. r.seg[b].next = nx /\ nx \in D /\ nx = g.seg[a].next BY <2>4, <2>6, <3>2 DEF nx
      <4> QED BY <1>0, <2>4, <2>6, <3>1, <4>1
    <3>3. CASE b \in D
      <4>1. r.seg[b].next = g.seg[b].next /\ g.seg[b].next \in D /\ g.seg[b].free
        BY <2>4, <3>3 DEF Wf, DoublyLinked, D
      <4> QED BY <2>4, <3>1, <3>3, <4>1
    <3> QED BY <3>2, <3>3
  <2>11. SameUsed(g, r) BY <2>3, <2>4 DEF SameUsed, D
  <2>12. a \in DOMAIN r.seg /\ r.seg[a].free /\ r.seg[a].size >= n BY <1>0, <2>3, <2>4
  <2> QED BY <2>3, <2>7, <2>8, <2>9, <2>10, <2>11, <2>12 DEF Wf, r
<1> QED BY <1>1, <1>2

\* Appending pages at heap_end keeps the list well formed; the only new free
\* pair is the last segment and the new one.
LEMMA AppendPages ==
  ASSUME NEW g, Wf(g), NEW bytes \in Nat, bytes > HDR, NoFreePairBut(g, {})
  PROVE  LET r == append(g, bytes)
             new == g.heap_end
         IN  /\ Wf(r) /\ new \in DOMAIN r.seg /\ r.seg[new].last = g.last_segment
             /\ SameUsed(g, r) /\ NoFreePairBut(r, {g.last_segment})
             /\ r.heap_end = g.heap_end + bytes
<1> DEFINE D == DOMAIN g.seg
           new == g.heap_end
           tail == g.last_segment
           r == append(g, bytes)
<1> USE Positive
<1>0. /\ new \in Nat /\ tail \in D /\ HeapStart \in D /\ NULL \notin D
      /\ \A b \in D : /\ b \in Nat /\ g.seg[b].size \in Nat /\ g.seg[b].next \in Nat
                      /\ g.seg[b].last \in Nat /\ g.seg[b].free \in BOOLEAN
                      /\ End(g, b) = b + HDR + g.seg[b].size /\ End(g, b) \in Nat /\ End(g, b) > b
  BY HeaderFields DEF Wf, HeapType, DoublyLinked
<1>1. \A b \in D : /\ b >= HeapStart /\ End(g, b) <= new
                   /\ End(g, b) = IF g.seg[b].next = NULL THEN new ELSE g.seg[b].next
                   /\ b < new /\ b # new
  BY <1>0 DEF Wf, Tiled
<1>2. /\ \A b \in D : /\ g.seg[b].next # NULL => g.seg[b].next \in D /\ g.seg[g.seg[b].next].last = b
                      /\ g.seg[b].last # NULL => g.seg[b].last \in D /\ g.seg[g.seg[b].last].next = b
                      /\ g.seg[b].last = NULL <=> b = HeapStart
                      /\ g.seg[b].next = NULL <=> b = tail
  BY DEF Wf, DoublyLinked
<1>3. /\ DOMAIN r = {"seg", "last_segment", "heap_end"}
      /\ DOMAIN r.seg = D \cup {new} /\ r.heap_end = new + bytes /\ r.last_segment = new
      /\ r.seg[new] = Seg(bytes - HDR, NULL, tail, TRUE)
      /\ \A b \in D : r.seg[b] = Seg(g.seg[b].size, IF b = tail THEN new ELSE g.seg[b].next,
                                     g.seg[b].last, g.seg[b].free)
      /\ r.seg = [b \in D \cup {new} |-> r.seg[b]]
  <2>1. r = [seg |-> [b \in D \cup {new} |->
               IF b = new THEN Seg(bytes - HDR, NULL, tail, TRUE)
               ELSE Seg(g.seg[b].size, IF b = tail THEN new ELSE g.seg[b].next,
                        g.seg[b].last, g.seg[b].free)],
             last_segment |-> new, heap_end |-> new + bytes]
    BY DEF append
  <2> HIDE DEF r, D, new, tail
  <2>2. /\ DOMAIN r = {"seg", "last_segment", "heap_end"}
        /\ DOMAIN r.seg = D \cup {new} /\ r.heap_end = new + bytes /\ r.last_segment = new
    BY <2>1
  <2>3. r.seg = [b \in D \cup {new} |->
               IF b = new THEN Seg(bytes - HDR, NULL, tail, TRUE)
               ELSE Seg(g.seg[b].size, IF b = tail THEN new ELSE g.seg[b].next,
                        g.seg[b].last, g.seg[b].free)]
    BY <2>1
  <2>4. r.seg[new] = Seg(bytes - HDR, NULL, tail, TRUE) BY <2>3
  <2>5. \A b \in D : r.seg[b] = Seg(g.seg[b].size, IF b = tail THEN new ELSE g.seg[b].next,
                                     g.seg[b].last, g.seg[b].free)
    BY <1>1, <2>3
  <2>6. r.seg = [b \in D \cup {new} |-> r.seg[b]] BY <2>3
  <2> QED BY <2>2, <2>4, <2>5, <2>6
<1> HIDE DEF r, D, new, tail
<1>4. /\ r.seg[new].size = bytes - HDR /\ r.seg[new].next = NULL /\ r.seg[new].last = tail
      /\ r.seg[new].free
  BY <1>3 DEF Seg
<1>5. \A b \in D : /\ r.seg[b].size = g.seg[b].size
                   /\ r.seg[b].next = IF b = tail THEN new ELSE g.seg[b].next
                   /\ r.seg[b].last = g.seg[b].last
                   /\ r.seg[b].free = g.seg[b].free
  BY <1>3, SegFields
<1>6. /\ End(r, new) = new + bytes
      /\ \A b \in D : End(r, b) = End(g, b)
  BY <1>0, <1>4, <1>5 DEF End
<1>7. HeapType(r)
  <2>1. ASSUME NEW b \in D PROVE r.seg[b] \in Segment
    <3>1. (IF b = tail THEN new ELSE g.seg[b].next) \in Nat BY <1>0
    <3>2. g.seg[b].size \in Nat /\ g.seg[b].last \in Nat /\ g.seg[b].free \in BOOLEAN BY <1>0
    <3> QED BY <1>3, <3>1, <3>2, SegFields
  <2>2. r.seg[new] \in Segment BY <1>0, <1>3 DEF Seg, Segment, NULL
  <2>3. r.seg \in [D \cup {new} -> Segment] BY <1>3, <2>1, <2>2
  <2>4. r.heap_end \in Nat /\ D \cup {new} \subseteq Nat
    <3>1. r.heap_end = new + bytes BY <1>3
    <3> QED BY <1>0, <3>1
  <2> QED BY <1>0, <1>3, <2>3, <2>4 DEF HeapType
<1>8. Tiled(r)
  <2>0. r.heap_end = new + bytes /\ r.heap_end \in Nat /\ new <= r.heap_end BY <1>0, <1>3
  <2>1. ASSUME NEW b \in D \cup {new}
        PROVE /\ b >= HeapStart
              /\ End(r, b) <= r.heap_end
              /\ End(r, b) = IF r.seg[b].next = NULL THEN r.heap_end ELSE r.seg[b].next
    <3>1. CASE b = new
      <4>1. new >= HeapStart BY <1>0, <1>1
      <4> QED BY <1>4, <1>6, <2>0, <3>1, <4>1
    <3>2. CASE b \in D
      <4>1. new # NULL BY <1>0, <1>1 DEF NULL
      <4>2. End(g, b) <= new /\ End(g, b) \in Nat /\ b >= HeapStart BY <1>0, <1>1, <3>2
      <4>3. End(r, b) = r.seg[b].next /\ r.seg[b].next # NULL
        BY <1>0, <1>1, <1>2, <1>5, <1>6, <3>2, <4>1
      <4>4. End(r, b) = End(g, b) BY <1>6, <3>2
      <4>5. End(r, b) <= r.heap_end BY <1>0, <2>0, <4>2, <4>4
      <4> QED BY <4>2, <4>3, <4>5
    <3> QED BY <3>1, <3>2
  <2>2. ASSUME NEW b \in D \cup {new}, NEW c \in D \cup {new}, b < c
        PROVE End(r, b) <= c
    <3>1. \A x, y \in D : x < y => End(g, x) <= y BY DEF Wf, Tiled, D
    <3> QED BY <1>0, <1>1, <1>6, <2>2, <3>1
  <2> QED BY <1>3, <2>1, <2>2 DEF Tiled
<1>9. DoublyLinked(r)
  <2>0. new # NULL /\ new \notin D BY <1>0, <1>1 DEF NULL
  <2>1. ASSUME NEW b \in D \cup {new}, r.seg[b].next # NULL
        PROVE r.seg[b].next \in D \cup {new} /\ r.seg[r.seg[b].next].last = b
    <3>1. b \in D BY <1>4, <2>1
    <3>2. CASE b = tail BY <1>4, <1>5, <3>1, <3>2
    <3>3. CASE b # tail BY <1>2, <1>5, <2>1, <3>1, <3>3
    <3> QED BY <3>2, <3>3
  <2>2. ASSUME NEW b \in D \cup {new}, r.seg[b].last # NULL
        PROVE r.seg[b].last \in D \cup {new} /\ r.seg[r.seg[b].last].next = b
    <3>1. CASE b = new BY <1>0, <1>4, <1>5, <3>1
    <3>2. CASE b \in D
      <4>1. r.seg[b].last = g.seg[b].last /\ g.seg[b].last \in D /\ g.seg[g.seg[b].last].next = b
        BY <1>2, <1>5, <2>2, <3>2
      <4>2. g.seg[b].last # tail BY <1>0, <1>2, <3>2, <4>1
      <4> QED BY <1>5, <4>1, <4>2
    <3> QED BY <3>1, <3>2
  <2>3. ASSUME NEW b \in D \cup {new}
        PROVE /\ r.seg[b].last = NULL <=> b = HeapStart
              /\ r.seg[b].next = NULL <=> b = r.last_segment
    <3>1. CASE b = new BY <1>0, <1>3, <1>4, <2>0, <3>1
    <3>2. CASE b \in D BY <1>2, <1>3, <1>5, <2>0, <3>2
    <3> QED BY <3>1, <3>2
  <2> QED BY <1>3, <2>1, <2>2, <2>3 DEF DoublyLinked
<1>10. SameUsed(g, r) BY <1>3, <1>4, <1>5 DEF SameUsed, D
<1>11. NoFreePairBut(r, {tail})
  <2> SUFFICES ASSUME NEW b \in (D \cup {new}) \ {tail}, r.seg[b].free, r.seg[b].next # NULL
               PROVE  ~r.seg[r.seg[b].next].free
    BY <1>3 DEF NoFreePairBut
  <2>1. b \in D /\ r.seg[b].next = g.seg[b].next /\ g.seg[b].free
    BY <1>4, <1>5
  <2>2. ~g.seg[g.seg[b].next].free BY <2>1 DEF NoFreePairBut, D
  <2> QED BY <1>2, <1>5, <2>1, <2>2
<1>12. /\ Wf(r) /\ new \in DOMAIN r.seg /\ r.seg[new].last = tail
       /\ SameUsed(g, r) /\ NoFreePairBut(r, {tail}) /\ r.heap_end = new + bytes
  BY <1>3, <1>4, <1>7, <1>8, <1>9, <1>10, <1>11 DEF Wf
<1> QED BY <1>12 DEF r, new, tail

\* Segments in use stay in use through two operations.
LEMMA SameUsedTrans ==
  ASSUME NEW f, NEW g, NEW k, SameUsed(f, g), SameUsed(g, k)
  PROVE  SameUsed(f, k)
BY DEF SameUsed

\* expand_heap makes the heap longer and keeps everything else.
LEMMA ExpandHeap ==
  ASSUME NEW g, Wf(g), NEW n \in Nat \ {0}, NoFreePairBut(g, {})
  PROVE  /\ Wf(expand_heap(g, n))
         /\ expand_heap(g, n).heap_end = g.heap_end + RoundUp(n, PAGE)
         /\ SameUsed(g, expand_heap(g, n))
         /\ NoFreePairBut(expand_heap(g, n), {})
<1> DEFINE bytes == RoundUp(n, PAGE)
           m == append(g, bytes)
           r == expand_heap(g, n)
<1>1. bytes \in Nat /\ bytes > HDR BY RoundUpLemma, Positive
<1> HIDE DEF bytes
<1>2. /\ Wf(m) /\ g.heap_end \in DOMAIN m.seg /\ m.seg[g.heap_end].last = g.last_segment
      /\ SameUsed(g, m) /\ NoFreePairBut(m, {g.last_segment})
      /\ m.heap_end = g.heap_end + bytes
  <2>1. LET r2 == append(g, bytes)
            new == g.heap_end
        IN  /\ Wf(r2) /\ new \in DOMAIN r2.seg /\ r2.seg[new].last = g.last_segment
            /\ SameUsed(g, r2) /\ NoFreePairBut(r2, {g.last_segment})
            /\ r2.heap_end = g.heap_end + bytes
    BY <1>1, AppendPages
  <2> QED BY <2>1
<1>3. r = heapseg_combine_bwd(m, g.heap_end) BY DEF expand_heap, bytes
<1> HIDE DEF m, r
<1>4. NoFreePairBut(m, {m.seg[g.heap_end].last}) BY <1>2
<1>5. Wf(r) /\ r.heap_end = m.heap_end /\ SameUsed(m, r) /\ NoFreePairBut(r, {})
  BY <1>2, <1>3, <1>4, CombineBwd
<1> QED BY <1>2, <1>5, SameUsedTrans DEF r, bytes

-----------------------------------------------------------------------------
\* The blocks O are segments in use of g.
BlocksOf(g, O) ==
    /\ \A b \in O : /\ b.ptr - HDR \in DOMAIN g.seg
                    /\ ~g.seg[b.ptr - HDR].free
                    /\ b.len <= g.seg[b.ptr - HDR].size
    /\ \A a \in DOMAIN g.seg : ~g.seg[a].free => \E b \in O : b.ptr = a + HDR

\* An operation that leaves the segments in use alone leaves the blocks alone.
LEMMA SameUsedBlocks ==
  ASSUME NEW g, NEW r, NEW O, BlocksOf(g, O), SameUsed(g, r)
  PROVE  BlocksOf(r, O)
BY DEF BlocksOf, SameUsed

\* What malloc knows while it walks, and that two blocks have two addresses.
SearchInv ==
    /\ pc = "idle" => current = HeapStart
    /\ pc = "search" => /\ 0 < asked /\ asked <= size
                        /\ \A a \in Segs : a < current => ~Fits(a)
    /\ \A b \in owned : b.len > 0
    /\ \A b, c \in owned : b.ptr = c.ptr => b = c

IInv == TypeOK /\ Tiling /\ Linked /\ Coalesced /\ BlocksAreSegments /\ SearchInv

\* The properties of the specification in terms of one list.
Parts ==
    /\ Wf(h) /\ NoFreePairBut(h, {}) /\ BlocksOf(h, owned) /\ SearchInv
    /\ owned \subseteq [ptr : Nat, len : Nat] /\ pc \in {"idle", "search"}
    /\ size \in Nat /\ asked \in Nat /\ current \in Segs

LEMMA InvParts == (IInv <=> Parts) /\ (IInv' <=> Parts')
<1>1. /\ Coalesced <=> NoFreePairBut(h, {})
      /\ Coalesced' <=> NoFreePairBut(h', {})
  BY DEF Coalesced, NoFreePairBut, Segs
<1>2. /\ BlocksAreSegments <=> BlocksOf(h, owned)
      /\ BlocksAreSegments' <=> BlocksOf(h', owned')
  BY DEF BlocksAreSegments, BlocksOf, Segs
<1>3. IInv <=> Parts BY <1>1, <1>2 DEF IInv, Parts, Wf, TypeOK, Tiling, Linked
<1>4. IInv' <=> Parts' BY <1>1, <1>2 DEF IInv, Parts, Wf, TypeOK, Tiling, Linked
<1> QED BY <1>3, <1>4

\* heap_init establishes the invariant.
THEOREM InitInv == Init => IInv
<1> SUFFICES ASSUME Init PROVE IInv OBVIOUS
<1> USE Positive DEF Init
<1> DEFINE total == InitPages * PAGE
<1>1. total \in Nat /\ total >= PAGE
  <2>1. \A a \in Nat \ {0}, b \in Nat : a * b \in Nat /\ a * b >= b BY SMTT(60)
  <2> QED BY <2>1, HeapAssumption
<1>2. h = [seg |-> [b \in {HeapStart} |-> Seg(total - HDR, NULL, NULL, TRUE)],
           last_segment |-> HeapStart, heap_end |-> HeapStart + total]
  BY DEF heap_init
<1> HIDE DEF total
<1>3. /\ DOMAIN h = {"seg", "last_segment", "heap_end"}
      /\ DOMAIN h.seg = {HeapStart} /\ h.last_segment = HeapStart
      /\ h.heap_end = HeapStart + total
      /\ h.seg = [b \in {HeapStart} |-> Seg(total - HDR, NULL, NULL, TRUE)]
  BY <1>2
<1>4. /\ h.seg[HeapStart].size = total - HDR /\ h.seg[HeapStart].next = NULL
      /\ h.seg[HeapStart].last = NULL /\ h.seg[HeapStart].free
  BY <1>3 DEF Seg
<1>5. HeapType(h)
  <2>1. h.seg[HeapStart] \in Segment BY <1>1, <1>3 DEF Seg, Segment, NULL
  <2>2. h.seg \in [{HeapStart} -> Segment] BY <1>3, <2>1
  <2>3. h.heap_end \in Nat /\ HeapStart \in DOMAIN h.seg /\ DOMAIN h.seg \subseteq Nat
    <3>1. h.heap_end = HeapStart + total /\ DOMAIN h.seg = {HeapStart} BY <1>3
    <3> QED BY <1>1, <3>1
  <2> QED BY <1>3, <2>2, <2>3 DEF HeapType
<1>6. Tiled(h)
  <2>0. h.heap_end = HeapStart + total /\ DOMAIN h.seg = {HeapStart} BY <1>3
  <2>1. End(h, HeapStart) = h.heap_end BY <1>1, <2>0, <1>4 DEF End
  <2>2. h.heap_end \in Nat BY <1>1, <2>0
  <2> QED BY <2>0, <1>4, <2>1, <2>2 DEF Tiled
<1>7. DoublyLinked(h) BY <1>3, <1>4 DEF DoublyLinked
<1>8. NoFreePairBut(h, {}) /\ BlocksOf(h, owned)
  BY <1>3, <1>4 DEF NoFreePairBut, BlocksOf
<1>9. SearchInv /\ current \in Segs BY <1>3 DEF SearchInv, Segs
<1> QED BY <1>5, <1>6, <1>7, <1>8, <1>9, InvParts DEF Parts, Wf, NULL

\* malloc's entry only sets its locals.
LEMMA MallocInv == ASSUME IInv, NEW n \in Sizes, Malloc(n) PROVE IInv'
<1> USE DEF IInv
<1>1. n \in Nat \ {0} BY HeapAssumption DEF Malloc
<1>2. size' \in Nat /\ size' >= n
  BY <1>1, RoundUpLemma, HeapAssumption DEF Malloc
<1>3. TypeOK' BY <1>1, <1>2 DEF Malloc, TypeOK, HeapType, Segs
<1>4. SearchInv'
  <2>1. \A a \in Segs : ~(a < HeapStart) BY Positive DEF Tiling, Tiled, TypeOK, HeapType, Segs
  <2> QED BY <1>1, <1>2, <2>1 DEF Malloc, SearchInv, Segs
<1>5. Tiling' /\ Linked' /\ Coalesced' /\ BlocksAreSegments'
  BY DEF Malloc, Tiling, Linked, Coalesced, BlocksAreSegments, Segs
<1> QED BY <1>3, <1>4, <1>5

\* One step of the walk.
LEMMA AdvanceInv == IInv /\ Advance => IInv'
<1> SUFFICES ASSUME IInv, Advance PROVE IInv' OBVIOUS
<1> USE DEF IInv
<1>0. /\ h' = h /\ owned' = owned /\ pc' = pc /\ size' = size /\ asked' = asked
      /\ Segs' = Segs /\ current \in Segs /\ current' = h.seg[current].next
      /\ h.seg[current].next # NULL /\ pc = "search" /\ ~Fits(current)
  BY DEF Advance, TypeOK, Segs
<1>1. current' \in Segs /\ current' = End(h, current)
  BY <1>0 DEF Linked, DoublyLinked, Tiling, Tiled, Segs
<1>2. TypeOK' BY <1>0, <1>1 DEF TypeOK, HeapType, Segs
<1>3. ASSUME NEW a \in Segs, a < current' PROVE ~Fits(a)
  <2>1. a \in Nat /\ current \in Nat /\ (current < a => End(h, current) <= a)
    BY <1>0 DEF Tiling, Tiled, TypeOK, HeapType, Segs
  <2>2. End(h, current) \in Nat BY <1>0, HeaderFields DEF TypeOK, Segs
  <2>3. a = current \/ a < current BY <1>1, <1>3, <2>1, <2>2
  <2> QED BY <1>0, <2>3 DEF SearchInv
<1>4. SearchInv' BY <1>0, <1>3 DEF SearchInv, Fits
<1>5. Tiling' /\ Linked' /\ Coalesced' /\ BlocksAreSegments'
  BY <1>0 DEF Tiling, Linked, Coalesced, BlocksAreSegments, Segs
<1> QED BY <1>2, <1>4, <1>5

\* Growing the heap.
LEMMA ExpandInv == IInv /\ Expand => IInv'
<1> SUFFICES ASSUME IInv, Expand PROVE IInv' OBVIOUS
<1>0. /\ Wf(h) /\ NoFreePairBut(h, {}) /\ BlocksOf(h, owned) /\ SearchInv
      /\ size \in Nat \ {0} /\ asked \in Nat /\ pc = "search"
      /\ owned \subseteq [ptr : Nat, len : Nat]
  BY InvParts DEF Parts, Expand, SearchInv
<1>1. /\ h' = expand_heap(h, size) /\ current' = HeapStart
      /\ owned' = owned /\ pc' = pc /\ size' = size /\ asked' = asked
  BY DEF Expand
<1>2. Wf(h') /\ SameUsed(h, h') /\ NoFreePairBut(h', {})
  BY <1>0, <1>1, ExpandHeap
<1>3. BlocksOf(h', owned') BY <1>0, <1>1, <1>2, SameUsedBlocks
<1>4. HeapStart \in Segs' BY <1>2 DEF Wf, HeapType, Segs
<1>5. SearchInv'
  <2>1. \A a \in Segs' : ~(a < HeapStart)
    BY <1>2, Positive DEF Wf, Tiled, HeapType, Segs
  <2> QED BY <1>0, <1>1, <2>1 DEF SearchInv
<1> QED BY <1>0, <1>1, <1>2, <1>3, <1>4, <1>5, InvParts DEF Parts

\* malloc returns a block: the segment it stands on, cut if that is worthwhile.
LEMMA TakeInv == IInv /\ Take => IInv'
<1> SUFFICES ASSUME IInv, Take PROVE IInv' OBVIOUS
<1> DEFINE s == current
           g == IF h.seg[s].size > size THEN heapseg_split(h, s, size) ELSE h
           b == [ptr |-> s + HDR, len |-> asked]
<1>0. /\ Wf(h) /\ NoFreePairBut(h, {}) /\ BlocksOf(h, owned) /\ SearchInv
      /\ size \in Nat /\ asked \in Nat /\ asked > 0 /\ asked <= size
      /\ owned \subseteq [ptr : Nat, len : Nat]
      /\ s \in DOMAIN h.seg /\ h.seg[s].free /\ h.seg[s].size >= size
  BY InvParts DEF Parts, Take, SearchInv, Fits, Segs
<1>1. s \in Nat /\ h.seg[s].size \in Nat BY <1>0, HeaderFields DEF Wf
<1>2. /\ Wf(g) /\ s \in DOMAIN g.seg /\ g.seg[s].free /\ g.seg[s].size >= size
      /\ SameUsed(h, g) /\ NoFreePairBut(g, {s})
  <2>1. CASE h.seg[s].size > size BY <1>0, <2>1, Split
  <2>2. CASE ~(h.seg[s].size > size)
    <3>1. SameUsed(h, h) /\ NoFreePairBut(h, {s}) BY <1>0 DEF SameUsed, NoFreePairBut
    <3> QED BY <1>0, <2>2, <3>1
  <2> QED BY <2>1, <2>2
<1>3. /\ h' = set_used(g, s) /\ owned' = owned \cup {b}
      /\ pc' = "idle" /\ size' = 0 /\ asked' = 0 /\ current' = HeapStart
  BY DEF Take, Return
<1> HIDE DEF g
<1>4. /\ Wf(h') /\ DOMAIN h'.seg = DOMAIN g.seg /\ ~h'.seg[s].free
      /\ \A c \in DOMAIN g.seg : /\ h'.seg[c].size = g.seg[c].size
                                 /\ h'.seg[c].next = g.seg[c].next
                                 /\ c # s => h'.seg[c].free = g.seg[c].free
  BY <1>2, <1>3, SetUsed
<1>5. NoFreePairBut(h', {})
  <2>1. \A c \in DOMAIN g.seg : g.seg[c].next # NULL => g.seg[c].next \in DOMAIN g.seg
    BY <1>2 DEF Wf, DoublyLinked
  <2> QED BY <1>2, <1>4, <2>1 DEF NoFreePairBut
<1>6. BlocksOf(g, owned) BY <1>0, <1>2, SameUsedBlocks
<1>7. \A c \in owned : c.ptr \in Nat /\ c.ptr - HDR # s
  BY <1>0, <1>2, <1>6 DEF BlocksOf
<1>8. b.ptr - HDR = s /\ b.len = asked /\ b.ptr = s + HDR BY <1>1, Positive
<1>9. BlocksOf(h', owned')
  <2>1. ASSUME NEW c \in owned
        PROVE  /\ c.ptr - HDR \in DOMAIN h'.seg /\ ~h'.seg[c.ptr - HDR].free
               /\ c.len <= h'.seg[c.ptr - HDR].size
    BY <1>4, <1>6, <1>7 DEF BlocksOf
  <2>2. /\ s \in DOMAIN h'.seg /\ ~h'.seg[s].free
        /\ asked <= h'.seg[s].size
    <3>1. h'.seg[s].size = g.seg[s].size /\ g.seg[s].size \in Nat
      BY <1>2, <1>4, HeaderFields DEF Wf
    <3> QED BY <1>0, <1>2, <1>4, <3>1
  <2>3. ASSUME NEW a \in DOMAIN h'.seg, ~h'.seg[a].free
        PROVE  \E c \in owned' : c.ptr = a + HDR
    <3>1. CASE a = s BY <1>3, <1>8, <3>1
    <3>2. CASE a # s
      <4>1. a \in DOMAIN g.seg /\ ~g.seg[a].free BY <1>4, <2>3, <3>2
      <4> QED BY <1>3, <1>6, <4>1 DEF BlocksOf
    <3> QED BY <3>1, <3>2
  <2> HIDE DEF b
  <2> QED BY <1>3, <1>8, <2>1, <2>2, <2>3 DEF BlocksOf
<1>10. SearchInv'
  <2>1. \A c \in owned : c.ptr # b.ptr BY <1>1, <1>7, <1>8, Positive
  <2>2. \A c \in owned : c.len > 0 BY <1>0 DEF SearchInv
  <2>3. \A c, d \in owned : c.ptr = d.ptr => c = d BY <1>0 DEF SearchInv
  <2> HIDE DEF b
  <2> QED BY <1>0, <1>3, <1>8, <2>1, <2>2, <2>3 DEF SearchInv
<1>11. owned' \subseteq [ptr : Nat, len : Nat]
  <2>1. s + HDR \in Nat BY <1>1, Positive
  <2> QED BY <1>0, <1>3, <2>1
<1>12. HeapStart \in Segs' BY <1>4 DEF Wf, HeapType, Segs
<1> QED BY <1>3, <1>4, <1>5, <1>9, <1>10, <1>11, <1>12, InvParts DEF Parts

\* free gives one segment back and leaves the others to their holders.
LEMMA FreeInv == ASSUME IInv, NEW b \in owned, Free(b) PROVE IInv'
<1> DEFINE s == b.ptr - HDR
           p == h.seg[s].last
           g0 == set_free(h, s)
           g1 == heapseg_combine_fwd(g0, s)
           g2 == heapseg_combine_bwd(g1, s)
<1>0. /\ Wf(h) /\ NoFreePairBut(h, {}) /\ BlocksOf(h, owned) /\ SearchInv
      /\ size \in Nat /\ asked \in Nat /\ pc = "idle" /\ current = HeapStart
      /\ owned \subseteq [ptr : Nat, len : Nat]
      /\ s \in DOMAIN h.seg /\ ~h.seg[s].free
  BY InvParts DEF Parts, Free, SearchInv, BlocksOf
<1>1. /\ h' = g2 /\ owned' = owned \ {b}
      /\ pc' = pc /\ size' = size /\ asked' = asked /\ current' = current
  BY DEF Free
<1> HIDE DEF g0, g1, g2
<1>2. /\ Wf(g0) /\ DOMAIN g0.seg = DOMAIN h.seg /\ g0.seg[s].free
      /\ \A c \in DOMAIN h.seg : /\ g0.seg[c].size = h.seg[c].size
                                 /\ g0.seg[c].next = h.seg[c].next
                                 /\ g0.seg[c].last = h.seg[c].last
                                 /\ c # s => g0.seg[c].free = h.seg[c].free
  BY <1>0, SetFree DEF g0
<1>3. NoFreePairBut(g0, {p} \cup {s})
  <2>1. ASSUME NEW a \in DOMAIN h.seg, a # s, a # p, h.seg[a].free, h.seg[a].next # NULL
        PROVE  ~g0.seg[h.seg[a].next].free
    <3>1. /\ ~h.seg[h.seg[a].next].free /\ h.seg[a].next \in DOMAIN h.seg
          /\ h.seg[h.seg[a].next].last = a
      BY <1>0, <2>1 DEF NoFreePairBut, Wf, DoublyLinked
    <3>2. h.seg[a].next # s BY <2>1, <3>1
    <3> QED BY <1>2, <3>1, <3>2
  <2> QED BY <1>2, <2>1 DEF NoFreePairBut
<1>4. g0.seg[s].next # NULL => g0.seg[s].next \notin {p}
  <2>1. ASSUME h.seg[s].next # NULL, h.seg[s].next = p PROVE FALSE
    <3>1. p \in DOMAIN h.seg /\ p = End(h, s) /\ p # NULL /\ h.seg[p].next = s
      BY <1>0, <2>1 DEF Wf, DoublyLinked, Tiled
    <3>2. s # NULL BY <1>0, Positive DEF Wf
    <3>3. s = End(h, p) BY <1>0, <3>1, <3>2 DEF Wf, Tiled
    <3>4. s \in Nat /\ p \in Nat /\ End(h, s) > s /\ End(h, p) > p
      BY <1>0, <3>1, HeaderFields, Positive DEF Wf
    <3> QED BY <3>1, <3>3, <3>4
  <2> QED BY <1>0, <1>2, <2>1
<1>5. /\ Wf(g1) /\ s \in DOMAIN g1.seg /\ g1.seg[s].last = p
      /\ SameUsed(g0, g1) /\ NoFreePairBut(g1, {p})
  <2>1. s \in DOMAIN g0.seg /\ g0.seg[s].free /\ g0.seg[s].last = p BY <1>0, <1>2
  <2>2. /\ Wf(g1) /\ s \in DOMAIN g1.seg /\ g1.seg[s].last = g0.seg[s].last
        /\ SameUsed(g0, g1) /\ NoFreePairBut(g1, {p} \ {s})
    BY <1>2, <1>3, <1>4, <2>1, CombineFwd DEF g1
  <2>3. NoFreePairBut(g1, {p}) BY <2>2 DEF NoFreePairBut
  <2> QED BY <2>1, <2>2, <2>3
<1>6. Wf(g2) /\ SameUsed(g1, g2) /\ NoFreePairBut(g2, {})
  BY <1>5, CombineBwd DEF g2
<1>7. BlocksOf(g0, owned \ {b})
  <2>1. b.ptr \in Nat /\ s + HDR = b.ptr BY <1>0, Positive
  <2>2. ASSUME NEW c \in owned \ {b}
        PROVE  /\ c.ptr - HDR \in DOMAIN g0.seg /\ ~g0.seg[c.ptr - HDR].free
               /\ c.len <= g0.seg[c.ptr - HDR].size
    <3>1. c.ptr # b.ptr /\ c.ptr \in Nat BY <1>0 DEF SearchInv
    <3>2. c.ptr - HDR # s BY <2>1, <3>1, Positive
    <3> QED BY <1>0, <1>2, <3>2 DEF BlocksOf
  <2>3. ASSUME NEW a \in DOMAIN g0.seg, ~g0.seg[a].free
        PROVE  \E c \in owned \ {b} : c.ptr = a + HDR
    <3>1. a # s /\ a \in DOMAIN h.seg /\ ~h.seg[a].free BY <1>0, <1>2, <2>3
    <3>2. PICK c \in owned : c.ptr = a + HDR BY <1>0, <3>1 DEF BlocksOf
    <3>3. a \in Nat /\ s \in Nat BY <1>0, <3>1 DEF Wf, HeapType
    <3>4. c # b BY <2>1, <3>1, <3>2, <3>3, Positive
    <3> QED BY <3>2, <3>4
  <2> QED BY <2>2, <2>3 DEF BlocksOf
<1>8. BlocksOf(g2, owned \ {b})
  BY <1>5, <1>6, <1>7, SameUsedTrans, SameUsedBlocks
<1>9. SearchInv' BY <1>0, <1>1 DEF SearchInv
<1>10. HeapStart \in Segs' BY <1>1, <1>6 DEF Wf, HeapType, Segs
<1> QED BY <1>0, <1>1, <1>6, <1>8, <1>9, <1>10, InvParts DEF Parts

-----------------------------------------------------------------------------
\* Every step keeps the invariant.
LEMMA StepInv == IInv /\ [Next]_vars => IInv'
<1> SUFFICES ASSUME IInv, [Next]_vars PROVE IInv' OBVIOUS
<1>1. ASSUME NEW n \in Sizes, Malloc(n) PROVE IInv' BY <1>1, MallocInv
<1>2. CASE Take BY <1>2, TakeInv
<1>3. CASE Advance BY <1>3, AdvanceInv
<1>4. CASE Expand BY <1>4, ExpandInv
<1>5. ASSUME NEW b \in owned, Free(b) PROVE IInv' BY <1>5, FreeInv
<1>6. CASE UNCHANGED vars
  <2>1. /\ h' = h /\ owned' = owned /\ pc' = pc /\ size' = size
        /\ asked' = asked /\ current' = current
    BY <1>6 DEF vars
  <2>2. Parts BY InvParts
  <2>3. Parts' BY <2>1, <2>2 DEF Parts, SearchInv, Fits, Segs
  <2> QED BY <2>3, InvParts
<1> QED BY <1>1, <1>2, <1>3, <1>4, <1>5, <1>6 DEF Next

\* The invariant holds of every run.
THEOREM SpecInv == Spec => []IInv
<1>1. Init => IInv BY InitInv
<1>2. IInv /\ [Next]_vars => IInv' BY StepInv
<1> QED BY <1>1, <1>2, PTL DEF Spec

\* TypeOK: every header is a header and malloc stands on one.
THEOREM TypeCorrect == Spec => []TypeOK
<1>1. IInv => TypeOK BY DEF IInv
<1> QED BY <1>1, SpecInv, PTL

\* WellFormed: the segments cover the heap without gap or overlap, and the list
\* reads the same in both directions and ends at last_segment.
THEOREM ListIsWellFormed == Spec => []WellFormed
<1>1. IInv => WellFormed BY DEF IInv, WellFormed
<1> QED BY <1>1, SpecInv, PTL

\* Coalesced: no two neighbours are both free.
THEOREM FreeIsCoalesced == Spec => []Coalesced
<1>1. IInv => Coalesced BY DEF IInv
<1> QED BY <1>1, SpecInv, PTL

\* BlocksAreSegments: blocks held and segments in use correspond.
THEOREM BlocksMatchSegments == Spec => []BlocksAreSegments
<1>1. IInv => BlocksAreSegments BY DEF IInv
<1> QED BY <1>1, SpecInv, PTL

\* The invariant keeps the blocks apart: two blocks lie in two segments, and
\* segments do not overlap.
LEMMA InvDisjoint == IInv => BlocksDisjoint
<1> SUFFICES ASSUME IInv PROVE BlocksDisjoint OBVIOUS
<1>0. /\ Wf(h) /\ BlocksOf(h, owned) /\ SearchInv /\ owned \subseteq [ptr : Nat, len : Nat]
  BY InvParts DEF Parts
<1>1. ASSUME NEW b \in owned
      PROVE  /\ b.ptr \in Nat /\ b.len \in Nat
             /\ b.ptr - HDR \in Segs
             /\ b.ptr + b.len <= End(h, b.ptr - HDR)
             /\ End(h, b.ptr - HDR) \in Nat
  <2>1. /\ b.ptr \in Nat /\ b.len \in Nat /\ b.ptr - HDR \in Segs
        /\ b.len <= h.seg[b.ptr - HDR].size
    BY <1>0 DEF BlocksOf, Segs
  <2>2. /\ h.seg[b.ptr - HDR].size \in Nat /\ End(h, b.ptr - HDR) \in Nat
        /\ End(h, b.ptr - HDR) = b.ptr - HDR + HDR + h.seg[b.ptr - HDR].size
    BY <1>0, <2>1, HeaderFields DEF Wf, Segs
  <2> QED BY <2>1, <2>2, Positive
<1>2. ASSUME NEW b \in owned, NEW a \in Segs, a # b.ptr - HDR
      PROVE  a + HDR <= b.ptr - HDR \/ b.ptr + b.len <= a
  <2>1. a \in Nat /\ End(h, a) >= a + HDR /\ End(h, a) \in Nat /\ b.ptr - HDR \in Nat
    BY <1>0, <1>1, HeaderFields, Positive DEF Wf, Segs
  <2>2. CASE a < b.ptr - HDR
    <3>1. End(h, a) <= b.ptr - HDR BY <1>0, <1>1, <2>2 DEF Wf, Tiled, Segs
    <3> QED BY <2>1, <3>1, Positive
  <2>3. CASE b.ptr - HDR < a
    <3>1. End(h, b.ptr - HDR) <= a BY <1>0, <1>1, <2>3 DEF Wf, Tiled, Segs
    <3> QED BY <1>1, <2>1, <3>1
  <2> QED BY <1>2, <2>1, <2>2, <2>3
<1>3. \A b \in owned : b.ptr + b.len <= h.heap_end
  <2> TAKE b \in owned
  <2>1. End(h, b.ptr - HDR) <= h.heap_end /\ h.heap_end \in Nat
    BY <1>0, <1>1 DEF Wf, Tiled, HeapType, Segs
  <2> QED BY <1>1, <2>1
<1>4. ASSUME NEW b \in owned, NEW c \in owned, b # c
      PROVE  b.ptr + b.len <= c.ptr \/ c.ptr + c.len <= b.ptr
  <2>1. b.ptr # c.ptr BY <1>0, <1>4 DEF SearchInv
  <2>2. /\ b.ptr \in Nat /\ c.ptr \in Nat /\ b.len \in Nat /\ c.len \in Nat
        /\ b.ptr - HDR \in Segs /\ c.ptr - HDR \in Segs
    BY <1>1
  <2>3. b.ptr - HDR # c.ptr - HDR BY <2>1, <2>2, Positive
  <2>4. \/ (b.ptr - HDR) + HDR <= c.ptr - HDR
        \/ c.ptr + c.len <= b.ptr - HDR
    BY <1>2, <2>2, <2>3
  <2>5. \/ (c.ptr - HDR) + HDR <= b.ptr - HDR
        \/ b.ptr + b.len <= c.ptr - HDR
    BY <1>2, <2>2, <2>3
  <2> QED BY <2>2, <2>4, <2>5, Positive
<1>5. ASSUME NEW b \in owned, NEW a \in Segs
      PROVE  a + HDR <= b.ptr \/ b.ptr + b.len <= a
  <2>1. CASE a = b.ptr - HDR BY <1>1, <2>1, Positive
  <2>2. CASE a # b.ptr - HDR
    <3>1. a \in Nat BY <1>0 DEF Wf, HeapType, Segs
    <3> QED BY <1>1, <1>2, <2>2, <3>1, Positive
  <2> QED BY <2>1, <2>2
<1> QED BY <1>3, <1>4, <1>5 DEF BlocksDisjoint

\* BlocksDisjoint: no byte belongs to two blocks, to a block and a header, or
\* lies past the end of the heap.
THEOREM BlocksStayApart == Spec => []BlocksDisjoint
<1> QED BY InvDisjoint, SpecInv, PTL

\* Only Expand moves the end of the heap.
LEMMA StepGrows ==
  IInv /\ [Next]_vars =>
     (h'.heap_end # h.heap_end => \A a \in Segs : h.seg[a].free => h.seg[a].size < size)
<1> SUFFICES ASSUME IInv, [Next]_vars, h'.heap_end # h.heap_end,
                    NEW a \in Segs, h.seg[a].free
             PROVE  h.seg[a].size < size
  OBVIOUS
<1>1. ASSUME NEW n \in Sizes, Malloc(n) PROVE FALSE BY <1>1 DEF Malloc
<1>2. CASE Take
  <2>1. h'.heap_end = h.heap_end
    BY <1>2 DEF Take, set_used, heapseg_split, CutAt
  <2> QED BY <2>1
<1>3. CASE Advance BY <1>3 DEF Advance
<1>4. CASE Expand
  <2>1. /\ Wf(h) /\ SearchInv /\ size \in Nat /\ current \in Segs
    BY InvParts DEF Parts
  <2>2. /\ pc = "search" /\ ~Fits(current) /\ h.seg[current].next = NULL
    BY <1>4 DEF Expand
  <2>3. ~(current < a)
    <3>1. current < a => End(h, current) <= a BY <2>1 DEF Wf, Tiled, Segs
    <3>2. End(h, current) = h.heap_end /\ End(h, a) <= h.heap_end
      BY <2>1, <2>2 DEF Wf, Tiled, Segs
    <3>3. a \in Nat /\ End(h, a) > a /\ End(h, a) \in Nat /\ h.heap_end \in Nat
      BY <2>1, HeaderFields, Positive DEF Wf, HeapType, Segs
    <3> QED BY <3>1, <3>2, <3>3
  <2>4. a \in Nat /\ current \in Nat /\ h.seg[a].size \in Nat
    BY <2>1, HeaderFields DEF Wf, Segs
  <2>5. ~Fits(a)
    <3>1. a = current \/ a < current BY <2>3, <2>4
    <3> QED BY <2>1, <2>2, <3>1 DEF SearchInv
  <2> QED BY <2>1, <2>4, <2>5 DEF Fits
<1>5. ASSUME NEW b \in owned, Free(b) PROVE FALSE
  <2>1. \A g, s : heapseg_combine_fwd(g, s).heap_end = g.heap_end
    BY DEF heapseg_combine_fwd
  <2>2. \A g, s : heapseg_combine_bwd(g, s).heap_end = g.heap_end
    BY <2>1 DEF heapseg_combine_bwd
  <2>3. \A g, s : set_free(g, s).heap_end = g.heap_end
    BY DEF set_free
  <2>4. h'.heap_end = h.heap_end BY <1>5, <2>1, <2>2, <2>3 DEF Free
  <2> QED BY <2>4
<1>6. CASE UNCHANGED vars BY <1>6 DEF vars
<1> QED BY <1>1, <1>2, <1>3, <1>4, <1>5, <1>6 DEF Next

\* GrowsOnlyWhenFull: the heap grows only when every free segment is too small
\* for the request malloc is serving.
THEOREM HeapGrowsOnlyWhenFull == Spec => GrowsOnlyWhenFull
<1>1. IInv /\ [Next]_vars =>
        [h'.heap_end # h.heap_end =>
            \A a \in Segs : h.seg[a].free => h.seg[a].size < size]_vars
  BY StepGrows
<1> QED BY <1>1, SpecInv, PTL DEF GrowsOnlyWhenFull, Spec
=============================================================================
