---------------------------- MODULE PageOwnership ----------------------------
(***************************************************************************)
(* What the physical page allocator of memory/phys_allocator.c promises to *)
(* its callers, with no bitmap and no counters: after the memory map has   *)
(* been read there is a fixed pool of pages that never contains page 0; a   *)
(* request is granted a run of consecutive available pages that then has    *)
(* one owner; a run that is given back is available again as a whole; no    *)
(* page of the pool is ever lost or invented.                               *)
(***************************************************************************)
EXTENDS Integers

CONSTANT Page                   \* the page indexes

VARIABLES opened,               \* the memory map has been read
          pool,                 \* every page the allocator may ever grant
          available,            \* the pages of the pool without an owner
          owned                 \* the granted runs

vars == <<opened, pool, available, owned>>

Consecutive(B) == \A p, q \in B : p..q \subseteq B

Init == /\ opened = FALSE
        /\ pool = {}
        /\ available = {}
        /\ owned = {}

Open == /\ ~opened
        /\ opened' = TRUE
        /\ pool' \in SUBSET (Page \ {0})
        /\ available' = pool'
        /\ owned' = {}

Grant == \E B \in (SUBSET available) \ {{}} :
            /\ Consecutive(B)
            /\ available' = available \ B
            /\ owned' = owned \cup {B}
            /\ UNCHANGED <<opened, pool>>

Reclaim == \E B \in owned :
            /\ owned' = owned \ {B}
            /\ available' = available \cup B
            /\ UNCHANGED <<opened, pool>>

Next == Open \/ Grant \/ Reclaim

Spec == Init /\ [][Next]_vars
=============================================================================
