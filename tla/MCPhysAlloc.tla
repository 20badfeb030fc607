----------------------------- MODULE MCPhysAlloc -----------------------------
(***************************************************************************)
(* PhysAlloc on small memory maps.  Each has at most seven pages of counted *)
(* memory, so the bitmap has one byte and the eighth bit is a page the map  *)
(* does not have.                                                           *)
(***************************************************************************)
EXTENDS PhysAlloc

MCPageSize == 4096

Entry(type, first, pages) ==
    [type |-> type, base |-> first * MCPageSize, length |-> pages * MCPageSize]

\* Page 0 usable; a hole; a framebuffer above the counted memory.
WithFramebuffer == <<Entry("USABLE", 0, 2), Entry("RESERVED", 2, 1),
                     Entry("USABLE", 3, 2), Entry("OTHER", 10, 1)>>

\* An ACPI entry that covers page 0 and shares its last page with the next
\* one, then one shorter than a page: the sizes are not multiples of a page.
Unaligned == <<[type |-> "OTHER", base |-> 0, length |-> 6000],
               [type |-> "OTHER", base |-> 6000, length |-> 1024],
               Entry("USABLE", 3, 3)>>

\* Two usable entries of the same length: the first one wins.
Twins == <<Entry("RESERVED", 0, 1), Entry("USABLE", 1, 2), Entry("USABLE", 4, 2)>>

MCMemMaps == {WithFramebuffer, Unaligned, Twins}
=============================================================================
