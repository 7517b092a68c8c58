----------------------------- MODULE MCPageTable -----------------------------
(***************************************************************************)
(* A small i386-shaped instance of PageTable: 4 directory slots of 4      *)
(* pages each, slots 0 and 1 for user space, slot 2 the kernel range (one *)
(* big page mapping frames 0..3) and slot 3 the kernel-mapping window     *)
(* that starts at PKMAP_START, with two registered kernel mappings.       *)
(***************************************************************************)
EXTENDS PageTable

MC_ENTRIES == 4
MC_PG_SIZE == 1
MC_KERNEL_START_PDE == 2
MC_KERNEL_END_PDE == 3
MC_KERNEL_START_PHYS == 0

(* Kernel mappings as pt_kern_mapping_init registers them: a writable     *)
(* kernel-only region and a read-only user region, back to back.           *)
MC_KMaps == << [phys |-> 2, vir |-> 12, len |-> 1, flags |-> {"P", "RW"}],
               [phys |-> 3, vir |-> 13, len |-> 1, flags |-> {"P", "U"}] >>

(* Enough frames for MaxCreates directories with all their tables, since  *)
(* freed spaces give back only their directory.                            *)
MC_PoolFrames == 4..15
MC_MaxCreates == 2

(* Caller ranges in user space: one page, two pages, and two pages that   *)
(* cross from directory slot 0 into slot 1.                                *)
MC_PhysIn  == {8}
MC_VirIn   == {3}
MC_LenIn   == {1, 2}
MC_FlagsIn == {{"P", "RW", "U"}}

(* A zero length: a multiple of the page size, as map_range requires.      *)
MC_LenZero == {0}

(* Too few frames for a space and its tables.                              *)
MC_SmallPool == 4..6

(* The same layout with two address units to a page, so that a length can *)
(* be misaligned: kernel mappings at PKMAP_START = 24, callers at page 3.  *)
MC2_PG_SIZE == 2
MC2_KMaps == << [phys |-> 4, vir |-> 24, len |-> 2, flags |-> {"P", "RW"}] >>
MC2_PhysIn == {16}
MC2_VirIn == {6}
MC2_LenMisaligned == {3}
=============================================================================
