----------------------------- MODULE MCFreeRange -----------------------------
(***************************************************************************)
(* pgd_find_free_pages on the directories PageTable builds: 4 slots of 4  *)
(* pages, slots 0 to 2 for user space and slot 3 the kernel range, no     *)
(* registered kernel mappings.  Callers map one or two pages at page 2    *)
(* (slot 0) and page 5 (slot 1), which leaves runs of every length below   *)
(* and above them, and runs that span an empty slot.                       *)
(***************************************************************************)
EXTENDS FreeRange

MC_ENTRIES == 4
MC_PG_SIZE == 1
MC_KERNEL_START_PDE == 3
MC_KERNEL_END_PDE == 4
MC_KERNEL_START_PHYS == 0
MC_KMaps == << >>
MC_PoolFrames == 4..9
MC_MaxCreates == 1
MC_PhysIn  == {8}
MC_VirIn   == {2, 5, 7}
MC_LenIn   == {1, 2}
MC_FlagsIn == {{"P", "RW", "U"}}
MC_CountIn == {1, 2, 3, 5}

(* The window from slot 1 up to the kernel range, as the callers of MM     *)
(* search above the first 4 MB; and the window from address 0.             *)
MC_WindowAbove == {<<4, 12>>}
MC_WindowFromZero == {<<0, 12>>}
=============================================================================
