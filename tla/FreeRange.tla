------------------------------ MODULE FreeRange ------------------------------
(***************************************************************************)
(* pgd_find_free_pages (servers/mm/pagetable.c): the search for a run of   *)
(* nr_pages unused virtual pages between the directory slots of minv and   *)
(* maxv, read off the page-table state of PageTable, and the reference it  *)
(* is checked against: the lowest page-aligned run of free pages in that   *)
(* window, as spec section 4.5 describes it.                               *)
(***************************************************************************)
EXTENDS PageTable, FiniteSetsExt

CONSTANTS
  CountIn,     \* the page counts callers ask for
  WindowIn     \* the <<minv, maxv>> address windows callers search

FreeRangeAssumption ==
  /\ CountIn \subseteq Nat \ {0}
  /\ WindowIn \subseteq Addr \X Addr
ASSUME FreeRangeAssumption

(* The scan of pgd_find_free_pages over directory d, at slot i, with the   *)
(* loop variables nr_pages (nr), allocated_pages (run) and retaddr (ret).  *)
(* A slot without a table counts as ENTRIES free pages; a slot with one    *)
(* is read entry by entry, and any non-zero entry resets the run.  The    *)
(* value 0 is both "not found" and the address of page 0.                 *)
RECURSIVE ScanPde(_, _, _, _, _, _), ScanPte(_, _, _, _, _, _, _),
          ScanPte_norestore(_, _, _, _, _, _, _)

(* A scan that does not give back the pages of the broken run to nr_pages. *)
ScanPte_norestore(d, i, j, end, nr, run, ret) ==
  IF j >= ENTRIES THEN ScanPde(d, i + 1, end, nr, run, ret)
  ELSE LET used == mem[mem[d][i].f][j] # ZERO
           nr2  == IF used THEN nr ELSE nr - 1
           run2 == IF used THEN 0 ELSE run + 1
           ret2 == IF used THEN 0
                   ELSE IF ret = 0 THEN ARCH_VM_ADDRESS(i, j) ELSE ret
       IN  IF nr2 <= 0 THEN ret2 ELSE ScanPte(d, i, j + 1, end, nr2, run2, ret2)

ScanPde(d, i, end, nr, run, ret) ==
  IF i >= end THEN 0
  ELSE IF IsNone(mem[d][i])
    THEN LET ret2 == IF ret = 0 THEN ARCH_VM_ADDRESS(i, 0) ELSE ret IN
         IF nr - ENTRIES <= 0 THEN ret2
         ELSE ScanPde(d, i + 1, end, nr - ENTRIES, run + ENTRIES, ret2)
    ELSE ScanPte(d, i, 0, end, nr, run, ret)

ScanPte(d, i, j, end, nr, run, ret) ==
  IF j >= ENTRIES THEN ScanPde(d, i + 1, end, nr, run, ret)
  ELSE LET used == mem[mem[d][i].f][j] # ZERO
           nr2  == IF used THEN nr + run ELSE nr - 1
           run2 == IF used THEN 0 ELSE run + 1
           ret2 == IF used THEN 0
                   ELSE IF ret = 0 THEN ARCH_VM_ADDRESS(i, j) ELSE ret
       IN  IF nr2 <= 0 THEN ret2 ELSE ScanPte(d, i, j + 1, end, nr2, run2, ret2)

pgd_find_free_pages(d, nr_pages, minv, maxv) ==
  ScanPde(d, ARCH_PDE(minv), ARCH_PDE(maxv), nr_pages, 0, 0)

(* Reference: a page is free when a walk of the directory finds nothing;   *)
(* the answer is the address of the lowest page starting n free pages     *)
(* that lie in the window, or 0 when there is none.                        *)
FreePage(d, vp) == Walk(mem, d, vp * PG_SIZE) = ZERO

FreeRunsAt(d, n, lo, hi) ==
  {p \in (lo * ENTRIES)..(hi * ENTRIES - n) :
     \A k \in 0..n-1 : FreePage(d, p + k)}

LowestFreeRun(d, n, lo, hi) ==
  IF FreeRunsAt(d, n, lo, hi) = {} THEN 0
  ELSE Min(FreeRunsAt(d, n, lo, hi)) * PG_SIZE

(* Spec 8: the range pgd_find_free_pages returns is never in use: every    *)
(* one of the n pages from the returned address is unmapped.              *)
FindFreeSound ==
  \A s \in Live, n \in CountIn, w \in WindowIn :
     LET r == pgd_find_free_pages(pgd[s], n, w[1], w[2]) IN
     r # 0 => \A k \in 0..n-1 : FreePage(pgd[s], (r \div PG_SIZE + k) % NPAGES)

(* Spec 4.5: pgd_find_free_pages returns the lowest sufficient run of free *)
(* pages in the window, and "not found" exactly when there is none.        *)
FindFreeLowest ==
  \A s \in Live, n \in CountIn, w \in WindowIn :
     pgd_find_free_pages(pgd[s], n, w[1], w[2]) =
       LowestFreeRun(pgd[s], n, ARCH_PDE(w[1]), ARCH_PDE(w[2]))
=============================================================================
