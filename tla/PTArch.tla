------------------------------- MODULE PTArch -------------------------------
(***************************************************************************)
(* The i386 page-table backend of the memory manager (MM), as used by      *)
(* servers/mm/pagetable.c: two levels (the pmd level is folded into the    *)
(* directory, so pmd_offset/pmd_create are the identity), directory        *)
(* entries that either point to a page table or map a big page, and       *)
(* leaf entries that hold a physical frame and protection bits.            *)
(*                                                                         *)
(* Data abstraction.  ENTRIES stands for ARCH_VM_DIR_ENTRIES, which on     *)
(* i386 equals ARCH_VM_PT_ENTRIES (1024); a directory and a page table    *)
(* are both one frame of ENTRIES entries.  Addresses are counted in        *)
(* address units, PG_SIZE of them to a page; the virtual space and the     *)
(* physical space both have ENTRIES * ENTRIES pages (2^32 bytes on i386),  *)
(* and 32-bit address arithmetic wraps modulo VSIZE.  An entry value       *)
(* (pde_t or pte_t) is a frame number and a set of flag bits; the value 0  *)
(* (frame 0, no bits) is the "none" entry.                                 *)
(***************************************************************************)
EXTENDS Naturals

CONSTANTS
  ENTRIES,            \* ARCH_VM_DIR_ENTRIES = ARCH_VM_PT_ENTRIES
  PG_SIZE,            \* ARCH_PG_SIZE, in address units
  KERNEL_START_PDE,   \* kernel_info.kernel_start_pde
  KERNEL_END_PDE,     \* ARCH_PDE(KERNEL_VMA + LOWMEM_END)
  KERNEL_START_PHYS   \* kernel_info.kernel_start_phys, as a frame number

ArchAssumption ==
  /\ ENTRIES \in Nat \ {0}
  /\ PG_SIZE \in Nat \ {0}
  /\ KERNEL_START_PDE \in 0..ENTRIES-1
  /\ KERNEL_END_PDE \in KERNEL_START_PDE..ENTRIES
  /\ KERNEL_START_PHYS \in Nat
ASSUME ArchAssumption

Idx    == 0..ENTRIES-1             \* indices of a directory or a table
NPAGES == ENTRIES * ENTRIES        \* pages (and frames) of the address space
VSIZE  == NPAGES * PG_SIZE         \* 2^32: size of vir_bytes / phys_bytes
Addr   == 0..VSIZE-1
Frame  == 0..NPAGES-1
VPage  == 0..NPAGES-1

(* I386_PG_PRESENT, I386_PG_RW, I386_PG_USER, I386_PG_BIGPAGE.            *)
Bits  == {"P", "RW", "U", "BIG"}
Entry == [f : Frame, b : SUBSET Bits]
ZERO  == [f |-> 0, b |-> {}]

(* pde_none, pmde_none, pte_none: !pde_val(x).                             *)
IsNone(e) == e = ZERO

(* ARCH_PDE(x), ARCH_PTE(x) and ARCH_VM_ADDRESS(pde, pte, 0).              *)
ARCH_PDE(v) == (v \div (ENTRIES * PG_SIZE)) % ENTRIES
ARCH_PTE(v) == (v \div PG_SIZE) % ENTRIES
ARCH_VM_ADDRESS(i, j) == (i * ENTRIES + j) * PG_SIZE

(* Address arithmetic on vir_bytes, phys_bytes and size_t (32 bits).       *)
AddrAdd(a, n) == (a + n) % VSIZE
AddrSub(a, n) == (a + VSIZE - (n % VSIZE)) % VSIZE

(* __pte((phys_addr & ARCH_PG_MASK) | flags): the entry pt_mappage writes. *)
MkEntry(phys, flags) == [f |-> (phys \div PG_SIZE) % NPAGES, b |-> flags]

(* The directory entry pgd_mapkernel writes at index pde of the kernel     *)
(* range: __pde(addr | ARCH_PG_PRESENT | ARCH_PG_BIGPAGE | ARCH_PG_RW),    *)
(* addr advancing by ARCH_BIG_PAGE_SIZE (ENTRIES pages) per entry.         *)
KernelPde(pde) ==
  [f |-> (KERNEL_START_PHYS + (pde - KERNEL_START_PDE) * ENTRIES) % NPAGES,
   b |-> {"P", "BIG", "RW"}]

(* The k-th page of the range that starts at virtual address vir.          *)
Page(vir, k) == (vir \div PG_SIZE + k) % NPAGES

(* The pages a range of len address units starting at vir covers: len     *)
(* divided by the page size, as the spec's map_range promises.            *)
RangePages(vir, len) == {Page(vir, k) : k \in 0..(len \div PG_SIZE) - 1}

(* The offset of page vp inside the range that starts at vir.              *)
Offset(vir, vp) == (vp + NPAGES - vir \div PG_SIZE) % NPAGES

(* The entry map_range gives page vp of the range phys/vir.                *)
MapTarget(phys, vir, vp, flags) ==
  MkEntry(AddrAdd(phys, Offset(vir, vp) * PG_SIZE), flags)

KernelRange == KERNEL_START_PDE..(KERNEL_END_PDE - 1)

(* pmde_populate(pmde, pt): the entry that makes a directory slot point to *)
(* the page table in frame t (present, writable, user).                    *)
PopulatedPde(t) == [f |-> t, b |-> {"P", "RW", "U"}]

(* The entry a two-level walk from directory frame d reaches for virtual   *)
(* address v in memory m: what the process owning the directory sees at v. *)
(* An empty directory slot means nothing is mapped below it; a big-page    *)
(* slot yields the frame at offset ARCH_PTE(v) inside the big page, with   *)
(* the directory entry's bits; otherwise the leaf entry of the table.      *)
Walk(m, d, v) ==
  LET pde == m[d][ARCH_PDE(v)] IN
  IF "BIG" \in pde.b
    THEN [f |-> (pde.f + ARCH_PTE(v)) % NPAGES, b |-> pde.b]
    ELSE IF IsNone(pde) THEN ZERO ELSE m[pde.f][ARCH_PTE(v)]
=============================================================================
