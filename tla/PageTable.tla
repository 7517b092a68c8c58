------------------------------ MODULE PageTable ------------------------------
(***************************************************************************)
(* The steady-state page-table operations of MM (servers/mm/pagetable.c)   *)
(* on the i386 backend: pgd_new (with pgd_mapkernel), pgd_free (with       *)
(* pgd_clear), pt_writemap, pt_wp_memory, pt_unwp_memory and unmap_memory, *)
(* each range operation looping over pt_mappage, pt_wppage or pt_unwppage  *)
(* one page per step.                                                      *)
(*                                                                         *)
(* MM serves one request at a time, so a started operation runs its loop   *)
(* to the end before the next request is taken: every request action is   *)
(* guarded by op.fn = "idle", and only the loop step of the current        *)
(* operation is enabled while it runs.                                     *)
(*                                                                         *)
(* Physical memory is modelled at the granularity page tables see it:      *)
(* mem[f] is the frame f read as ENTRIES entries.  Directories and page    *)
(* tables are frames handed out by alloc_vmem from the pool free, and a    *)
(* write "through" a directory entry goes to the frame that entry names,   *)
(* whatever that frame really holds.                                       *)
(***************************************************************************)
EXTENDS PTArch, Integers, Sequences, FiniteSets

CONSTANTS
  Spaces,       \* the address spaces (mm_structs) callers work on
  PoolFrames,   \* the frames alloc_vmem can hand out
  KMaps,        \* kern_mappings[0..nr_kern_mappings-1]: Seq of [phys, vir, len, flags]
  PhysIn,       \* the physical addresses callers pass
  VirIn,        \* the virtual addresses callers pass
  LenIn,        \* the lengths callers pass
  FlagsIn,      \* the protection flags callers pass
  MaxCreates    \* bound on the number of pgd_new calls of a behaviour

(* The entries of the registry pt_kern_mapping_init fills in: consecutive  *)
(* virtual ranges from PKMAP_START = KERNEL_VMA + LOWMEM_END, the first    *)
(* address after the kernel range (lines 376 and 384).                     *)
PKMAP_START == ARCH_VM_ADDRESS(KERNEL_END_PDE, 0)

KMapRec == [phys : Addr, vir : Addr, len : Addr, flags : SUBSET Bits]

PageTableAssumption ==
  /\ Spaces # {}
  /\ PoolFrames \subseteq Frame
  /\ KMaps \in Seq(KMapRec)
  /\ Len(KMaps) > 0 => KMaps[1].vir = PKMAP_START
  /\ \A i \in 1..Len(KMaps) - 1 : KMaps[i+1].vir = AddrAdd(KMaps[i].vir, KMaps[i].len)
  /\ PhysIn \subseteq Addr
  /\ VirIn \subseteq Addr
  /\ LenIn \subseteq Addr
  /\ FlagsIn \subseteq SUBSET Bits
  /\ MaxCreates \in Nat
ASSUME PageTableAssumption

NoPgd == -1        \* an mm_struct whose pgdir_t holds no directory
NULL  == -1        \* a NULL slot of pgd->vir_pts

Fns == {"idle", "writemap", "unmap", "wp", "unwp"}

(* The loop a range operation is in: its function, the address space, and  *)
(* the loop variables phys_addr, vir_addr, length and flags.  k > 0 says   *)
(* that pgd_mapkernel is replaying kern_mappings[k-1] for the directory of *)
(* space s; k = 0 is a call of a caller.                                   *)
OpRec == [fn : Fns, s : Spaces, phys : Addr, vir : Addr, len : Addr,
          flags : SUBSET Bits, k : 0..Len(KMaps)]

VARIABLES
  mem,       \* mem[f][i]: entry i of physical frame f
  free,      \* the frames alloc_vmem can still hand out
  pgd,       \* pgd[s]: the directory frame of space s (pgd->vir_addr), or NoPgd
  vir_pts,   \* vir_pts[s][i]: pgd->vir_pts[i], the cached page-table pointers
  op,        \* the range operation MM is executing
  faulted,   \* MM has written through a NULL pointer
  creates    \* the number of pgd_new calls so far

vars == <<mem, free, pgd, vir_pts, op, faulted, creates>>

IdleOp == [fn |-> "idle", s |-> CHOOSE s \in Spaces : TRUE, phys |-> 0,
           vir |-> 0, len |-> 0, flags |-> {}, k |-> 0]

Live == {s \in Spaces : pgd[s] # NoPgd}

TypeOK ==
  /\ mem \in [Frame -> [Idx -> Entry]]
  /\ free \subseteq PoolFrames
  /\ pgd \in [Spaces -> PoolFrames \cup {NoPgd}]
  /\ vir_pts \in [Spaces -> [Idx -> PoolFrames \cup {NULL}]]
  /\ op \in OpRec
  /\ faulted \in BOOLEAN
  /\ creates \in 0..MaxCreates

-----------------------------------------------------------------------------
(* alloc_vmem (outside src/): a free frame, or none when the pool is empty. *)
(* Frames of the pool are interchangeable, so the model takes a fixed one. *)
alloc_vmem(fr) == CHOOSE t \in fr : TRUE

(* A pt_create whose new table is never taken out of the pool: the frame *)
(* can be handed out again while the slot still uses it.                   *)
pt_create_keepfree(m, fr, d, i) ==
  IF ~IsNone(m[d][i]) THEN [mem |-> m, free |-> fr, ok |-> TRUE]
  ELSE IF fr = {} THEN [mem |-> m, free |-> fr, ok |-> FALSE]
  ELSE LET t == alloc_vmem(fr) IN
       [mem  |-> [m EXCEPT ![t] = [x \in Idx |-> ZERO], ![d][i] = PopulatedPde(t)],
        free |-> fr,
        ok   |-> TRUE]

(* pt_create for slot i of directory d in memory m and pool fr: nothing to *)
(* do when the slot already holds an entry (any entry, a big page too);    *)
(* otherwise take a frame, zero its entries and populate the slot, or      *)
(* report ENOMEM (ok = FALSE) when alloc_vmem returns NULL.                *)
pt_create(m, fr, d, i) ==
  IF ~IsNone(m[d][i]) THEN [mem |-> m, free |-> fr, ok |-> TRUE]
  ELSE IF fr = {} THEN [mem |-> m, free |-> fr, ok |-> FALSE]
  ELSE LET t == alloc_vmem(fr) IN
       [mem  |-> [m EXCEPT ![t] = [x \in Idx |-> ZERO], ![d][i] = PopulatedPde(t)],
        free |-> fr \ {t},
        ok   |-> TRUE]

(* pt_mappage: pmd_create and pt_create_map reach the table for vir,       *)
(* creating it if absent, and the leaf entry is overwritten.  pt_create_map *)
(* ignores pt_create's ENOMEM; pte_offset then reads the still-empty slot, *)
(* whose frame is 0, and the store goes to MM's virtual address 0: a NULL  *)
(* write.                                                                  *)
pt_mappage(d, phys, vir, flags) ==
  LET c == pt_create(mem, free, d, ARCH_PDE(vir)) IN
  IF c.ok
    THEN /\ mem' = [c.mem EXCEPT ![c.mem[d][ARCH_PDE(vir)].f][ARCH_PTE(vir)] =
                                   MkEntry(phys, flags)]
         /\ free' = c.free
         /\ UNCHANGED faulted
    ELSE /\ faulted' = TRUE
         /\ UNCHANGED <<mem, free>>

(* A pt_wppage without the pte_none check of lines 252 and 283.           *)
pt_wppage_nopte(d, vir, set) ==
  LET pde == mem[d][ARCH_PDE(vir)]
      pte == mem[pde.f][ARCH_PTE(vir)]
  IN  /\ mem' = IF ~IsNone(pde)
                  THEN [mem EXCEPT ![pde.f][ARCH_PTE(vir)].b =
                                     IF set THEN @ \cup {"RW"} ELSE @ \ {"RW"}]
                  ELSE mem
      /\ UNCHANGED <<free, faulted>>

(* pt_wppage (set = FALSE) and pt_unwppage (set = TRUE): EINVAL unless the *)
(* directory slot and the leaf entry are both non-empty; otherwise only    *)
(* the RW bit of the leaf entry changes.                                   *)
pt_wppage(d, vir, set) ==
  LET pde == mem[d][ARCH_PDE(vir)]
      pte == mem[pde.f][ARCH_PTE(vir)]
      present == ~IsNone(pde) /\ ~IsNone(pte)
  IN  /\ mem' = IF present
                  THEN [mem EXCEPT ![pde.f][ARCH_PTE(vir)].b =
                                     IF set THEN @ \cup {"RW"} ELSE @ \ {"RW"}]
                  ELSE mem
      /\ UNCHANGED <<free, faulted>>

(* The loop variables after one iteration of a range loop: length -=       *)
(* ARCH_PG_SIZE and the addresses advance (unmap_memory passes phys 0 on   *)
(* every call).  length is a size_t, so "length <= 0" holds only when it   *)
(* is exactly 0.  When pgd_mapkernel's replay of kern_mappings[k-1] ends,  *)
(* the next registered mapping starts.                                     *)
KMapOp(s, k) ==
  [fn |-> "writemap", s |-> s, phys |-> KMaps[k].phys, vir |-> KMaps[k].vir,
   len |-> KMaps[k].len, flags |-> KMaps[k].flags, k |-> k]

(* A range loop that forgets "length -= ARCH_PG_SIZE".                    *)
LoopNext_nodec(o) ==
  LET len == o.len IN
  IF len # 0
    THEN [o EXCEPT !.phys = IF o.fn = "writemap" THEN AddrAdd(@, PG_SIZE) ELSE @,
                   !.vir  = AddrAdd(@, PG_SIZE),
                   !.len  = len]
  ELSE IF o.k # 0 /\ o.k < Len(KMaps) THEN KMapOp(o.s, o.k + 1)
  ELSE IdleOp

LoopNext(o) ==
  LET len == AddrSub(o.len, PG_SIZE) IN
  IF len # 0
    THEN [o EXCEPT !.phys = IF o.fn = "writemap" THEN AddrAdd(@, PG_SIZE) ELSE @,
                   !.vir  = AddrAdd(@, PG_SIZE),
                   !.len  = len]
  ELSE IF o.k # 0 /\ o.k < Len(KMaps) THEN KMapOp(o.s, o.k + 1)
  ELSE IdleOp

Idle == op.fn = "idle" /\ ~faulted

-----------------------------------------------------------------------------
(* pgd_new: take a frame for the directory, zero it and the cached table   *)
(* pointers, and run pgd_mapkernel: the big pages of the kernel range,     *)
(* then a pt_writemap of every registered kernel mapping.  alloc_vmem's    *)
(* result is not checked: with no frame left the zeroing loop writes       *)
(* through NULL.                                                           *)
pgd_new(s) ==
  /\ Idle
  /\ pgd[s] = NoPgd
  /\ creates < MaxCreates
  /\ creates' = creates + 1
  /\ IF free = {}
       THEN /\ faulted' = TRUE
            /\ UNCHANGED <<mem, free, pgd, vir_pts, op>>
       ELSE LET d == alloc_vmem(free) IN
            /\ free' = free \ {d}
            /\ mem' = [mem EXCEPT ![d] = [i \in Idx |->
                                            IF i \in KernelRange THEN KernelPde(i) ELSE ZERO]]
            /\ pgd' = [pgd EXCEPT ![s] = d]
            /\ vir_pts' = [vir_pts EXCEPT ![s] = [i \in Idx |-> NULL]]
            /\ op' = IF Len(KMaps) = 0 THEN IdleOp ELSE KMapOp(s, 1)
            /\ UNCHANGED faulted

(* A pgd_clear without the "if (pgd->vir_pts[i])" of line 466: NULL slots *)
(* are handed to free_vmem as well.                                        *)
pgd_free_nonull(s) ==
  /\ Idle
  /\ s \in Live
  /\ free' = free \cup {pgd[s]} \cup {vir_pts[s][i] : i \in Idx}
  /\ vir_pts' = [vir_pts EXCEPT ![s] = [i \in Idx |-> NULL]]
  /\ pgd' = [pgd EXCEPT ![s] = NoPgd]
  /\ UNCHANGED <<mem, op, faulted, creates>>

(* pgd_free: pgd_clear frees every page table recorded in vir_pts and      *)
(* clears the slots, then the directory frame goes back to the allocator.  *)
(* The space's mm_struct no longer holds a directory.                      *)
pgd_free(s) ==
  /\ Idle
  /\ s \in Live
  /\ free' = free \cup {pgd[s]} \cup {vir_pts[s][i] : i \in {x \in Idx : vir_pts[s][x] # NULL}}
  /\ vir_pts' = [vir_pts EXCEPT ![s] = [i \in Idx |-> NULL]]
  /\ pgd' = [pgd EXCEPT ![s] = NoPgd]
  /\ UNCHANGED <<mem, op, faulted, creates>>

(* A call of a range operation: the loop starts with the caller's          *)
(* arguments; the alignment checks only print.                             *)
StartOp(fn, s, phys, vir, len, flags) ==
  /\ Idle
  /\ s \in Live
  /\ op' = [fn |-> fn, s |-> s, phys |-> phys, vir |-> vir, len |-> len,
            flags |-> flags, k |-> 0]
  /\ UNCHANGED <<mem, free, pgd, vir_pts, faulted, creates>>

pt_writemap(s, phys, vir, len, flags) == StartOp("writemap", s, phys, vir, len, flags)
unmap_memory(s, vir, len)             == StartOp("unmap", s, 0, vir, len, {})
pt_wp_memory(s, vir, len)             == StartOp("wp", s, 0, vir, len, {})
pt_unwp_memory(s, vir, len)           == StartOp("unwp", s, 0, vir, len, {})

(* One iteration of the loop of pt_writemap, unmap_memory (pt_mappage with *)
(* phys 0 and flags 0), pt_wp_memory or pt_unwp_memory.                     *)
WriteMapStep ==
  /\ op.fn = "writemap" /\ ~faulted
  /\ pt_mappage(pgd[op.s], op.phys, op.vir, op.flags)
  /\ op' = LoopNext(op)
  /\ UNCHANGED <<pgd, vir_pts, creates>>

UnmapStep ==
  /\ op.fn = "unmap" /\ ~faulted
  /\ pt_mappage(pgd[op.s], 0, op.vir, {})
  /\ op' = LoopNext(op)
  /\ UNCHANGED <<pgd, vir_pts, creates>>

WpStep ==
  /\ op.fn \in {"wp", "unwp"} /\ ~faulted
  /\ pt_wppage(pgd[op.s], op.vir, op.fn = "unwp")
  /\ op' = LoopNext(op)
  /\ UNCHANGED <<pgd, vir_pts, creates>>

LoopStep == WriteMapStep \/ UnmapStep \/ WpStep

(* The model's bound: MaxCreates pgd_new calls have been made and every    *)
(* space has been freed again.  MM would go on serving pgd_new; the model  *)
(* stops here, and says so, rather than report a deadlock.                 *)
BoundReached ==
  /\ Idle
  /\ creates = MaxCreates
  /\ Live = {}
  /\ UNCHANGED vars

-----------------------------------------------------------------------------
Init ==
  /\ mem = [f \in Frame |-> [i \in Idx |-> ZERO]]
  /\ free = PoolFrames
  /\ pgd = [s \in Spaces |-> NoPgd]
  /\ vir_pts = [s \in Spaces |-> [i \in Idx |-> NULL]]
  /\ op = IdleOp
  /\ faulted = FALSE
  /\ creates = 0

Next ==
  \/ \E s \in Spaces :
       \/ pgd_new(s)
       \/ pgd_free(s)
       \/ \E vir \in VirIn, len \in LenIn :
            \/ \E phys \in PhysIn, flags \in FlagsIn : pt_writemap(s, phys, vir, len, flags)
            \/ unmap_memory(s, vir, len)
            \/ pt_wp_memory(s, vir, len)
            \/ pt_unwp_memory(s, vir, len)
  \/ LoopStep
  \/ BoundReached

(* MM runs the loop of the request it is serving to its end: nothing else  *)
(* runs in MM meanwhile, so the loop step stays enabled until it is taken. *)
Spec == Init /\ [][Next]_vars /\ WF_vars(LoopStep)

-----------------------------------------------------------------------------
(***************************************************************************)
(* Properties.                                                             *)
(***************************************************************************)

(* The frames a live directory's slots point to as page tables: every     *)
(* non-empty slot that is not a big page.                                  *)
TableSlots(s) == {i \in Idx : ~IsNone(mem[pgd[s]][i]) /\ "BIG" \notin mem[pgd[s]][i].b}
Tables(s)     == {mem[pgd[s]][i].f : i \in TableSlots(s)}

(* Exclusive ownership of page-table frames (spec sections 3 and 9): a     *)
(* live directory and each page table reachable from one are frames the    *)
(* allocator has handed out, and no frame serves twice, neither as two     *)
(* directories, nor as a directory and a table, nor as the table of two    *)
(* slots.  Broken, a pt_mappage for one space, or pt_create zeroing a     *)
(* fresh table, would rewrite entries another space or slot relies on.     *)
OwnershipExclusive ==
  \A s \in Live :
     /\ pgd[s] \in PoolFrames \ free
     /\ \A i \in TableSlots(s) : mem[pgd[s]][i].f \in PoolFrames \ free
     /\ \A t \in Live :
          /\ s # t => pgd[s] # pgd[t]
          /\ pgd[t] \notin Tables(s)
          /\ \A i \in TableSlots(s), j \in TableSlots(t) :
               mem[pgd[s]][i].f = mem[pgd[t]][j].f => (s = t /\ i = j)

(* Every range operation MM starts, pgd_mapkernel's replay of the kernel   *)
(* mappings included, finishes: the size_t loop counters of pt_writemap,   *)
(* pt_wp_memory, pt_unwp_memory and unmap_memory reach exactly 0.          *)
RangeOpsComplete == (op.fn # "idle") ~> (op.fn = "idle")

(* Every frame of the pool is free, a live directory, or a page table of   *)
(* one (spec 4.2: destroy frees every realized table, then the directory). *)
NoLeak ==
  \A f \in PoolFrames : f \in free \/ \E s \in Live : f = pgd[s] \/ f \in Tables(s)

(* MM never writes through a NULL pointer: running out of frames is an     *)
(* ordinary ENOMEM for the caller (spec section 7), never a crash of MM.   *)
NoNullWrite == ~faulted

-----------------------------------------------------------------------------
(***************************************************************************)
(* Refinement of AddressSpace.  A live space's abstract map is what a walk *)
(* of its directory finds, except for the pages the running operation has  *)
(* still to write: those already have the value the operation will give    *)
(* them, so the whole operation is one abstract step taken when it starts  *)
(* and every loop iteration is a stutter.                                  *)
(***************************************************************************)
Current(s, vp) == Walk(mem, pgd[s], vp * PG_SIZE)

(* The pages the running operation has still to write for space s, with   *)
(* the entries it will write.                                              *)
PendingPages(s) ==
  IF op.fn = "idle" \/ op.s # s THEN {}
  ELSE RangePages(op.vir, op.len)
       \cup UNION {RangePages(KMaps[i].vir, KMaps[i].len) :
                     i \in {x \in 1..Len(KMaps) : op.k # 0 /\ x > op.k}}

PendingTarget(s, vp) ==
  IF vp \in RangePages(op.vir, op.len)
    THEN CASE op.fn = "writemap" -> MapTarget(op.phys, op.vir, vp, op.flags)
           [] op.fn = "unmap"    -> ZERO
           [] op.fn = "wp"       -> IF IsNone(Current(s, vp)) THEN ZERO
                                    ELSE [Current(s, vp) EXCEPT !.b = @ \ {"RW"}]
           [] op.fn = "unwp"     -> IF IsNone(Current(s, vp)) THEN ZERO
                                    ELSE [Current(s, vp) EXCEPT !.b = @ \cup {"RW"}]
    ELSE LET km == KMaps[CHOOSE i \in 1..Len(KMaps) :
                           i > op.k /\ vp \in RangePages(KMaps[i].vir, KMaps[i].len)]
         IN  MapTarget(km.phys, km.vir, vp, km.flags)

ASView ==
  [s \in Spaces |->
     IF pgd[s] = NoPgd THEN [vp \in VPage |-> ZERO]
     ELSE [vp \in VPage |-> IF vp \in PendingPages(s) THEN PendingTarget(s, vp)
                                                     ELSE Current(s, vp)]]

AS == INSTANCE AddressSpace WITH live <- Live, as <- ASView

(* The page-table operations implement the address-space contract: every  *)
(* caller sees each range operation take effect on exactly the pages of    *)
(* its range, fresh spaces hold the kernel range and the kernel mappings,  *)
(* and no operation on one space changes what another space maps.          *)
AddressSpaceRefined == AS!Spec
=============================================================================
