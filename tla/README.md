# Lyos MM page tables: a TLA+ verification project

This project models the page-table layer of the Lyos memory manager (MM),
`src/servers/mm/pagetable.c`, on its i386 backend
(`src/include/arch/x86/asm/page.h`). TLC model-checks the modules, and TLAPS
proves, for every value of the constants, type correctness and that every
step except a store through a kernel big page keeps frame ownership exclusive.

## The system and its parts

MM is a single-threaded server that owns every user address space. For each
space (an `mm_struct`) it keeps a page directory (`pgdir_t`). The directory
holds the frame of the directory itself (`vir_addr`, `phys_addr`) and an array
`vir_pts` of cached page-table pointers. The parts are these:

| Part | Code | Module |
|---|---|---|
| Translation backend: index arithmetic, entry encoding, flag bits, the two-level walk with big pages | `page.h` 25-130 | `PTArch` |
| Address-space manager: `pgd_new` plus `pgd_mapkernel`, and `pgd_free` plus `pgd_clear` | 393-473 | `PageTable` |
| Mapping operations: `pt_mappage`, `pt_wppage`, `pt_unwppage`, and the range loops `pt_writemap`, `pt_wp_memory`, `pt_unwp_memory`, `unmap_memory` | 167-343, 548-563 | `PageTable` |
| Contract of the mapping layer (spec sections 4.2-4.4) | | `AddressSpace` |
| Free-range finder `pgd_find_free_pages` | 481-527 | `FreeRange` |
| Kernel-mapping registry `kern_mappings` | 36-43, 348-390 | `PageTable` (the constant `KMaps`) |
| Bootstrap `pt_init`; `pgd_bind`; `mm_allocate`, `mm_init`, `mm_free` | 59-165, 475-479 | not modelled yet |

The parts interact as follows:
- `pgd_new` takes a directory frame from the pool with `alloc_vmem`.
- `pgd_mapkernel` then writes the big-page entries of the kernel range and replays every registered kernel mapping with `pt_writemap`.
- Every range operation stores one entry per page through `pt_mappage`, `pt_wppage` or `pt_unwppage`.
- When a directory slot is empty, `pt_create` takes a page table from the same pool.
- `pgd_free` gives the directory back, and `pgd_clear` gives back the tables recorded in `vir_pts`.

## How the model corresponds to the code

`PTArch` (constants `ENTRIES`, `PG_SIZE`, `KERNEL_START_PDE`, `KERNEL_END_PDE`, `KERNEL_START_PHYS`):
- A directory and a table are both one frame of `ENTRIES` entries. `ENTRIES` stands for `ARCH_VM_DIR_ENTRIES`, which equals `ARCH_VM_PT_ENTRIES` on i386.
- An entry is a record holding a frame number `f` and a set of bits `b` drawn from `{P, RW, U, BIG}`. `ZERO` is the none entry.
- Addresses are counted in address units, `PG_SIZE` units to a page.
- All arithmetic on `vir_bytes`, `phys_bytes` and `size_t` is done modulo `VSIZE = ENTRIES^2 * PG_SIZE`, which is 2^32 on i386. `AddrAdd` and `AddrSub` keep that width, because the loop counters wrap.
- `Walk` is the hardware's two-level walk, big pages included. It is not code of MM: the refinement mapping reads each space's mappings through it, as the MMU would. `pgd_va2pa` changes no state and is not modelled.

`PageTable` has these variables:
- `mem[f][i]` is entry `i` of physical frame `f`. A store "through" an entry goes to whatever frame the entry names.
- `free` is the pool `alloc_vmem` draws from.
- `pgd[s]` is the directory frame of space `s`, or `NoPgd`.
- `vir_pts[s]` is `pgd->vir_pts`.
- `op` is the range loop in progress: its function and its loop variables `phys_addr`, `vir_addr`, `length` and `flags`. The field `k > 0` marks `pgd_mapkernel`'s replay of `kern_mappings[k-1]`.
- `faulted` records a store through NULL.
- `creates` counts `pgd_new` calls. `pgd_new` is enabled only while `creates < MaxCreates`, which is the model's bound and not a condition of the code. `pgd_free` has no such guard. When the bound is reached and every space has been freed, the action `BoundReached` stutters, so that TLC does not report the end of the bounded behaviour as a deadlock.

Each request is one action:
- `pgd_new` and `pgd_free` are single actions.
- `pt_writemap`, `pt_wp_memory`, `pt_unwp_memory` and `unmap_memory` are split in two. `StartOp` runs the sanity checks and sets up the loop variables. `WriteMapStep`, `WpStep` and `UnmapStep` each run one iteration of the `while (1)` loop: one call of `pt_mappage` or `pt_wppage`/`pt_unwppage`, the three decrements and increments, and the exit test `length <= 0` on the unsigned counter.

Because MM is single-threaded, every request action is guarded by `Idle`, and only the current loop's step is enabled while the loop runs. `pt_mappage` contains the whole of `pt_create_map` and `pt_create`:
- when the slot is empty and the pool is empty, it records a NULL store (`faulted`), just as the code writes through the empty slot;
- it checks none of the errors the code does not check.

`AddressSpace` is what the spec promises callers. A live space is a map from virtual pages to entries:
- a space is created holding the kernel view;
- each range operation changes exactly the pages of its range, in one step.

`PageTable` implements it under the mapping `ASView`. `ASView` is the walk of each live directory, with the pages a running loop has not reached yet shown at the value the loop will give them. A running operation therefore appears to callers as one atomic change, and it happens at the `StartOp` step.

`FreeRange` translates the two nested loops of `pgd_find_free_pages` into the recursive operators `ScanPde` and `ScanPte`, which keep the loop variables `nr_pages`, `allocated_pages` and `retaddr`. The reference it is checked against is `LowestFreeRun`: the lowest page that starts `n` pages which the walk finds unmapped, or 0 when there is none.

`alloc_vmem` returns a fixed frame of the pool (`CHOOSE`). Pool frames are interchangeable: no property distinguishes one from another, so taking one fixed frame loses no behaviour that the properties could tell apart.

## Runs

| Run | Config | Expect | Checks | What it shows |
|---|---|---|---|---|
| pagetable_core | `MCPageTable.cfg` | pass | `TypeOK`, `OwnershipExclusive`, `AddressSpaceRefined`, `RangeOpsComplete` | With two spaces, up to two `pgd_new` calls, every range operation and two kernel mappings, the following all hold (140,555 distinct states): no frame is free and owned at once, and no frame is owned twice; every step is an `AddressSpace` step or a stutter; every loop ends. |
| freerange | `MCFreeRange.cfg` | pass | `FindFreeLowest` | For every directory that can be reached and a window above page 0, `pgd_find_free_pages` returns exactly the lowest run of unmapped pages that fits (which implies the range is unmapped) (89,313 states). |
| len0 | `MCPageTable_len0.cfg` | violation | `AddressSpaceRefined` | A length of 0 wraps the `size_t` counter, and the loop maps the whole space. |
| misaligned | `MCPageTable_misaligned.cfg` | violation | `RangeOpsComplete` | With a length that is not a multiple of the page size, the counter never reaches 0 and the loop never ends. |
| pool | `MCPageTable_pool.cfg` | violation | `NoNullWrite` | When the pool runs dry, `pgd_new` or `pt_create_map` stores through NULL. |
| leak | `MCPageTable_leak.cfg` | violation | `NoLeak` | `pgd_free` never returns the page tables, because `vir_pts` is never filled. |
| freerange_zero | `MCFreeRange_zero.cfg` | violation | `FindFreeSound` | Searching from address 0, the `retaddr == 0` sentinel makes the answer one page late, so the returned range covers a mapped page. |

The properties:
- **`OwnershipExclusive`**: across all live spaces, the directory frames and the frames their non-big slots point to are pairwise distinct, and none of them is in the pool. It can only be broken by several steps of several spaces, for example a table freed while it is still referenced, or a frame handed out twice.
- **`AddressSpaceRefined`**: `AS!Spec` as a temporal property, so the page-by-page loops are checked against the atomic contract.
- **`RangeOpsComplete`**: `op.fn # "idle" ~> op.fn = "idle"`.
- **`FindFreeLowest`**: compares the scan with the reference over every reachable directory. It catches a wrong reset of `nr_pages`, of `allocated_pages` or of `retaddr`.

Every property of a passing run also has a mutant in `PROJECT.json`. The mutant is a plausible bug in the code it models, and TLC finds the property violated when the mutant is used.

**Bounds.** The instances have 4 slots of 4 pages. They include:
- user slots;
- one kernel big page;
- the kernel-mapping window at `PKMAP_START`;
- two spaces, which is the fewest that can share or steal frames;
- two `pgd_new` calls, so that a frame freed by one space can be handed to another;
- a caller range that crosses from slot 0 into slot 1, so that `pt_create` runs inside the loop, both from the empty slot and from the full one;
- kernel mappings with both kernel-only and user flags.

`MCFreeRange` maps pages at 2, 5 and 7. This leaves free runs of 1, 2, 3 and 5 pages, both inside a table and across an empty slot, so each reset in the scan has a case that tells it apart.

The runs use no symmetry. The two spaces are interchangeable, but the refinement and the liveness properties are checked in the same run, and symmetry reduction is not sound for them.

**Fairness.** `Spec` assumes `WF_vars(LoopStep)`. Once MM has started a range operation it runs the loop to the end without waiting for anything, because the loop body makes no IPC calls. A loop step that stays enabled is therefore taken. No fairness is assumed for requests: a caller may never send one.

## What is proved (`PageTableProofs`)

- **`TypeCorrect`** proves `Spec => []TypeOK`. The invariant is strengthened to `TypeInv`, which adds that a running operation belongs to a live space, because `pt_mappage` writes into `pgd[op.s]`. The proof has one lemma per action, and each rests on lemmas about `pt_create`, `pt_mappage`, `pt_wppage` and `LoopNext` preserving types. The constant facts come from the named assumptions `ArchAssumption` and `PageTableAssumption`.
- **`OwnershipKeptSafe`** proves `Spec => OwnershipKept`, with no assumption on the constants beyond the named ones. `OwnershipKept` is the action property `[][OwnershipExclusive /\ ~BigStoreIntoDir => OwnershipExclusive']_vars`: every step that starts from exclusive ownership keeps it, unless it is a store through a big-page slot whose frame is a live directory (`BigStoreIntoDir`). That store is the hazard at line 225, and it is reachable in Lyos: low memory is direct-mapped through the kernel's big pages, so the pool lies inside them. The theorem therefore says what the page-table code itself guarantees, and excludes exactly the step it cannot guarantee. The argument:
  - `CachedTablesSafe` proves `Spec => [](TypeInv /\ NoCachedTables)`. `NoCachedTables` says `vir_pts` stays all-NULL, because `pt_create` never fills it. Without it, `pgd_clear` could free a live table.
  - `OwnStep` proves that under `OwnInv` (`TypeInv`, `NoCachedTables` and `OwnershipExclusive`) and `~BigStoreIntoDir`, each action keeps `OwnershipExclusive`. The proof has one step per action. For `pt_mappage` it splits three ways: the slot is full, the pool is empty, or `pt_create` takes a fresh frame. `SlotNotDir` shows that a store through a table slot never lands in a directory.
  - The last step combines the two by PTL.

  `OwnershipExclusive` itself is checked with TLC in `pagetable_core`, and the mutant of `pt_create` that leaves the new table in the pool breaks it.

These stay with TLC:
- **Liveness** (`RangeOpsComplete`): TLAPS does not reason about fairness or ENABLED.
- **The refinement** (`AddressSpaceRefined`): it is checked as a property, not proved.
- **`FreeRange`**: its scan is a RECURSIVE operator, and a module that reaches one cannot hold theorems.

## What is not modelled, and what comes next

Not modelled yet:
- `pt_init` (bootstrap pool, copy of the active directory, user flag on high kernel pdes, `pgd_bind`);
- the negotiation loop of `pt_kern_mapping_init`, whose off-by-one check is at line 357;
- `mm_struct` reference counting;
- the un-write-protect round trip of spec section 8.

These are listed as hazards in `PROJECT.json`, with notes. The plan for later work:
- a `KernMapping` module for the registry loop, with its off-by-one and the `PKMAP_END` bound;
- a `Bootstrap` module for `pt_init`, with a kernel-range agreement invariant across directories (lines 98 and 431);
- a history variable for the protect/unprotect round trip;
- proofs of more invariants, starting with the shape of directories (kernel range intact).

The rest of `src/` lies outside the page-table subsystem: VFS pipes, PM, the kernel core, drivers, libraries and utilities. It is listed as not modelled.

Spec section 8 has a scenario with an occupied leaf at local index 5 and a request for 4 pages. That scenario describes index 0 as too short, although it is 5 pages long. The code returns index 0, and `FindFreeLowest` agrees with the code.
