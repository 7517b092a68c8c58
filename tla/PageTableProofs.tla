--------------------------- MODULE PageTableProofs ---------------------------
(***************************************************************************)
(* Proofs about PageTable, for every value of the constants that satisfies *)
(* ArchAssumption and PageTableAssumption.                                 *)
(*                                                                         *)
(* TypeOK is not inductive by itself: a loop step of a range operation     *)
(* reads pgd[op.s], which is a frame only while op.s is live.  TypeInv     *)
(* adds that fact: MM starts a range operation only on a live space, and   *)
(* pgd_free runs only while MM is idle.                                    *)
(***************************************************************************)
EXTENDS PageTable, TLAPS

(* The facts about the constants that the proofs below rest on.           *)
LEMMA ConstFacts ==
  /\ ENTRIES \in Nat \ {0}
  /\ PG_SIZE \in Nat \ {0}
  /\ Spaces # {}
  /\ PoolFrames \subseteq Frame
  /\ PhysIn \subseteq Addr
  /\ VirIn \subseteq Addr
  /\ LenIn \subseteq Addr
  /\ FlagsIn \subseteq SUBSET Bits
  /\ MaxCreates \in Nat
BY ArchAssumption, PageTableAssumption DEF ArchAssumption, PageTableAssumption

LEMMA KMapsType == KMaps \in Seq(KMapRec)
BY PageTableAssumption DEF PageTableAssumption

LEMMA SizesPositive ==
  /\ NPAGES \in Nat \ {0}
  /\ VSIZE \in Nat \ {0}
  /\ 0 \in Frame
  /\ ZERO \in Entry
BY ConstFacts DEF NPAGES, VSIZE, Frame, ZERO, Entry

(* x % NPAGES is a frame number, for any integer x.                        *)
LEMMA ModFrame ==
  ASSUME NEW x \in Int
  PROVE  x % NPAGES \in Frame
BY SizesPositive DEF Frame

(* The address arithmetic of vir_bytes and size_t stays in 32 bits.       *)
LEMMA AddrArith ==
  ASSUME NEW a \in Addr, NEW n \in Nat
  PROVE  /\ AddrAdd(a, n) \in Addr
         /\ AddrSub(a, n) \in Addr
BY SizesPositive DEF AddrAdd, AddrSub, Addr

(* The entry pt_mappage writes is an entry, whatever the address.          *)
LEMMA MkEntryType ==
  ASSUME NEW phys \in Addr, NEW flags \in SUBSET Bits
  PROVE  MkEntry(phys, flags) \in Entry
<1>1. (phys \div PG_SIZE) \in Int
  BY ConstFacts DEF Addr
<1> QED
  BY <1>1, ModFrame DEF MkEntry, Entry

LEMMA KernelPdeType ==
  ASSUME NEW i \in Idx
  PROVE  KernelPde(i) \in Entry
<1>1. KERNEL_START_PHYS + (i - KERNEL_START_PDE) * ENTRIES \in Int
  BY ArchAssumption DEF ArchAssumption, Idx
<1> QED
  BY <1>1, ModFrame DEF KernelPde, Entry, Bits

(* pt_create keeps memory typed and only takes frames from the pool.       *)
LEMMA CreateType ==
  ASSUME NEW m \in [Frame -> [Idx -> Entry]], NEW fr \in SUBSET PoolFrames,
         NEW d, NEW i \in Idx
  PROVE  /\ pt_create(m, fr, d, i).mem \in [Frame -> [Idx -> Entry]]
         /\ pt_create(m, fr, d, i).free \subseteq fr
<1>1. CASE ~IsNone(m[d][i]) \/ fr = {}
  BY <1>1 DEF pt_create
<1>2. CASE IsNone(m[d][i]) /\ fr # {}
  <2> DEFINE t == alloc_vmem(fr)
  <2>1. t \in fr /\ t \in Frame
    BY <1>2, ConstFacts DEF alloc_vmem
  <2>2. PopulatedPde(t) \in Entry
    BY <2>1 DEF PopulatedPde, Entry, Bits
  <2>3. [x \in Idx |-> ZERO] \in [Idx -> Entry]
    BY SizesPositive
  <2>4. [m EXCEPT ![t] = [x \in Idx |-> ZERO], ![d][i] = PopulatedPde(t)]
          \in [Frame -> [Idx -> Entry]]
    BY <2>1, <2>2, <2>3
  <2> QED
    BY <1>2, <2>4 DEF pt_create
<1> QED
  BY <1>1, <1>2

(* The loop variables of a range operation after an iteration are again   *)
(* loop variables, or MM is back to idle.                                  *)
LEMMA IdleOpType == IdleOp \in OpRec /\ IdleOp.fn = "idle"
<1>1. 0 \in Addr /\ 0 \in 0..Len(KMaps) /\ (CHOOSE s \in Spaces : TRUE) \in Spaces
  BY ConstFacts, KMapsType, SizesPositive DEF Addr
<1> QED
  BY <1>1 DEF IdleOp, OpRec, Fns

LEMMA KMapOpType ==
  ASSUME NEW s \in Spaces, NEW k \in 1..Len(KMaps)
  PROVE  KMapOp(s, k) \in OpRec /\ KMapOp(s, k).s = s
<1>1. KMaps[k] \in KMapRec /\ k \in 0..Len(KMaps)
  BY KMapsType
<1> QED
  BY <1>1 DEF KMapOp, OpRec, KMapRec, Fns

LEMMA LoopNextType ==
  ASSUME NEW o \in OpRec
  PROVE  /\ LoopNext(o) \in OpRec
         /\ LoopNext(o).fn # "idle" => LoopNext(o).s = o.s
<1> DEFINE len == AddrSub(o.len, PG_SIZE)
<1>1. len \in Addr /\ AddrAdd(o.phys, PG_SIZE) \in Addr /\ AddrAdd(o.vir, PG_SIZE) \in Addr
  BY AddrArith, ConstFacts DEF OpRec
<1>2. CASE len # 0
  BY <1>1, <1>2 DEF LoopNext, OpRec
<1>3. CASE len = 0 /\ o.k # 0 /\ o.k < Len(KMaps)
  <2>1. o.k + 1 \in 1..Len(KMaps)
    BY <1>3 DEF OpRec
  <2> QED
    BY <1>3, <2>1, KMapOpType DEF LoopNext, OpRec
<1>4. CASE len = 0 /\ ~(o.k # 0 /\ o.k < Len(KMaps))
  BY <1>4, IdleOpType DEF LoopNext
<1> QED
  BY <1>2, <1>3, <1>4

-----------------------------------------------------------------------------
(* The inductive invariant: TypeOK, and a running range operation works on *)
(* a live address space, so its loop writes through a real directory.     *)
TypeInv ==
  /\ TypeOK
  /\ op.fn # "idle" => op.s \in Live

(* The directory of a live space is a frame of the pool.                   *)
LEMMA LiveDir ==
  ASSUME TypeOK, NEW s \in Live
  PROVE  pgd[s] \in PoolFrames /\ pgd[s] \in Frame
BY ConstFacts DEF TypeOK, Live, NoPgd

LEMMA InitTypeInv == Init => TypeInv
<1> SUFFICES ASSUME Init PROVE TypeInv
  OBVIOUS
<1>1. mem \in [Frame -> [Idx -> Entry]]
  BY SizesPositive DEF Init
<1>2. op \in OpRec /\ op.fn = "idle"
  BY IdleOpType DEF Init
<1>3. pgd \in [Spaces -> PoolFrames \cup {NoPgd}]
  BY DEF Init
<1>4. vir_pts \in [Spaces -> [Idx -> PoolFrames \cup {NULL}]]
  BY DEF Init
<1>5. creates \in 0..MaxCreates
  <2>1. MaxCreates \in Nat /\ creates = 0
    BY ConstFacts DEF Init
  <2> QED
    BY <2>1
<1>6. free \subseteq PoolFrames /\ faulted \in BOOLEAN
  BY DEF Init
<1> QED
  BY <1>1, <1>2, <1>3, <1>4, <1>5, <1>6 DEF TypeInv, TypeOK

(* One range-loop iteration through pt_mappage keeps TypeInv.             *)
LEMMA MapStepType ==
  ASSUME TypeInv, NEW phys \in Addr, NEW flags \in SUBSET Bits,
         op.fn # "idle",
         pt_mappage(pgd[op.s], phys, op.vir, flags),
         op' = LoopNext(op),
         UNCHANGED <<pgd, vir_pts, creates>>
  PROVE  TypeInv'
<1> DEFINE d == pgd[op.s]
           c == pt_create(mem, free, d, ARCH_PDE(op.vir))
<1>1. op \in OpRec /\ op.s \in Live /\ TypeOK
  BY DEF TypeInv, TypeOK
<1>2. ARCH_PDE(op.vir) \in Idx /\ ARCH_PTE(op.vir) \in Idx
  BY <1>1, ConstFacts DEF ARCH_PDE, ARCH_PTE, Idx, OpRec, Addr
<1>3. c.mem \in [Frame -> [Idx -> Entry]] /\ c.free \subseteq free
  BY <1>1, <1>2, CreateType DEF TypeOK
<1>4. MkEntry(phys, flags) \in Entry
  BY MkEntryType
<1>5. mem' \in [Frame -> [Idx -> Entry]] /\ free' \subseteq free /\ faulted' \in BOOLEAN
  <2>1. CASE c.ok
    <3>1. mem' = [c.mem EXCEPT ![c.mem[d][ARCH_PDE(op.vir)].f][ARCH_PTE(op.vir)] =
                                 MkEntry(phys, flags)]
      BY <2>1 DEF pt_mappage
    <3>2. free' = c.free /\ faulted' = faulted
      BY <2>1 DEF pt_mappage
    <3> QED
      BY <1>1, <1>2, <1>3, <1>4, <3>1, <3>2 DEF TypeOK
  <2>2. CASE ~c.ok
    BY <2>2, <1>1 DEF pt_mappage, TypeOK
  <2> QED
    BY <2>1, <2>2
<1>6. op' \in OpRec /\ (op'.fn # "idle" => op'.s \in Live')
  BY <1>1, LoopNextType DEF Live
<1> QED
  BY <1>1, <1>5, <1>6 DEF TypeInv, TypeOK

(* One iteration of pt_wp_memory or pt_unwp_memory keeps TypeInv.         *)
LEMMA WpStepType ==
  ASSUME TypeInv, WpStep
  PROVE  TypeInv'
<1> DEFINE d   == pgd[op.s]
           pde == mem[d][ARCH_PDE(op.vir)]
<1>1. op \in OpRec /\ op.s \in Live /\ TypeOK /\ op.fn # "idle"
  BY DEF TypeInv, TypeOK, WpStep
<1>2. d \in Frame /\ ARCH_PDE(op.vir) \in Idx /\ ARCH_PTE(op.vir) \in Idx
  BY <1>1, LiveDir, ConstFacts DEF ARCH_PDE, ARCH_PTE, Idx, OpRec, Addr
<1>3. pde \in Entry /\ pde.f \in Frame
  <2>1. pde \in Entry
    BY <1>1, <1>2 DEF TypeOK
  <2> QED
    BY <2>1 DEF Entry
<1>4. mem[pde.f][ARCH_PTE(op.vir)] \in Entry
  BY <1>1, <1>2, <1>3 DEF TypeOK
<1>5. mem' \in [Frame -> [Idx -> Entry]]
  BY <1>1, <1>2, <1>3, <1>4 DEF WpStep, pt_wppage, TypeOK, Entry, Bits
<1>6. op' \in OpRec /\ (op'.fn # "idle" => op'.s \in Live')
  BY <1>1, LoopNextType DEF WpStep, Live
<1> QED
  BY <1>1, <1>5, <1>6 DEF WpStep, pt_wppage, TypeInv, TypeOK

LEMMA NewType ==
  ASSUME TypeInv, NEW s \in Spaces, pgd_new(s)
  PROVE  TypeInv'
<1>1. TypeOK /\ op.fn = "idle" /\ creates < MaxCreates
  BY DEF TypeInv, pgd_new, Idle
<1>2. CASE free = {}
  <2>1. creates' \in 0..MaxCreates /\ faulted' \in BOOLEAN
    BY <1>1, <1>2, ConstFacts DEF pgd_new, TypeOK
  <2>2. UNCHANGED <<mem, free, pgd, vir_pts, op>>
    BY <1>2 DEF pgd_new
  <2> QED
    BY <1>1, <2>1, <2>2 DEF TypeInv, TypeOK, Live
<1>3. CASE free # {}
  <2> DEFINE d == alloc_vmem(free)
             dir == [i \in Idx |-> IF i \in KernelRange THEN KernelPde(i) ELSE ZERO]
  <2>1. d \in free /\ d \in PoolFrames /\ d \in Frame
    BY <1>1, <1>3, ConstFacts DEF alloc_vmem, TypeOK
  <2>2. dir \in [Idx -> Entry]
    BY KernelPdeType, SizesPositive
  <2>3. /\ free' = free \ {d}
        /\ mem' = [mem EXCEPT ![d] = dir]
        /\ pgd' = [pgd EXCEPT ![s] = d]
        /\ vir_pts' = [vir_pts EXCEPT ![s] = [i \in Idx |-> NULL]]
        /\ op' = IF Len(KMaps) = 0 THEN IdleOp ELSE KMapOp(s, 1)
        /\ faulted' = faulted
        /\ creates' = creates + 1
    BY <1>3 DEF pgd_new
  <2>4. mem' \in [Frame -> [Idx -> Entry]]
    BY <1>1, <2>1, <2>2, <2>3 DEF TypeOK
  <2>5. pgd' \in [Spaces -> PoolFrames \cup {NoPgd}] /\ s \in Live'
    BY <1>1, <2>1, <2>3 DEF TypeOK, Live, NoPgd, Frame
  <2>6. vir_pts' \in [Spaces -> [Idx -> PoolFrames \cup {NULL}]]
    BY <1>1, <2>3 DEF TypeOK
  <2>7. op' \in OpRec /\ (op'.fn # "idle" => op'.s \in Live')
    <3>1. CASE Len(KMaps) = 0
      BY <2>3, <3>1, IdleOpType
    <3>2. CASE Len(KMaps) # 0
      <4>1. 1 \in 1..Len(KMaps)
        BY <3>2, KMapsType
      <4> QED
        BY <2>3, <2>5, <3>2, <4>1, KMapOpType
    <3> QED
      BY <3>1, <3>2
  <2>8. creates' \in 0..MaxCreates /\ free' \subseteq PoolFrames /\ faulted' \in BOOLEAN
    BY <1>1, <2>3, ConstFacts DEF TypeOK
  <2> QED
    BY <2>4, <2>5, <2>6, <2>7, <2>8 DEF TypeInv, TypeOK
<1> QED
  BY <1>2, <1>3

LEMMA FreeType ==
  ASSUME TypeInv, NEW s \in Spaces, pgd_free(s)
  PROVE  TypeInv'
<1>1. TypeOK /\ op.fn = "idle" /\ s \in Live
  BY DEF TypeInv, pgd_free, Idle
<1>2. pgd[s] \in PoolFrames
  BY <1>1, LiveDir
<1>3. free' \subseteq PoolFrames
  BY <1>1, <1>2 DEF pgd_free, TypeOK, NULL
<1>4. pgd' \in [Spaces -> PoolFrames \cup {NoPgd}]
  BY <1>1 DEF pgd_free, TypeOK
<1>5. vir_pts' \in [Spaces -> [Idx -> PoolFrames \cup {NULL}]]
  BY <1>1 DEF pgd_free, TypeOK
<1> QED
  BY <1>1, <1>3, <1>4, <1>5 DEF pgd_free, TypeInv, TypeOK

LEMMA StartType ==
  ASSUME TypeInv, NEW fn \in Fns \ {"idle"}, NEW s \in Spaces, NEW phys \in Addr,
         NEW vir \in Addr, NEW len \in Addr, NEW flags \in SUBSET Bits,
         StartOp(fn, s, phys, vir, len, flags)
  PROVE  TypeInv'
<1>1. op' \in OpRec /\ op'.s = s /\ s \in Live'
  BY ConstFacts DEF StartOp, OpRec, Live
<1> QED
  BY <1>1 DEF StartOp, TypeInv, TypeOK

LEMMA NextTypeInv == TypeInv /\ [Next]_vars => TypeInv'
<1> SUFFICES ASSUME TypeInv, [Next]_vars PROVE TypeInv'
  OBVIOUS
<1>1. ASSUME NEW s \in Spaces, pgd_new(s) PROVE TypeInv'
  BY <1>1, NewType
<1>2. ASSUME NEW s \in Spaces, pgd_free(s) PROVE TypeInv'
  BY <1>2, FreeType
<1>3. ASSUME NEW s \in Spaces, NEW vir \in VirIn, NEW len \in LenIn,
             NEW phys \in PhysIn, NEW flags \in FlagsIn,
             pt_writemap(s, phys, vir, len, flags)
      PROVE TypeInv'
  BY <1>3, StartType, ConstFacts DEF pt_writemap, Fns
<1>4. ASSUME NEW s \in Spaces, NEW vir \in VirIn, NEW len \in LenIn,
             unmap_memory(s, vir, len) \/ pt_wp_memory(s, vir, len) \/ pt_unwp_memory(s, vir, len)
      PROVE TypeInv'
  <2>1. 0 \in Addr
    BY SizesPositive DEF Addr
  <2> QED
    BY <1>4, <2>1, StartType, ConstFacts
    DEF unmap_memory, pt_wp_memory, pt_unwp_memory, Fns
<1>5. CASE WriteMapStep
  <2>1. op \in OpRec /\ op.fn # "idle"
    BY <1>5 DEF WriteMapStep, TypeInv, TypeOK
  <2> QED
    BY <1>5, <2>1, MapStepType DEF WriteMapStep, OpRec
<1>6. CASE UnmapStep
  <2>1. 0 \in Addr /\ op.fn # "idle"
    BY <1>6, SizesPositive DEF UnmapStep, Addr
  <2> QED
    BY <1>6, <2>1, MapStepType DEF UnmapStep
<1>7. CASE WpStep
  BY <1>7, WpStepType
<1>8. CASE UNCHANGED vars \/ BoundReached
  BY <1>8 DEF vars, BoundReached, TypeInv, TypeOK, Live
<1> QED
  BY <1>1, <1>2, <1>3, <1>4, <1>5, <1>6, <1>7, <1>8 DEF Next, LoopStep

(* Type correctness of the page-table state (spec section 3): memory holds *)
(* entries, directories and tables come from the pool, and every range    *)
(* loop's variables stay 32-bit values, across every pgd_new, pgd_free and *)
(* range operation.                                                        *)
THEOREM TypeCorrect == Spec => []TypeOK
<1>1. Init => TypeInv
  BY InitTypeInv
<1>2. TypeInv /\ [Next]_vars => TypeInv'
  BY NextTypeInv
<1>3. TypeInv => TypeOK
  BY DEF TypeInv
<1> QED
  BY <1>1, <1>2, <1>3, PTL DEF Spec

-----------------------------------------------------------------------------
(***************************************************************************)
(* Exclusive ownership of page-table frames.                               *)
(*                                                                         *)
(* A store of pt_mappage or pt_wppage goes to the frame the directory slot *)
(* names.  For a table slot that is the space's own table, which is no    *)
(* directory.  For a big-page slot of the kernel range it is the big      *)
(* page's first frame (line 225 takes the slot for a table), and nothing  *)
(* in the code keeps that frame from being a live directory: in Lyos the  *)
(* pool lies inside the kernel's big pages.  Such a store can rewrite     *)
(* another space's directory, and then no ownership fact survives it.     *)
(* What is proved is that every other step keeps ownership exclusive.     *)
(***************************************************************************)

(* pt_create never records the tables it makes in pgd->vir_pts.           *)
NoCachedTables == \A s \in Spaces, i \in Idx : vir_pts[s][i] = NULL

(* The next step of the running range loop stores through a big-page      *)
(* slot into the frame of a live directory (line 225 with a big-page pde). *)
BigStoreIntoDir ==
  /\ op.fn # "idle"
  /\ LET pde == mem[pgd[op.s]][ARCH_PDE(op.vir)]
     IN  "BIG" \in pde.b /\ \E t \in Live : pde.f = pgd[t]

(* The facts a step that keeps ownership starts from.                     *)
OwnInv ==
  /\ TypeInv
  /\ NoCachedTables
  /\ OwnershipExclusive

(* The frames a live space owns are pool frames the allocator handed out. *)
LEMMA OwnedFrames ==
  ASSUME OwnInv, NEW u \in Live
  PROVE  /\ pgd[u] \in PoolFrames \ free
         /\ Tables(u) \subseteq PoolFrames \ free
<1>1. pgd[u] \in PoolFrames \ free
  BY DEF OwnInv, OwnershipExclusive
<1>2. \A i \in TableSlots(u) : mem[pgd[u]][i].f \in PoolFrames \ free
  BY DEF OwnInv, OwnershipExclusive
<1> QED
  BY <1>1, <1>2 DEF Tables

(* A step that changes no live directory, no directory pointer and not    *)
(* the pool keeps the ownership facts: they read memory only through the  *)
(* live directories.                                                       *)
LEMMA DirsKept ==
  ASSUME OwnInv, pgd' = pgd, free' = free,
         \A t \in Live : mem'[pgd[t]] = mem[pgd[t]]
  PROVE  OwnershipExclusive'
<1>1. Live' = Live
  BY DEF Live
<1>2. \A t \in Live : TableSlots(t)' = TableSlots(t) /\ Tables(t)' = Tables(t)
  BY DEF TableSlots, Tables
<1> QED
  BY <1>1, <1>2 DEF OwnInv, OwnershipExclusive


(* The slot indices a range step reads for its current address.           *)
LEMMA OpSlots ==
  ASSUME TypeInv, op.fn # "idle"
  PROVE  /\ op.s \in Live
         /\ pgd[op.s] \in Frame
         /\ ARCH_PDE(op.vir) \in Idx /\ ARCH_PTE(op.vir) \in Idx
<1>1. op \in OpRec /\ op.s \in Live /\ TypeOK
  BY DEF TypeInv, TypeOK
<1> QED
  BY <1>1, LiveDir, ConstFacts DEF ARCH_PDE, ARCH_PTE, Idx, OpRec, Addr

(* The slot the running loop stores through names no live directory       *)
(* unless the step is a big-page store into one: a table slot names one  *)
(* of the space's tables, which ownership keeps apart from directories.  *)
LEMMA SlotNotDir ==
  ASSUME OwnInv, ~BigStoreIntoDir, op.fn # "idle",
         ~IsNone(mem[pgd[op.s]][ARCH_PDE(op.vir)]), NEW t \in Live
  PROVE  mem[pgd[op.s]][ARCH_PDE(op.vir)].f # pgd[t]
<1> DEFINE s == op.s
           i == ARCH_PDE(op.vir)
<1>1. s \in Live /\ i \in Idx
  BY OpSlots DEF OwnInv
<1>2. CASE "BIG" \in mem[pgd[s]][i].b
  BY <1>2 DEF BigStoreIntoDir
<1>3. CASE "BIG" \notin mem[pgd[s]][i].b
  <2>1. i \in TableSlots(s)
    BY <1>1, <1>3 DEF TableSlots
  <2>2. mem[pgd[s]][i].f \in Tables(s)
    BY <2>1 DEF Tables
  <2> QED
    BY <1>1, <2>2 DEF OwnInv, OwnershipExclusive
<1> QED
  BY <1>2, <1>3

(* pt_wppage and pt_unwppage store only through the slot the loop is at.  *)
LEMMA OwnWpStep ==
  ASSUME OwnInv, ~BigStoreIntoDir, WpStep
  PROVE  OwnershipExclusive'
<1> DEFINE d   == pgd[op.s]
           pde == mem[d][ARCH_PDE(op.vir)]
<1>1. op.s \in Live /\ ARCH_PDE(op.vir) \in Idx
  BY OpSlots DEF OwnInv, WpStep
<1>4. pgd' = pgd /\ free' = free
  BY DEF WpStep, pt_wppage
<1>2. CASE ~IsNone(pde) /\ ~IsNone(mem[pde.f][ARCH_PTE(op.vir)])
  <2>1. \A t \in Live : pde.f # pgd[t]
    BY <1>2, SlotNotDir DEF WpStep
  <2>2. mem' = [mem EXCEPT ![pde.f][ARCH_PTE(op.vir)].b =
                  IF op.fn = "unwp" THEN @ \cup {"RW"} ELSE @ \ {"RW"}]
    BY <1>2 DEF WpStep, pt_wppage
  <2>3. \A t \in Live : mem'[pgd[t]] = mem[pgd[t]]
    <3> SUFFICES ASSUME NEW t \in Live PROVE mem'[pgd[t]] = mem[pgd[t]]
      OBVIOUS
    <3>1. pgd[t] \in Frame /\ mem \in [Frame -> [Idx -> Entry]]
      BY LiveDir DEF OwnInv, TypeInv, TypeOK
    <3> QED
      BY <2>1, <2>2, <3>1
  <2> QED
    BY <2>3, <1>4, DirsKept
<1>3. CASE ~(~IsNone(pde) /\ ~IsNone(mem[pde.f][ARCH_PTE(op.vir)]))
  <2>1. mem' = mem
    BY <1>3 DEF WpStep, pt_wppage
  <2> QED
    BY <2>1, <1>4, DirsKept
<1> QED
  BY <1>2, <1>3


(* One pt_mappage keeps the ownership facts.  Through a non-empty slot it *)
(* stores into a frame that is no live directory.  Into an empty slot     *)
(* pt_create puts a frame that was free, so no directory and no other    *)
(* slot has it.                                                           *)
LEMMA OwnMapStep ==
  ASSUME OwnInv, ~BigStoreIntoDir, NEW phys, NEW flags, op.fn # "idle",
         pt_mappage(pgd[op.s], phys, op.vir, flags),
         UNCHANGED <<pgd, vir_pts, creates>>
  PROVE  OwnershipExclusive'
<1> DEFINE s0 == op.s
           d  == pgd[s0]
           i  == ARCH_PDE(op.vir)
           j  == ARCH_PTE(op.vir)
           c  == pt_create(mem, free, d, i)
           e  == MkEntry(phys, flags)
<1>1. /\ s0 \in Live /\ d \in Frame /\ i \in Idx /\ j \in Idx
      /\ mem \in [Frame -> [Idx -> Entry]]
      /\ d \in PoolFrames \ free
  BY OpSlots DEF OwnInv, TypeInv, TypeOK, OwnershipExclusive
<1>2. CASE ~IsNone(mem[d][i])
  <2>1. mem' = [mem EXCEPT ![mem[d][i].f][j] = e] /\ free' = free
    BY <1>2 DEF pt_mappage, pt_create
  <2>2. \A t \in Live : mem[d][i].f # pgd[t]
    BY <1>2, SlotNotDir
  <2>3. \A t \in Live : mem'[pgd[t]] = mem[pgd[t]]
    <3> SUFFICES ASSUME NEW t \in Live PROVE mem'[pgd[t]] = mem[pgd[t]]
      OBVIOUS
    <3>1. pgd[t] \in Frame
      BY LiveDir DEF OwnInv, TypeInv
    <3> QED
      BY <1>1, <2>1, <2>2, <3>1
  <2> QED
    BY <2>1, <2>3, DirsKept
<1>3. CASE IsNone(mem[d][i]) /\ free = {}
  <2>1. mem' = mem /\ free' = free
    BY <1>3 DEF pt_mappage, pt_create
  <2> QED
    BY <2>1, DirsKept
<1>4. CASE IsNone(mem[d][i]) /\ free # {}
  <2> DEFINE t0 == alloc_vmem(free)
             m1 == [mem EXCEPT ![t0] = [x \in Idx |-> ZERO], ![d][i] = PopulatedPde(t0)]
  <2>1. t0 \in free /\ t0 \in PoolFrames /\ t0 \in Frame /\ t0 # d
    BY <1>1, <1>4, ConstFacts DEF alloc_vmem, OwnInv, TypeInv, TypeOK
  <2>2. m1[d][i].f = t0
    BY <1>1, <2>1 DEF PopulatedPde
  <2>3. mem' = [m1 EXCEPT ![t0][j] = e] /\ free' = free \ {t0}
    BY <1>4, <2>2 DEF pt_mappage, pt_create
  <2>4. \A u \in Live : pgd[u] \in Frame /\ pgd[u] # t0 /\ (u # s0 => pgd[u] # d)
    BY <1>1, <2>1, LiveDir DEF OwnInv, TypeInv, OwnershipExclusive
  <2>5. \A u \in Live, k \in Idx :
          mem'[pgd[u]][k] = IF u = s0 /\ k = i THEN PopulatedPde(t0) ELSE mem[pgd[u]][k]
    BY <1>1, <2>1, <2>3, <2>4
  <2>6. Live' = Live
    BY DEF Live
  <2>8. \A u \in Live :
          /\ TableSlots(u)' = IF u = s0 THEN TableSlots(u) \cup {i} ELSE TableSlots(u)
          /\ \A k \in TableSlots(u)' :
               mem'[pgd[u]][k].f = IF u = s0 /\ k = i THEN t0 ELSE mem[pgd[u]][k].f
    <3> SUFFICES ASSUME NEW u \in Live
                 PROVE  /\ TableSlots(u)' = IF u = s0 THEN TableSlots(u) \cup {i} ELSE TableSlots(u)
                        /\ \A k \in TableSlots(u)' :
                             mem'[pgd[u]][k].f = IF u = s0 /\ k = i THEN t0 ELSE mem[pgd[u]][k].f
      OBVIOUS
    <3>1. TableSlots(u)' = {k \in Idx : ~IsNone(mem'[pgd[u]][k]) /\ "BIG" \notin mem'[pgd[u]][k].b}
      BY DEF TableSlots
    <3>2. ~IsNone(PopulatedPde(t0)) /\ "BIG" \notin PopulatedPde(t0).b
      BY DEF PopulatedPde, IsNone, ZERO
    <3>3. CASE u = s0
      <4>1. \A k \in Idx : mem'[pgd[u]][k] = IF k = i THEN PopulatedPde(t0) ELSE mem[pgd[u]][k]
        BY <3>3, <2>5
      <4>2. TableSlots(u)' = TableSlots(u) \cup {i}
        <5>1. \A k \in Idx : k \in TableSlots(u)' <=> (k = i \/ k \in TableSlots(u))
          BY <3>1, <3>2, <4>1 DEF TableSlots
        <5>2. TableSlots(u)' \subseteq Idx /\ TableSlots(u) \subseteq Idx
          BY <3>1 DEF TableSlots
        <5> QED
          BY <5>1, <5>2, <1>1
      <4>3. \A k \in TableSlots(u)' :
              mem'[pgd[u]][k].f = IF u = s0 /\ k = i THEN t0 ELSE mem[pgd[u]][k].f
        BY <3>1, <3>3, <4>1 DEF PopulatedPde
      <4> QED
        BY <3>3, <4>2, <4>3
    <3>4. CASE u # s0
      BY <3>1, <3>4, <2>5 DEF TableSlots
    <3> QED
      BY <3>3, <3>4
  <2>9. i \notin TableSlots(s0)
    BY <1>4 DEF TableSlots
  <2>10. \A u \in Live : \A k \in TableSlots(u) : mem[pgd[u]][k].f # t0
    BY <2>1 DEF OwnInv, OwnershipExclusive
  <2>11. OwnershipExclusive'
    <3> SUFFICES ASSUME NEW u \in Live
                 PROVE  /\ pgd[u] \in PoolFrames \ free'
                        /\ \A k \in TableSlots(u)' : mem'[pgd[u]][k].f \in PoolFrames \ free'
                        /\ \A v \in Live :
                             /\ u # v => pgd[u] # pgd[v]
                             /\ pgd[v] \notin Tables(u)'
                             /\ \A k \in TableSlots(u)', l \in TableSlots(v)' :
                                  mem'[pgd[u]][k].f = mem'[pgd[v]][l].f => (u = v /\ k = l)
      BY <2>6 DEF OwnershipExclusive, Tables
    <3>1. pgd[u] \in PoolFrames \ free'
      BY <2>3 DEF OwnInv, OwnershipExclusive
    <3>2. ASSUME NEW k \in TableSlots(u)' PROVE mem'[pgd[u]][k].f \in PoolFrames \ free'
      <4>1. CASE u = s0 /\ k = i
        <5>1. mem'[pgd[u]][k].f = t0
          BY <4>1, <2>8
        <5>2. t0 \in PoolFrames \ free'
          BY <2>1, <2>3
        <5> QED
          BY <5>1, <5>2
      <4>2. CASE ~(u = s0 /\ k = i)
        <5>1. k \in TableSlots(u) /\ mem'[pgd[u]][k].f = mem[pgd[u]][k].f
          BY <4>2, <2>8
        <5>2. mem[pgd[u]][k].f \in PoolFrames \ free
          BY <5>1 DEF OwnInv, OwnershipExclusive
        <5>3. free' \subseteq free
          BY <2>3
        <5> QED
          BY <5>1, <5>2, <5>3
      <4> QED
        BY <4>1, <4>2
    <3>3. ASSUME NEW v \in Live PROVE pgd[v] \notin Tables(u)'
      <4>1. Tables(u)' = {mem'[pgd[u]][k].f : k \in TableSlots(u)'}
        BY DEF Tables
      <4> QED
        BY <4>1, <2>4, <2>8 DEF OwnInv, OwnershipExclusive, Tables
    <3>4. ASSUME NEW v \in Live, NEW k \in TableSlots(u)', NEW l \in TableSlots(v)',
                 mem'[pgd[u]][k].f = mem'[pgd[v]][l].f
          PROVE  u = v /\ k = l
      <4>1. CASE u = s0 /\ k = i /\ v = s0 /\ l = i
        BY <4>1
      <4>2. CASE (u = s0 /\ k = i) /\ ~(v = s0 /\ l = i)
        BY <3>4, <4>2, <2>8, <2>10
      <4>3. CASE ~(u = s0 /\ k = i) /\ (v = s0 /\ l = i)
        BY <3>4, <4>3, <2>8, <2>10
      <4>4. CASE ~(u = s0 /\ k = i) /\ ~(v = s0 /\ l = i)
        <5>1. k \in TableSlots(u) /\ l \in TableSlots(v)
          BY <3>4, <4>4, <2>8
        <5>2. mem[pgd[u]][k].f = mem[pgd[v]][l].f
          BY <3>4, <4>4, <2>8, <5>1
        <5> QED
          BY <5>1, <5>2 DEF OwnInv, OwnershipExclusive
      <4> QED
        BY <4>1, <4>2, <4>3, <4>4
    <3> QED
      BY <3>1, <3>2, <3>3, <3>4 DEF OwnInv, OwnershipExclusive
  <2> QED
    BY <2>11
<1> QED
  BY <1>2, <1>3, <1>4


(* pgd_new hands the space a frame that was free, fills it with the big   *)
(* pages of the kernel range and empty slots, and so gives the new space  *)
(* no table yet.                                                          *)
LEMMA OwnNew ==
  ASSUME OwnInv, NEW s \in Spaces, pgd_new(s)
  PROVE  OwnershipExclusive'
<1>1. free = {} => UNCHANGED <<mem, free, pgd>>
  BY DEF pgd_new
<1>2. CASE free = {}
  BY <1>1, <1>2, DirsKept
<1>3. CASE free # {}
  <2> DEFINE d   == alloc_vmem(free)
             dir == [k \in Idx |-> IF k \in KernelRange THEN KernelPde(k) ELSE ZERO]
  <2>1. /\ free' = free \ {d}
        /\ mem' = [mem EXCEPT ![d] = dir]
        /\ pgd' = [pgd EXCEPT ![s] = d]
        /\ pgd[s] = NoPgd
    BY <1>3 DEF pgd_new
  <2>2. d \in free /\ d \in PoolFrames /\ d \in Frame
    BY <1>3, ConstFacts DEF alloc_vmem, OwnInv, TypeInv, TypeOK
  <2>3. s \notin Live /\ Live' = Live \cup {s}
    BY <2>1, <2>2, ConstFacts DEF Live, NoPgd, Frame, OwnInv, TypeInv, TypeOK
  <2>4. \A u \in Live : pgd[u] \in Frame /\ pgd[u] # d /\ d \notin Tables(u)
    <3> SUFFICES ASSUME NEW u \in Live PROVE pgd[u] \in Frame /\ pgd[u] # d /\ d \notin Tables(u)
      OBVIOUS
    <3>1. pgd[u] \in Frame
      BY LiveDir DEF OwnInv, TypeInv
    <3> QED
      BY <3>1, <2>2, OwnedFrames
  <2>5. mem \in [Frame -> [Idx -> Entry]] /\ pgd \in [Spaces -> PoolFrames \cup {NoPgd}]
    BY DEF OwnInv, TypeInv, TypeOK
  <2>6. \A u \in Live : pgd'[u] = pgd[u] /\ mem'[pgd'[u]] = mem[pgd[u]]
    BY <2>1, <2>3, <2>4, <2>5
  <2>7. \A u \in Live : TableSlots(u)' = TableSlots(u) /\ Tables(u)' = Tables(u)
    BY <2>6 DEF TableSlots, Tables
  <2>8. pgd'[s] = d /\ mem'[d] = dir
    BY <2>1, <2>2, <2>5
  <2>9. TableSlots(s)' = {} /\ Tables(s)' = {}
    <3>1. \A k \in Idx : IsNone(dir[k]) \/ "BIG" \in dir[k].b
      BY DEF KernelPde, IsNone
    <3> QED
      BY <2>8, <3>1 DEF TableSlots, Tables
  <2>11. OwnershipExclusive'
    <3> SUFFICES ASSUME NEW u \in Live'
                 PROVE  /\ pgd'[u] \in PoolFrames \ free'
                        /\ \A k \in TableSlots(u)' : mem'[pgd'[u]][k].f \in PoolFrames \ free'
                        /\ \A v \in Live' :
                             /\ u # v => pgd'[u] # pgd'[v]
                             /\ pgd'[v] \notin Tables(u)'
                             /\ \A k \in TableSlots(u)', l \in TableSlots(v)' :
                                  mem'[pgd'[u]][k].f = mem'[pgd'[v]][l].f => (u = v /\ k = l)
      BY DEF OwnershipExclusive
    <3>1. CASE u = s
      BY <3>1, <2>1, <2>2, <2>3, <2>4, <2>6, <2>8, <2>9
    <3>2. CASE u # s
      <4>1. u \in Live
        BY <3>2, <2>3
      <4>2. pgd'[u] \in PoolFrames \ free'
        <5>1. pgd'[u] = pgd[u]
          BY <4>1, <2>6
        <5>2. pgd[u] \in PoolFrames \ free
          BY <4>1, OwnedFrames
        <5> QED
          BY <5>1, <5>2, <2>1
      <4>3. \A k \in TableSlots(u)' : mem'[pgd'[u]][k].f \in PoolFrames \ free'
        BY <4>1, <2>1, <2>6, <2>7 DEF OwnInv, OwnershipExclusive
      <4>4. ASSUME NEW v \in Live'
            PROVE  /\ u # v => pgd'[u] # pgd'[v]
                   /\ pgd'[v] \notin Tables(u)'
                   /\ \A k \in TableSlots(u)', l \in TableSlots(v)' :
                        mem'[pgd'[u]][k].f = mem'[pgd'[v]][l].f => (u = v /\ k = l)
        <5>1. CASE v = s
          BY <5>1, <4>1, <2>4, <2>6, <2>7, <2>8, <2>9
        <5>2. CASE v # s
          <6>1. v \in Live
            BY <5>2, <2>3
          <6> QED
            BY <4>1, <6>1, <2>6, <2>7 DEF OwnInv, OwnershipExclusive
        <5> QED
          BY <5>1, <5>2
      <4> QED
        BY <4>2, <4>3, <4>4
    <3> QED
      BY <3>1, <3>2
  <2> QED
    BY <2>11
<1> QED
  BY <1>2, <1>3

(* pgd_free gives back only the directory frame (vir_pts holds no table), *)
(* which no other live space uses.                                        *)
LEMMA OwnFree ==
  ASSUME OwnInv, NEW s \in Spaces, pgd_free(s)
  PROVE  OwnershipExclusive'
<1>1. s \in Live
  BY DEF pgd_free
<1>2. {vir_pts[s][k] : k \in {x \in Idx : vir_pts[s][x] # NULL}} = {}
  BY DEF OwnInv, NoCachedTables
<1>3. free' = free \cup {pgd[s]} /\ mem' = mem /\ pgd' = [pgd EXCEPT ![s] = NoPgd]
  BY <1>2 DEF pgd_free
<1>4. pgd \in [Spaces -> PoolFrames \cup {NoPgd}]
  BY DEF OwnInv, TypeInv, TypeOK
<1>5. Live' = Live \ {s} /\ \A u \in Live' : pgd'[u] = pgd[u]
  BY <1>3, <1>4 DEF Live
<1>6. \A u \in Live' : TableSlots(u)' = TableSlots(u) /\ Tables(u)' = Tables(u)
  BY <1>3, <1>5 DEF TableSlots, Tables
<1>7. \A u \in Live' : pgd[u] # pgd[s] /\ pgd[s] \notin Tables(u)
  BY <1>1, <1>5 DEF OwnInv, OwnershipExclusive
<1>9. OwnershipExclusive'
  <2> SUFFICES ASSUME NEW u \in Live'
               PROVE  /\ pgd'[u] \in PoolFrames \ free'
                      /\ \A k \in TableSlots(u)' : mem'[pgd'[u]][k].f \in PoolFrames \ free'
                      /\ \A v \in Live' :
                           /\ u # v => pgd'[u] # pgd'[v]
                           /\ pgd'[v] \notin Tables(u)'
                           /\ \A k \in TableSlots(u)', l \in TableSlots(v)' :
                                mem'[pgd'[u]][k].f = mem'[pgd'[v]][l].f => (u = v /\ k = l)
    BY DEF OwnershipExclusive
  <2>1. u \in Live
    BY <1>5
  <2>2. pgd'[u] \in PoolFrames \ free'
    BY <2>1, <1>3, <1>5, <1>7 DEF OwnInv, OwnershipExclusive
  <2>3. \A k \in TableSlots(u)' : mem'[pgd'[u]][k].f \in PoolFrames \ free'
    <3> SUFFICES ASSUME NEW k \in TableSlots(u) PROVE mem[pgd[u]][k].f \in PoolFrames \ free'
      BY <1>3, <1>5, <1>6
    <3>1. mem[pgd[u]][k].f \in Tables(u)
      BY DEF Tables
    <3> QED
      BY <3>1, <2>1, <1>3, <1>7 DEF OwnInv, OwnershipExclusive
  <2>4. \A v \in Live' :
          /\ u # v => pgd'[u] # pgd'[v]
          /\ pgd'[v] \notin Tables(u)'
          /\ \A k \in TableSlots(u)', l \in TableSlots(v)' :
               mem'[pgd'[u]][k].f = mem'[pgd'[v]][l].f => (u = v /\ k = l)
    BY <2>1, <1>3, <1>5, <1>6 DEF OwnInv, OwnershipExclusive
  <2> QED
    BY <2>2, <2>3, <2>4
<1> QED
  BY <1>9


LEMMA NoCachedTablesStep ==
  ASSUME TypeOK, NoCachedTables, [Next]_vars
  PROVE  NoCachedTables'
<1>0. vir_pts \in [Spaces -> [Idx -> PoolFrames \cup {NULL}]]
  BY DEF TypeOK
<1>1. ASSUME NEW s \in Spaces, pgd_new(s) \/ pgd_free(s) PROVE NoCachedTables'
  <2>1. vir_pts' = vir_pts \/ vir_pts' = [vir_pts EXCEPT ![s] = [i \in Idx |-> NULL]]
    BY <1>1 DEF pgd_new, pgd_free
  <2> QED
    BY <1>0, <2>1 DEF NoCachedTables
<1>2. ASSUME ~\E s \in Spaces : pgd_new(s) \/ pgd_free(s) PROVE vir_pts' = vir_pts
  BY <1>2 DEF Next, vars, BoundReached, LoopStep, WriteMapStep, UnmapStep, WpStep, StartOp,
             pt_writemap, unmap_memory, pt_wp_memory, pt_unwp_memory
<1> QED
  BY <1>1, <1>2 DEF NoCachedTables

LEMMA OwnStep ==
  ASSUME OwnInv, ~BigStoreIntoDir, [Next]_vars
  PROVE  OwnershipExclusive'
<1>1. ASSUME NEW s \in Spaces, pgd_new(s) PROVE OwnershipExclusive'
  BY <1>1, OwnNew
<1>2. ASSUME NEW s \in Spaces, pgd_free(s) PROVE OwnershipExclusive'
  BY <1>2, OwnFree
<1>3. ASSUME NEW fn, NEW s, NEW phys, NEW vir, NEW len, NEW flags,
             StartOp(fn, s, phys, vir, len, flags)
      PROVE  OwnershipExclusive'
  BY <1>3, DirsKept DEF StartOp
<1>4. CASE WriteMapStep
  BY <1>4, OwnMapStep DEF WriteMapStep
<1>5. CASE UnmapStep
  BY <1>5, OwnMapStep DEF UnmapStep
<1>6. CASE WpStep
  BY <1>6, OwnWpStep
<1>7. CASE UNCHANGED vars \/ BoundReached
  BY <1>7, DirsKept DEF vars, BoundReached
<1> QED
  BY <1>1, <1>2, <1>3, <1>4, <1>5, <1>6, <1>7
  DEF Next, LoopStep, pt_writemap, unmap_memory, pt_wp_memory, pt_unwp_memory

LEMMA InitOwnInv == Init => OwnInv
<1> SUFFICES ASSUME Init PROVE OwnInv
  OBVIOUS
<1>1. Live = {}
  BY ConstFacts DEF Init, Live, NoPgd
<1> QED
  BY <1>1, InitTypeInv DEF OwnInv, NoCachedTables, OwnershipExclusive, Init

(* Every step of the page-table code keeps exclusive ownership of         *)
(* directory and table frames (no frame at once free and in use, none     *)
(* serving two spaces or two slots), across every interleaving of         *)
(* pgd_new, pgd_free and the page-by-page range loops, except a store     *)
(* through a big-page slot that lands in a live directory (line 225).     *)
(* From Init, ownership thus holds until the first such store.            *)
OwnershipKept ==
  [][OwnershipExclusive /\ ~BigStoreIntoDir => OwnershipExclusive']_vars

(* The type facts and the empty vir_pts hold in every reachable state.    *)
LEMMA CachedTablesSafe == Spec => [](TypeInv /\ NoCachedTables)
<1>1. Init => TypeInv /\ NoCachedTables
  BY InitOwnInv DEF OwnInv
<1>2. TypeInv /\ NoCachedTables /\ [Next]_vars => TypeInv' /\ NoCachedTables'
  BY NextTypeInv, NoCachedTablesStep DEF TypeInv
<1> QED
  BY <1>1, <1>2, PTL DEF Spec

(* Ownership is kept by every step but the big-page store into a live     *)
(* directory, for every value of the constants and with no assumption on  *)
(* where the kernel's big pages lie.                                       *)
THEOREM OwnershipKeptSafe == Spec => OwnershipKept
<1>1. TypeInv /\ NoCachedTables /\ [Next]_vars =>
        [OwnershipExclusive /\ ~BigStoreIntoDir => OwnershipExclusive']_vars
  BY OwnStep DEF OwnInv
<1>2. Spec => [][Next]_vars
  BY PTL DEF Spec
<1> QED
  BY <1>1, <1>2, CachedTablesSafe, PTL DEF OwnershipKept

=============================================================================
