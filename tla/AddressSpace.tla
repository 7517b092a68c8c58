---------------------------- MODULE AddressSpace ----------------------------
(***************************************************************************)
(* What the page-table layer of MM promises its callers, as the spec       *)
(* states it (sections 4.2 to 4.4): every live address space is a map from *)
(* virtual pages to entries, created with the kernel range and the         *)
(* registered kernel mappings in it, and changed only by the range         *)
(* operations, each of which touches exactly the pages of its range.       *)
(* An operation is one atomic step here; PageTable carries it out page by  *)
(* page, and PageTable's refinement mapping shows that no caller can tell  *)
(* the difference.                                                         *)
(***************************************************************************)
EXTENDS PTArch, Sequences

CONSTANTS
  Spaces,     \* the address spaces (mm_structs) callers work on
  KMaps,      \* kern_mappings[0..nr_kern_mappings-1]: Seq of [phys, vir, len, flags]
  PhysIn,     \* the physical addresses callers pass
  VirIn,      \* the virtual addresses callers pass
  LenIn,      \* the lengths callers pass
  FlagsIn     \* the protection flags callers pass

VARIABLES
  live,       \* the address spaces that exist
  as          \* as[s][vp]: the entry address space s has for virtual page vp

(* The kernel mappings whose range holds page vp.                          *)
KMapsAt(vp) == {i \in 1..Len(KMaps) : vp \in RangePages(KMaps[i].vir, KMaps[i].len)}

(* What a fresh address space holds: the big pages of the kernel range and *)
(* the registered kernel mappings, nothing else.                           *)
KernelView ==
  [vp \in VPage |->
     IF vp \div ENTRIES \in KernelRange
       THEN [f |-> (KernelPde(vp \div ENTRIES).f + (vp % ENTRIES)) % NPAGES,
             b |-> KernelPde(vp \div ENTRIES).b]
     ELSE IF KMapsAt(vp) # {}
       THEN LET km == KMaps[CHOOSE i \in KMapsAt(vp) : TRUE]
            IN  MapTarget(km.phys, km.vir, vp, km.flags)
     ELSE ZERO]

Empty == [vp \in VPage |-> ZERO]

TypeOK ==
  /\ live \subseteq Spaces
  /\ as \in [Spaces -> [VPage -> Entry]]

Init ==
  /\ live = {}
  /\ as = [s \in Spaces |-> Empty]

Create(s) ==
  /\ s \notin live
  /\ live' = live \cup {s}
  /\ as' = [as EXCEPT ![s] = KernelView]

Destroy(s) ==
  /\ s \in live
  /\ live' = live \ {s}
  /\ as' = [as EXCEPT ![s] = Empty]

(* Apply entry transformer F to the pages of range vir/len of space s.     *)
Update(s, vir, len, F(_)) ==
  /\ s \in live
  /\ as' = [as EXCEPT ![s] =
              [vp \in VPage |-> IF vp \in RangePages(vir, len) THEN F(vp) ELSE @[vp]]]
  /\ UNCHANGED live

MapRange(s, phys, vir, len, flags) ==
  Update(s, vir, len, LAMBDA vp : MapTarget(phys, vir, vp, flags))

UnmapRange(s, vir, len) ==
  Update(s, vir, len, LAMBDA vp : ZERO)

(* Write-protecting a page that has an entry clears exactly its RW bit;    *)
(* a page without one is left alone (pt_wppage's EINVAL).                  *)
WpRange(s, vir, len) ==
  Update(s, vir, len, LAMBDA vp : IF IsNone(as[s][vp]) THEN ZERO
                                  ELSE [as[s][vp] EXCEPT !.b = @ \ {"RW"}])

UnwpRange(s, vir, len) ==
  Update(s, vir, len, LAMBDA vp : IF IsNone(as[s][vp]) THEN ZERO
                                  ELSE [as[s][vp] EXCEPT !.b = @ \cup {"RW"}])

Next ==
  \E s \in Spaces :
     \/ Create(s)
     \/ Destroy(s)
     \/ \E vir \in VirIn, len \in LenIn :
          \/ \E phys \in PhysIn, flags \in FlagsIn : MapRange(s, phys, vir, len, flags)
          \/ UnmapRange(s, vir, len)
          \/ WpRange(s, vir, len)
          \/ UnwpRange(s, vir, len)

vars == <<live, as>>

Spec == Init /\ [][Next]_vars
=============================================================================
