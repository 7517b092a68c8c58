CONSTANTS
  ENTRIES <- MC_ENTRIES
  PG_SIZE <- MC2_PG_SIZE
  KERNEL_START_PDE <- MC_KERNEL_START_PDE
  KERNEL_END_PDE <- MC_KERNEL_END_PDE
  KERNEL_START_PHYS <- MC_KERNEL_START_PHYS
  Spaces = {s1, s2}
  PoolFrames <- MC_PoolFrames
  KMaps <- MC2_KMaps
  PhysIn <- MC2_PhysIn
  VirIn <- MC2_VirIn
  LenIn <- MC2_LenMisaligned
  FlagsIn <- MC_FlagsIn
  MaxCreates <- MC_MaxCreates
SPECIFICATION Spec

PROPERTY RangeOpsComplete
