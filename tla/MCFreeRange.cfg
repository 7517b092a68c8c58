CONSTANTS
  ENTRIES <- MC_ENTRIES
  PG_SIZE <- MC_PG_SIZE
  KERNEL_START_PDE <- MC_KERNEL_START_PDE
  KERNEL_END_PDE <- MC_KERNEL_END_PDE
  KERNEL_START_PHYS <- MC_KERNEL_START_PHYS
  Spaces = {s1}
  PoolFrames <- MC_PoolFrames
  KMaps <- MC_KMaps
  PhysIn <- MC_PhysIn
  VirIn <- MC_VirIn
  LenIn <- MC_LenIn
  FlagsIn <- MC_FlagsIn
  MaxCreates <- MC_MaxCreates
  CountIn <- MC_CountIn
  WindowIn <- MC_WindowAbove

SPECIFICATION Spec

INVARIANT FindFreeLowest
