SPECIFICATION Spec
CONSTANTS
  Clients = {c1}
  Root = root
  Forkers = {f1}
  Lnsps = {}
  NumChunks = 5
  PIDCHUNK = 2
  PID_MAXSYS = 0
  CHUNK_PREALLOCATE = 1
  MAX_CHUNKS_TO_RELEASE = 1
  NPROC <- MCNPROC
  NSys = 3
  RootSlots = 0
  ClientSlots = 1
INVARIANTS
  TableFits
  PidInv
