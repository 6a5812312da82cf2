SPECIFICATION Spec
CONSTANTS
  Clients = {c1}
  Root = root
  Forkers = {f1}
  Lnsps = {}
  NumChunks = 3
  PIDCHUNK = 2
  PID_MAXSYS = 0
  CHUNK_PREALLOCATE = 1
  MAX_CHUNKS_TO_RELEASE = 1
  NPROC <- MCNPROC
  NSys = 3
  RootSlots = 1
  ClientSlots = 2
INVARIANTS
  TypeOK
  UniquePids
  TablesAgree
  CleanedUp
