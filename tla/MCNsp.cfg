SPECIFICATION Spec
CONSTANTS
  s1 = s1
  s2 = s2
  r1 = r1
  r2 = r2
  r3 = r3
  ngcsp = 2
  Sites = {s1}
  Reqs = {r1, r2}
  Source <- OneLocal
  Rid <- OwnRids
  LimitedOk = {r2}
  Interruptable = {}
  MaxKills = 2
  MaxFails = 1
INVARIANTS
  TypeOK
  SlotTable
  EnoughToKill
  ServedOnce
