SPECIFICATION FairSpec
CONSTANTS
  s1 = s1
  s2 = s2
  r1 = r1
  r2 = r2
  r3 = r3
  ngcsp = 2
  Sites = {s1}
  Reqs = {r1, r2, r3}
  Source <- LocalAmong
  Rid <- ThreeRids
  LimitedOk = {}
  Interruptable = {r1}
  MaxKills = 0
  MaxFails = 1
INVARIANTS
  CountsExact
  NoneForDead
  Attended
  SignalMeant
PROPERTY Taken
