SPECIFICATION FairSpec
CONSTANTS
  Adders = {a1, a2}
  Takers = {t1, t2}
  Items = {x}
  Junk = junk
  cap = 2
INVARIANTS
  TypeOK
  MutualExclusion
  RingSound
  NoLostWakeup
PROPERTIES
  Linearizable
  TakesProgress
  AddsProgress
