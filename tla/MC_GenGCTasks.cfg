SPECIFICATION FairSpec
CONSTANTS
  a1 = a1
  a2 = a2
  a3 = a3
  l1 = l1
  ra = ra
  rl = rl
  t1 = t1
  Slots = {a1, l1}
  Regions = {ra, rl}
  LargeRegions = {rl}
  RegionOf <- Layout
  ClassOf <- Classes
  Contexts = {Main, t1}
  Main = Main
  GenOn = TRUE
  MajorEvery = 2
  Nil = Nil
  NoContext = NoContext
INVARIANT NoDangling
PROPERTY GarbageReclaimed
