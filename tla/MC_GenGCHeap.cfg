SPECIFICATION Spec
CONSTANTS
  a1 = a1
  a2 = a2
  a3 = a3
  l1 = l1
  ra = ra
  rl = rl
  t1 = t1
  Slots = {a1, a2, a3}
  Regions = {ra}
  LargeRegions = {}
  RegionOf <- Layout
  ClassOf <- Classes
  Contexts = {Main}
  Main = Main
  GenOn = TRUE
  MajorEvery = 3
  Nil = Nil
  NoContext = NoContext
INVARIANTS
  NoDangling
  RememberedComplete
  FreeListsExact
PROPERTIES
  SweepsExactly
