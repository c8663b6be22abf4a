SPECIFICATION Spec
CONSTANTS
  a = a
  b = b
  Tasks = {t1, t2, t3}
  Chans = {a, b}
  Cap <- ChanCap
  InitialSlots = 1
  SelectLists <- ChanLists
  MaxSends <- ChanSends
SYMMETRY TaskSymmetry
INVARIANTS
  WaitersMatchCounts
  LinkedWhereParked
  HandedOverOnce
PROPERTY
  ImplementsFifo
CHECK_DEADLOCK FALSE
