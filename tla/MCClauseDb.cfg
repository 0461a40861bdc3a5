CONSTANTS
  core = core  p = p  q = q
  any = any  k1 = k1  k2 = k2
  i1 = i1  i2 = i2  i3 = i3  i4 = i4
  file1 = file1  none = none
  CorePreds = {core}  AnyKey = any  NoFile = none
  Preds = {core, p, q}
  Keys = {any, k1, k2}
  Files = {file1}
  Ids = {i1, i2, i3, i4}
  CompactMin = 2
  MaxSlots = 4
  MaxFrames = 1
  MaxNesting = 1

SPECIFICATION Spec
SYMMETRY Symmetry
CHECK_DEADLOCK FALSE

INVARIANTS TypeOK IndexExact ResumeIsResume DeadBounded StaticXorDynamic
PROPERTY KeepsPromise
