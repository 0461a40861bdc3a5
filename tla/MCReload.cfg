CONSTANTS
  CorePreds = {core}  AnyKey = any  NoFile = none
  Preds = {core, p}
  Keys = {any, k1}
  Files = {file1}
  Ids = {i1, i2, i3, i4}
  CompactMin = 2
  MaxSlots = 4
  MaxFrames = 1
  MaxNesting = 1

SPECIFICATION ReloadSpec
CHECK_DEADLOCK FALSE

PROPERTY LogicalUpdateView
