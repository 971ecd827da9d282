SPECIFICATION Spec
CONSTANTS
  top = top
  left = left
  right = right
  low = low
  size = size
  Class <- MCClass
  Name <- MCName
  Sources <- MCSources
INVARIANTS
  TypeOK
  BasesFirst
  TowerMirrors
  CyclesAreNamed
PROPERTY
  ElaborationEnds
