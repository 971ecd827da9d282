SPECIFICATION Spec
CONSTANTS
  Records = 3
  Longest = 5
  Header = 2
  Capacity = 4
INVARIANTS
  TypeOK
  RecordsAreWhole
  FilledInOrder
  ShortMeansEnd
PROPERTIES
  TransferEnds
