SPECIFICATION Spec
CONSTANTS
  p1 = p1
  p2 = p2
  p3 = p3
  Page = {p1, p2, p3}
  NoPage = NoPage
  Root = p1
  DepthLimit = 3
  MaxRows = 2
  MaxKeys = 1
INVARIANTS
  TypeOK
  StackIsPath
  NothingSkipped
PROPERTIES
  StepAnswers
