SPECIFICATION ProcessSpec
CONSTANTS
  file = file
  console = console
  peer = peer
  outer = outer
  inner = inner
  NoRung = NoRung
  Resource = {file, console, peer}
  Adopted = {peer}
  Called = {file, peer}
  Layers <- TwoLayerConsole
  Alternatives <- FileHasAlternative
  Name = {outer}
  MaxSteps = 4
  MaxDepth = 2
INVARIANTS
  ReceiverIsHeld
PROPERTIES
  KeepsPromise
  UnwindingEnds
