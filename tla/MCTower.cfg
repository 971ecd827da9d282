SPECIFICATION ProcessSpec
CONSTANTS
  file = file
  console = console
  peer = peer
  outer = outer
  inner = inner
  NoRung = NoRung
  Resource = {file, console}
  Adopted = {}
  Called = {}
  Layers <- TwoLayerConsole
  Alternatives <- NoAlternatives
  Name = {outer, inner}
  MaxSteps = 5
  MaxDepth = 2
SYMMETRY ScopeNames
INVARIANTS
  ReleasesTheNewest
  NothingHeldAtExit
  AcquiresAfresh
