SPECIFICATION Spec
CONSTANTS
  hup = hup
  int = int
  term = term
  Signal = {hup, int, term}
  SIGPIPE = SIGPIPE
  NoSignal = NoSignal
  Codes = {1, 3}
  Alternatives = 1
  MaxHeld = 2
  MaxSent = 2
INVARIANTS
  NothingOwnedIsStandard
  KilledEmptyHanded
  FailureIsReported
  NonzeroMeansFailure
  InterruptedDiesOfIt
PROPERTIES
  TowerIsLeft
  IgnoredStaysIgnored
