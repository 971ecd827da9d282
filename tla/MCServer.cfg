SPECIFICATION Spec
CONSTANTS
  prog = prog
  lib = lib
  old = old
  new = new
  Path = {prog, lib}
  Text = {old, new}
  NotOpen = NotOpen
  Nowhere = Nowhere
  Unnamed = Unnamed
  Host <- TheProgram
  Refusal <- TheRefusals
  MayFail = TRUE
  MaxSent = 3
INVARIANTS
  WakeIsNotLost
  NoOrphan
  LastDiagnosisStands
PROPERTIES
  PendingIsTaken
CHECK_DEADLOCK FALSE
