SPECIFICATION Spec
CONSTANTS
  f = f
  g = g
  a = a
  b = b
  l = l
  x = x
  y = y
  Template = {f, g}
  Program = Program
  Port = {a, b}
  Local = {l}
  Var = {x, y}
  Bodies <- FAndG
  Mains <- CallsOfF
  Cap = 3
INVARIANTS
  RejectsOrAnswersRight
