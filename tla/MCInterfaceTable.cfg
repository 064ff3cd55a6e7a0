CONSTANTS
  callback = callback
  surface = surface
  shell = shell
  Interfaces = {callback, surface, shell}
  Messages <- MCMessages
  Below <- MCBelow
  Threads = {t1, t2}
  Tables = {b1, b2, b3, b4, b5}
  None = None
  Moves = {"memory", "noMethod", "race"}
SPECIFICATION Spec
SYMMETRY Symmetry
INVARIANTS ReadableIsWhole OnlyRacesLose
PROPERTY TablesStay
CHECK_DEADLOCK FALSE
