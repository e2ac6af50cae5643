\* Four keys and a button, two layouts and one spare keycode.
CONSTANTS
  ShiftL = ShiftL
  Control = Control
  a = a
  A = A
  eacute = eacute
  DeleteSym = DeleteSym
  None = None
  Keysyms = {ShiftL, Control, a, A, eacute, DeleteSym}
  Modifiers = {ShiftL, Control}
  Shift = ShiftL
  UpperOf <- OneCase
  Keycodes = {1, 2, 3, 4}
  Layouts <- Desks
  MaxDesktop = 1
  Keys = {1, 2, 3, 4}
  Spellings <- HandSpellings
  Chord = Control
  ChordKey = 2
  Accelerators = {3}
  AttentionKeys = {3}
  Delete = DeleteSym
  Buttons = {left}
  MaxUser = 5
SPECIFICATION Spec
INVARIANTS
  OnRecord
  TypedRight
CHECK_DEADLOCK FALSE
