SPECIFICATION Spec
CONSTANTS
  Capacity = 2
  Contacts = {c1}
  Naming = {{c1}}
  Persons = {{c1}}
  Appenders = {a1, a2}
  Replays = {y1}
  MaxId = 3
  MaxAttempts = 2
SYMMETRY Symmetry
INVARIANTS TypeOK EraseMissesOnlyOutrun
PROPERTY NoResurrection
CHECK_DEADLOCK FALSE
