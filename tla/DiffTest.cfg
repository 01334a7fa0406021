CONSTANTS
  Vals = {0, 1}
  MaxPc = 4
SPECIFICATION Spec
INVARIANTS
  InStep
\* The guest ends, and the process may die.
CHECK_DEADLOCK FALSE
