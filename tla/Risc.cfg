CONSTANTS
  ByteValues = 2
  WordBytes = 2
  Regs = {0, 1, 2}
  RetReg = 2
  Low = 2
  PmemLow = 0
  PmemHigh = 2
SPECIFICATION Spec
INVARIANTS
  ZeroRegister
PROPERTIES
  IsaSpec
\* The guest ends at a trap or an invalid opcode.
CHECK_DEADLOCK FALSE
