CONSTANTS
  Opcodes <- MCOpcodes
  Fields = {0, 4, 5, 7}
  MaxPrefixes = 10
SPECIFICATION Spec
INVARIANTS
  MovCopies MovTouches OthersRefused OneInstrFits
\* The guest ends at a trap or an invalid opcode.
CHECK_DEADLOCK FALSE
