CONSTANTS
  Half = 8
  Decimal <- MCDecimal
  Hex <- MCHex
  AfterX <- MCAfterX
  RegValue <- MCRegValue
  OtherRegisters = {"$esp"}
  Mem <- MCMem
  Operands <- MCOperands
  BinaryOps = {"-", "*", "/", "==", "||"}
  Parens = {"(", ")", "[", "]"}
  MaxLen = 7
  MaxParens = 2
SPECIFICATION TextSpec
INVARIANTS
  ValueRight BadParensRefused GenAgrees
\* A text of the greatest length is complete.
CHECK_DEADLOCK FALSE
