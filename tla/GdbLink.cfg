CONSTANTS
  MTU = 2
  ImgLens = {0, 2, 5}
  InitSteps = 1
  Regs = {0, 1}
  None = None
  MaxCalls = 2
  MaxGarble = 1
SPECIFICATION FairSpec
INVARIANTS
  ImageCopied NoOrphan
PROPERTIES
  RpcSpec RestKept CallsReturn
\* A process may end.
CHECK_DEADLOCK FALSE
