CONSTANTS
  Devices <- MCDevices
  PAGE_SIZE = 16
  IoSpaceMaxes = {16, 112, 128}
  NR_MAP = 8
  PORT_IO_SPACE_MAX = 163
  PmemLow = 0
  PMEM_SIZE = 8
  Addresses <- MCAddresses
SPECIFICATION Spec
INVARIANTS
  SpacesApart InIoSpace OwnBytes FreshRead StartsUp
\* A failed assertion ends NEMU.
CHECK_DEADLOCK FALSE
