SPECIFICATION ESpec
CONSTANTS
  W = 8
  Reg <- MCReg
  CntMod = 8
  TrapVec = 160
  MemBase = 128
  NW = 16
  UartAddr = 128
  UartMod = 4
  Programs <- UnitPrograms
  BootRegs <- MCBoot
  BootDmem <- MCDmem
  FUSION_EN = TRUE
  ISOL_EN = TRUE
  BR_CMP_EN = FALSE
  DeadBeef = 239
INVARIANTS
  MuldivOperandsStable
  MuldivDelivers
  IsolCountsIdle
  MuldivCountedOnce
  FusionCountedOnce
PROPERTIES
  IsolationHolds
  BoundRespected
  InOrderRetirement
