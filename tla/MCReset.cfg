SPECIFICATION RSpec
CONSTANTS
  W = 8
  Reg <- MCReg
  CntMod = 1
  TrapVec = 156
  MemBase = 128
  NW = 8
  UartAddr = 128
  UartMod = 4
  Programs <- ResetPrograms
  BootRegs <- MCBoot
  BootDmem <- MCDmem
  FUSION_EN = TRUE
  ISOL_EN = TRUE
  BR_CMP_EN = FALSE
  DeadBeef = 239
  MaxResets = 2
INVARIANTS
  MuldivOperandsStable
PROPERTIES
  RestartsCleanly
  KeepsIssuing
