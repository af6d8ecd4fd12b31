SPECIFICATION LSpec
CONSTANTS
  W = 8
  Reg <- MCReg
  CntMod = 1
  TrapVec = 148
  MemBase = 128
  NW = 8
  UartAddr = 128
  UartMod = 4
  Programs <- CorePrograms
  BootRegs <- MCBoot
  BootDmem <- MCDmem
  FUSION_EN = TRUE
  ISOL_EN = TRUE
  BR_CMP_EN = FALSE
  DeadBeef = 239
INVARIANTS
  LogInProgramOrder
  LookaheadFromStream
  TypeOK
  Pend2Protocol
  WbPortConflictFree
  ForwardingIsCurrent
  Tame
PROPERTIES
  EpisodesTakeFour
  InOrderRetirement
  KeepsIssuing
