SPECIFICATION RtSpec
CONSTANTS
  W = 8
  Calls <- MCCalls
  MiniCalls <- MCMiniCalls
  MemSize = 5
  UChar = {0, 1, 200}
  Jobs <- MCJobs
  Suites = {"embench", "coremark"}
  RunLengths <- MCRunLengths
  Boot <- MCBoot
  HeapStart = 4
  HeapEnd = 20
  Increments = {0, 3, 8, 9}
  MaxSbrk = 5
INVARIANTS
  ScannerInside
  ArgumentsUsedUp
  FormattersAgree
  MoveCorrect
  CopiesCorrect
  AnswersCorrect
  TimeReported
  HeapDense
PROPERTIES
  NumberFields
  EveryCallReturns
CHECK_DEADLOCK FALSE
