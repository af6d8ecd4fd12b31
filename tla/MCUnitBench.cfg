SPECIFICATION UbSpec
CONSTANTS
  W = 8
  Reg = {0, 1, 2, 3, 4, 5, 6, 7}
INVARIANTS
  ImmediatesRoundTrip
  ControlsDecoded
  UnitsAsReference
  RegistersReadBack
CHECK_DEADLOCK FALSE
