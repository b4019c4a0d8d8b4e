SPECIFICATION Spec
CONSTANTS
  ConsBufSize = 3
  BufSize = 4
  MaxArgs = 1
  Cols = 4
  Rows = 2
  Key <- MCKey
  SerialByte = {32, 99, 127}
  Command <- MCCommand
  W = 5
INVARIANTS ShiftFollowsKeys RingExact EchoExact LibraryExact  RegistersArmed
PROPERTIES BreakpointsKept
