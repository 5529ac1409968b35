SPECIFICATION Spec
CONSTANTS
  Addresses = {0, 16777208}
  Lengths = {0, 6, 1496, 66560}
  WindowSize = 65536
  Fields <- MCFields
  MaxFields = 3
  MAX_TLVS = 2
  Wrap = 64
  Asked = {0, 3, 20, 40}
  Boards = {"good", "stuck", "noIrq", "storm", "deaf"}
  Chips = {"mm6108", "mm8108", "unknown"}
INVARIANT ErrorsFailTheStep
CHECK_DEADLOCK FALSE
