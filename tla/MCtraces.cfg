SPECIFICATION Spec
CONSTANTS
  Loop = {loop, outer}
  Func = {func}
  Ret = {ret}
  SidePc = anywhere
  Proto = {"f", "g", "h"}
  ProtoOf <- MCProtoOf
  Switched = {"f"}
  Exit = {0}
  Program <- MCProgram
  MaxSide = 1
  HotExit = 1
  TrySide = 1
  PenaltySlots = 1
  PenaltyMin = 1
  PenaltyMax = 1
  PenaltyRandom = {0}
  MaxDepth = 2
  Null = Null
  Cur = Cur
  loop = loop
  outer = outer
  func = func
  ret = ret
  anywhere = anywhere
INVARIANTS TypeOK EntersItsTrace RunningKept NumbersFound SidesChained InstructionsKept
