CONSTANTS
  NoHook = NoHook
  NoInsn = NoInsn
  NotCached = NotCached
  P = P
  Q = Q
  Ordinary = Ordinary
  Far = Far
  FunctionCount <- MCFunctionCount
  FunctionPage <- MCFunctionPage
  Unmapped <- MCUnmapped
  Cpus = {c1, c2}
  Instructions <- CallAndRead
  ReloadIndex = FALSE
SPECIFICATION FairSpec
PROPERTY InstructionEnds
