CONSTANTS
  NoHook = NoHook
  NoInsn = NoInsn
  NotCached = NotCached
  P = P
  Q = Q
  Ordinary = Ordinary
  Far = Far
  FunctionCount <- MCFunctionCount
  FunctionPage <- MCFunctionPage
  Unmapped <- MCUnmapped
  Cpus = {c1, c2}
  Instructions <- CompletingKinds
  ReloadIndex = TRUE
SPECIFICATION FairSerialSpec
INVARIANTS HookRestored ExpectedNamesWindow NoWildCall
PROPERTIES InstructionEnds SteppingEnds
