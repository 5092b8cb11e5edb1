CONSTANTS
  NoHook = NoHook
  NoInsn = NoInsn
  NotCached = NotCached
  P = P
  Q = Q
  Ordinary = Ordinary
  Far = Far
  FunctionCount <- MCFunctionCount
  FunctionPage <- MCFunctionPage
  Unmapped <- MCUnmapped
  Cpus = {c1, c2}
  Instructions <- AllKinds
  ReloadIndex = TRUE
SPECIFICATION Spec
SYMMETRY CpuSymmetry
INVARIANTS SplitView TlbCoherent
PROPERTY Transparent
CHECK_DEADLOCK FALSE
