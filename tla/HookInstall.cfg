CONSTANTS
  None = None
  EptTableEntries = 2
  ProcessorCount = 2
  FunctionCount = 4
  PageSize = 76
  Lengths = {4, 7, 15}
  FunctionPage <- MCFunctionPage
  ExecuteFrame <- MCExecuteFrame
  Layouts <- MCLayouts
SPECIFICATION FairSpec
INVARIANTS TypeOK OnlyHooksMoved EngineStarts CallsIntercepted
PROPERTIES InstallEnds CallsReturn
