CONSTANTS
  None = None
  Bits <- MCBits
  Msrs <- MCMsrs
  BaseMsrs <- MCBaseMsrs
  FeatureControlMsr <- MCFeatureControlMsr
  BitmapRange <- MCBitmapRange
  CrFixed <- MCCrFixed
  Features = {"rdtscp", "invpcid", "xsaves"}
  MaxInstructions = 3
  CpuidResult <- MCCpuidResult
  Instructions <- MCInstructions
  InitialState <- MCInitialState
  Capabilities <- MCCapabilities
  SegmentState <- MCSegmentState
SPECIFICATION Spec
INVARIANT LaunchAccepted
PROPERTIES ExitsTransparent
CHECK_DEADLOCK FALSE
