CONSTANTS
  Filler = 0
  Contexts <- MCContexts
  PrefixBytes <- MCPrefixBytes
  Opcodes <- MCOpcodes
  Operands <- MCOperands
SPECIFICATION Spec
INVARIANTS LengthIsEncoded SameVerdict FixedPartWithin EncodingsAgree LockedWritesMemory BranchesMarked
CHECK_DEADLOCK FALSE
