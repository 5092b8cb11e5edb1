CONSTANTS
  Null = Null
  Unwritten = Unwritten
  Freed = Freed
  MaxMonitored = 3
  Names = {a, b}
  Clients = {app}
  Hooks = {h1}
  Blocks = {m1, m2, m3, m4}
SPECIFICATION Spec
SYMMETRY BlockSymmetry
INVARIANTS BlocksOwned ListMirrorsTable StayingFound
