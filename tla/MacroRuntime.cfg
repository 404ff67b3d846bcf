SPECIFICATION Spec
CONSTANTS
  Threads = {t1, t2}
  Keys = {k1, k2, k3}
  Cap = 2
  MaxCalls = 4
  MaxTasks = 2
  Nobody = Nobody
  NoKey = NoKey
  NoResult = NoResult
INVARIANTS
  HoldsTheLastUsed
  ContextOutlivesTask
PROPERTY
  ImplementsCalls
