SPECIFICATION Spec
CONSTANTS
  t1 = t1
  t2 = t2
  t3 = t3
  Tasks <- MCTasks
  Limits <- MCLimits
  MaxRetries = 1
INVARIANT TypeOK
INVARIANT SlotAccounting
INVARIANT OutboundCap
PROPERTY ImplementsContract
PROPERTY EveryGetEnds
