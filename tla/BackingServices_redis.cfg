SPECIFICATION FairBackingSpec
CONSTANTS
  CacheCalls = {k1, k2}
  Probes = {q1}
  MaxRetries = 3
  MaxOutages = 2
CHECK_DEADLOCK FALSE
INVARIANT BackingInv
INVARIANT UsableWhenReady
INVARIANT ReadyTrue
PROPERTY EveryCallAnswered
