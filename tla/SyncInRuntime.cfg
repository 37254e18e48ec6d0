SPECIFICATION BlockingSpec
CONSTANTS
  Threads = {t1}
  MaxDepth = 3
  MaxSignatures = 2
INVARIANTS PanicsInRuntime
