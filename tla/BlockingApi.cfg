SPECIFICATION BlockingSpec
CONSTANTS
  Threads = {t1, t2}
  MaxDepth = 3
  MaxSignatures = 2
INVARIANTS RefusedWhereNested
 
