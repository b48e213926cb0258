CONSTANTS
  Thread = {t1, t2, t3}
  t1 = t1
  t2 = t2
  t3 = t3
  NoCall = NoCall
  Modulus = 3
  Programs <- AtomicPrograms
SPECIFICATION FairSpec
INVARIANTS
PROPERTIES
  Linearizes
  SomeCallReturns
