\* Four tasks: three can queue behind a transaction that one of them belongs to.
SPECIFICATION FairSpec
CONSTANTS
  t1 = t1  t2 = t2  t3 = t3  t4 = t4
  Tasks = {t1, t2, t3, t4}
  None = None
INVARIANTS TypeOK OneWriter NeverStranded QueueIsWaiters
PROPERTIES RefusedOnlyInside EverybodyAnswered ImplementsFairLock
