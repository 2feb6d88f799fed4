SPECIFICATION FairSpec
CONSTANTS
  Task = {x1, x2, x3, x4}
  Thread = {t1, t2, t3, t4}
INVARIANTS TypeOK NoLostWakeup Fifo
PROPERTY Served
