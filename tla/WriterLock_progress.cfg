\* Finitely many acquisitions, so weak fairness is enough for the waiters.
SPECIFICATION FairSpec
CONSTANTS
  Proc = {p1, p2, p3}
  Inode = {i1, i2, i3}
  NoProc = NoProc
  NoInode = NoInode
  Reentrant = FALSE
  PidReuse = FALSE
  FlockOutlivesCrash = TRUE
PROPERTIES
  NoWaitReturns
  WaiterServed
CHECK_DEADLOCK FALSE
