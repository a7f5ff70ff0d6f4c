\* Three processes that may acquire again, be killed, and have their PIDs reused;
\* as many inodes as processes, so an opener always finds a free one.
SPECIFICATION Spec
CONSTANTS
  Proc = {p1, p2, p3}
  Inode = {i1, i2, i3}
  NoProc = NoProc
  NoInode = NoInode
  Reentrant = TRUE
  PidReuse = TRUE
  FlockOutlivesCrash = TRUE
SYMMETRY Symmetry
INVARIANTS
  TypeOK
  OwnerIsHolder
  ExclusiveUnlessSplit
