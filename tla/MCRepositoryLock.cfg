SPECIFICATION FairSpec
CONSTANTS
  l1 = l1
  l2 = l2
  l3 = l3
  p1 = p1
  p2 = p2
  i1 = i1
  i2 = i2
  i3 = i3
  i4 = i4
  Locker <- MCLocker
  Process <- MCProcess
  pid <- MCpid
  Inode <- MCInode
PROPERTY
  LockProgress
CHECK_DEADLOCK FALSE
