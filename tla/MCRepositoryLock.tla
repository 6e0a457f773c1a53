--------------------------- MODULE MCRepositoryLock ---------------------------
(* Two threads of one process and one of another; one inode more than they  *)
(* can keep in use, so that numbers are reused.                             *)
EXTENDS RepositoryLock, TLC

CONSTANTS l1, l2, l3, p1, p2, i1, i2, i3, i4

MCLocker == {l1, l2, l3}
MCProcess == {p1, p2}
MCpid == [l \in MCLocker |-> IF l = l3 THEN p2 ELSE p1]
MCInode == {i1, i2, i3, i4}
InodeSymmetry == Permutations(MCInode) \union Permutations({l1, l2})
=============================================================================
