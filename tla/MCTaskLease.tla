----------------------------- MODULE MCTaskLease -----------------------------
(* Two runs of process() and a conflict recovery within two lifetimes.    *)
EXTENDS TaskLease, TLC

CONSTANTS w1, w2, recovery

MCOwners == {w1, w2, recovery}
MCRenewing == {w1, w2}
OwnerSymmetry == Permutations(MCRenewing)
=============================================================================
