-------------------------- MODULE MCOperationLedger --------------------------
(* Two runners (an owner that lost its lease and its successor), two keys,  *)
(* and budgets small enough for both to run out.                           *)
EXTENDS OperationLedger, TLC

CONSTANTS r1, r2, publish, deploy

MCRunners == {r1, r2}
MCOps == {publish, deploy}

RunnerSymmetry == Permutations({r1, r2}) \union Permutations({publish, deploy})
=============================================================================
