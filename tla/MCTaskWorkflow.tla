--------------------------- MODULE MCTaskWorkflow ---------------------------
(* One task, one review comment, three versions of its checkout, two      *)
(* attempts.                                                              *)
EXTENDS TaskWorkflow

CONSTANT c1

MCComments == {c1}

\* Everything on; everything off, published locally or on GitHub.
Gated == [triage |-> TRUE, review |-> TRUE, local |-> FALSE]
Plain == [triage |-> FALSE, review |-> FALSE, local |-> TRUE]
Ungated == [triage |-> FALSE, review |-> FALSE, local |-> FALSE]
MCSettings == {Gated, Plain, Ungated}
=============================================================================
