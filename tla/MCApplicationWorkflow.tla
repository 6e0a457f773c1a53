------------------------ MODULE MCApplicationWorkflow ------------------------
(* Two repositories and one review comment: both published on GitHub; one  *)
(* of them repaired twice, the other committed locally, with an            *)
(* integration command; and with a code review.                            *)
EXTENDS ApplicationWorkflow

CONSTANTS api, web, c1

MCRepo == {api, web}
MCComments == {c1}
MCAbout == [c \in MCComments |-> api]
Once == [r \in MCRepo |-> 2]
Twice == [Once EXCEPT ![api] = 3]
MCVersions == {Once, Twice}

Plain == [review |-> FALSE, integration |-> FALSE, local |-> {}, versions |-> Once]
Mixed == [review |-> FALSE, integration |-> TRUE, local |-> {web}, versions |-> Twice]
Reviewed == [review |-> TRUE, integration |-> FALSE, local |-> {web}, versions |-> Once]
MCSettings == {Plain, Mixed, Reviewed}
OnlyPlain == {Plain}
OnlyReviewed == {Reviewed}
=============================================================================
