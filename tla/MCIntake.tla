------------------------------ MODULE MCIntake ------------------------------
(* Two processes and two payloads of one alert group, one about a repository
   and one about a service of another; both open the same incident.  A third
   payload only resolves.  The two repositories are in no application, in one,
   or the first has moved to another.                                         *)
EXTENDS Intake

OneIncident == [p \in {"a", "b", "r"} |-> "a"]
MCGroup == [p \in {"a", "b", "r"} |-> IF p = "r" THEN "quiet" ELSE "group"]
MCHint == [p \in {"a", "b", "r"} |->
            IF p = "a" THEN [repository |-> "api", names |-> "repository"]
            ELSE [repository |-> "web", names |-> "service"]]
In(api, web) == [q \in {"api", "web"} |-> IF q = "api" THEN api ELSE web]
MCConfiguration == {In(None, None), In("A", "A"), In("B", "A")}
=============================================================================
