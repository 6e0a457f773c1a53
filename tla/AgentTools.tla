------------------------------ MODULE AgentTools ------------------------------
(***************************************************************************)
(* The tools that a session may choose from (src/src/adaptive.py and       *)
(* src/src/extensions.py as src/src/agent.py wires them into a run): the   *)
(* policy that learns from their outcomes in adaptive-tools.json, and the  *)
(* catalogued extensions that are installed on demand and survive restart. *)
(*                                                                         *)
(* Runs of several tasks, in one process or in several, share the file and *)
(* the directory of extensions; a run may be cut short anywhere.           *)
(***************************************************************************)
EXTENDS Naturals, FiniteSets

CONSTANTS
  Run,         \* runs that go on at the same time
  Local,       \* shell, connectors: tried once
  Retryable,   \* read_file
  Extension,   \* the catalogued wheels
  Retries,     \* max_tool_retries
  MaxCalls,    \* bound on calls
  MaxCuts      \* bound on runs that are cut short

Tool == Local \cup Retryable \cup Extension

VARIABLES
  file,       \* adaptive-tools.json: how often each tool had a good and a bad end
  lock,       \* who holds the file's lock
  policy,     \* what the policy object of each run has in memory
  call,       \* the call that each run makes
  place,      \* of each extension: what is in its directory
  manifests,  \* the extensions whose directory has a manifest.json
  loaded,     \* the extensions that each run can call
  outcomes,   \* ghost: the ends that were recorded
  spent       \* calls and cuts so far

learned == <<file, lock, policy, outcomes>>
installed == <<place, manifests, loaded>>
vars == <<learned, call, installed, spent>>

Nobody == "nobody"
NoCall == [at |-> "free"]
Unknown == [t \in Tool |-> [good |-> 0, bad |-> 0]]

Init ==
  /\ file = Unknown /\ outcomes = Unknown /\ lock = Nobody
  /\ policy = [r \in Run |-> Unknown]
  /\ call = [r \in Run |-> [at |-> "start"]]
  /\ place = [x \in Extension |-> "nothing"] /\ manifests = {}
  /\ loaded = [r \in Run |-> {}]
  /\ spent = [calls |-> 0, cuts |-> 0]

At(r, where) == call[r].at = where
Free(r) == call' = [call EXCEPT ![r] = NoCall]
Costs == spent.calls < MaxCalls /\ spent' = [spent EXCEPT !.calls = @ + 1]

\* A run reads the file into its policy, and restores what has a manifest that
\* the catalog still lists.
Begin(r) ==
  /\ At(r, "start") /\ Free(r)
  /\ policy' = [policy EXCEPT ![r] = file]
  /\ loaded' = [loaded EXCEPT ![r] = manifests]
  /\ UNCHANGED <<file, lock, outcomes, place, manifests, spent>>

-----------------------------------------------------------------------------
(* A call: AdaptiveToolRouter.invoke() and ToolPolicy                      *)

Available(r) == Local \cup Retryable \cup loaded[r]
Tried(r, t) == policy[r][t].good + policy[r][t].bad > 0

\* choose(): one that the run's policy has not seen goes first; among the
\* others the score decides.
Selectable(r, candidates) ==
  LET new == {t \in candidates : ~Tried(r, t)} IN IF new # {} THEN new ELSE candidates

Invoke(r, candidates) ==
  /\ At(r, "free") /\ Costs
  /\ candidates # {} /\ candidates \subseteq Available(r)
  /\ \E t \in Selectable(r, candidates) :
       call' = [call EXCEPT ![r] = [at |-> "calling", tool |-> t, attempts |-> 1]]
  /\ UNCHANGED <<learned, installed>>

\* A transient failure of a tool that is safe to repeat is repeated.
Again(r) ==
  /\ At(r, "calling") /\ call[r].tool \in Retryable /\ call[r].attempts <= Retries
  /\ call' = [call EXCEPT ![r].attempts = @ + 1]
  /\ UNCHANGED <<learned, installed, spent>>

Ends(r, end) ==
  /\ At(r, "calling")
  /\ call' = [call EXCEPT ![r] = [at |-> "ended", tool |-> @.tool, end |-> end]]
  /\ UNCHANGED <<learned, installed, spent>>

\* record() reads the file again under the lock of the file.
\* Mutation: it goes on from what the policy has in memory.
RereadNever(r) == policy[r]
Reread(r) == file

Counted(stats, t, end) == [stats EXCEPT ![t][end] = @ + 1]

Record(r) ==
  /\ At(r, "ended") /\ lock = Nobody /\ lock' = r
  /\ policy' = [policy EXCEPT ![r] = Counted(Reread(r), call[r].tool, call[r].end)]
  /\ call' = [call EXCEPT ![r].at = "saving"]
  /\ UNCHANGED <<file, outcomes, installed, spent>>

\* The file is replaced as a whole, and the lock is released.
Save(r) ==
  /\ At(r, "saving") /\ Free(r)
  /\ file' = policy[r] /\ lock' = Nobody
  /\ outcomes' = Counted(outcomes, call[r].tool, call[r].end)
  /\ UNCHANGED <<policy, installed, spent>>

-----------------------------------------------------------------------------
(* Extensions: TrustedToolRegistry.install() and restore()                 *)

\* The wheel is fetched and its digest compared before anything is written.
Install(r, x) ==
  /\ At(r, "free") /\ Costs
  /\ call' = [call EXCEPT ![r] = [at |-> "installing", tool |-> x]]
  /\ place' = [place EXCEPT ![x] = IF @ = "nothing" THEN "part" ELSE @]
  /\ UNCHANGED <<learned, manifests, loaded>>

\* pip has succeeded.  The manifest is what a later run restores from.
Stamped(r) ==
  /\ place' = [place EXCEPT ![call[r].tool] = "whole"]
  /\ UNCHANGED manifests

Unpacked(r) ==
  /\ At(r, "installing") /\ Stamped(r)
  /\ call' = [call EXCEPT ![r].at = "installed"]
  /\ UNCHANGED <<learned, loaded, spent>>

Installed(r) ==
  /\ At(r, "installed") /\ Free(r)
  /\ manifests' = manifests \cup {call[r].tool}
  /\ loaded' = [loaded EXCEPT ![r] = @ \cup {call[r].tool}]
  /\ UNCHANGED <<learned, place, spent>>

\* pip fails or the digest differs; the run is cut short, its process may be
\* dead, and the task's next run begins.
Cut(r) ==
  /\ ~At(r, "start") /\ spent.cuts < MaxCuts
  /\ call' = [call EXCEPT ![r] = [at |-> "start"]]
  /\ lock' = IF lock = r THEN Nobody ELSE lock
  /\ spent' = [spent EXCEPT !.cuts = @ + 1]
  /\ UNCHANGED <<file, policy, outcomes, installed>>

Next ==
  \E r \in Run :
    \/ Begin(r)
    \/ \E candidates \in SUBSET Tool : Invoke(r, candidates)
    \/ Again(r) \/ (\E end \in {"good", "bad"} : Ends(r, end))
    \/ Record(r) \/ Save(r)
    \/ \E x \in Extension : Install(r, x)
    \/ Unpacked(r) \/ Installed(r) \/ Cut(r)

Spec == Init /\ [][Next]_vars

-----------------------------------------------------------------------------
(* Properties                                                              *)

TypeOK ==
  /\ file \in [Tool -> [good : Nat, bad : Nat]] /\ lock \in Run \cup {Nobody}
  /\ \A r \in Run : policy[r] \in [Tool -> [good : Nat, bad : Nat]]
  /\ place \in [Extension -> {"nothing", "part", "whole"}]
  /\ manifests \subseteq Extension /\ loaded \in [Run -> SUBSET Extension]

\* Runs that overlap, and runs that are cut short while they save, lose no
\* outcome of another: the file has every outcome that was recorded, once.
OutcomesCounted == file = outcomes

\* What a run can call is installed as a whole, wherever an earlier run was cut
\* short on the way.
LoadedIsWhole == \A r \in Run : \A x \in loaded[r] : place[x] = "whole"
=============================================================================
