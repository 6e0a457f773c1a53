-------------------------- MODULE ConflictRecovery --------------------------
(***************************************************************************)
(* Recovery of a pull request that conflicts with its base branch          *)
(* (src/src/workflow.py, _recover_pull_request_conflict), together with    *)
(* the runs of the same task it alternates with.  GitHub reports "dirty"   *)
(* by webhook or poll; the harness records a merge intent, merges the base *)
(* into the checkout, and hands the result to the agent's session, which   *)
(* publishes it.  After a crash the intent is resumed.                     *)
(*                                                                         *)
(* Recoveries and runs hold the task's lease and so exclude each other     *)
(* (TaskLease); cancellation, merges and deployments do not ask for it.    *)
(* A recovery runs in the handler of a webhook or in the worker loop, which *)
(* lists the interrupted ones and polls GitHub: one that raises there ends *)
(* the loop, and with it the sessions, until the process is started again. *)
(* Every git command is awaited in a thread, so each is a step of its own, *)
(* or the first of several that read what only the lease holder changes.   *)
(* Work states from REPRODUCING to PUBLISHING_PR are one, "reproducing".   *)
(***************************************************************************)
EXTENDS Naturals, FiniteSets, Lifecycle

CONSTANTS
  MaxTries,  \* config.model.max_task_iterations
  Bases,     \* bound on the versions of the base branch
  Commits,   \* bound on the commits of the incident branch
  Reviews,   \* bound on the review comments that arrive
  Faults     \* bound on crashes and failures of git commands

ASSUME ConflictAssumption ==
  /\ MaxTries \in Nat \ {0} /\ Bases \in Nat \ {0}
  /\ Commits \in Nat \ {0} /\ Reviews \in Nat /\ Faults \in Nat

VARIABLES
  rec,       \* the durable record
  tree,      \* the checkout
  base,      \* the version of the base branch on GitHub
  gh,        \* the head of the pull request on GitHub
  made,      \* commits made so far on the incident branch
  deliveries,\* heads for which a "dirty" webhook may arrive, now or later
  loop,      \* run_worker: the head it is about to handle, or whether it failed
  job,       \* who holds the lease, and how far it is
  done,      \* ghost: recoveries handed to the agent
  owed,      \* ghost: the base version the last of them merged
  reviews,   \* review comments that sessions took up so far
  faults     \* crashes and failures so far

vars == <<rec, tree, base, gh, made, deliveries, loop, job, done, owed, reviews, faults>>
github == <<base, gh, deliveries>>
ghosts == <<done, owed>>

\* A commit: its number and the version of the base branch it contains.
Commit == [n : 1..Commits, base : 1..Bases]
States == {"reproducing", "waiting_for_deployment", "testing_deployment",
           "waiting_for_review"} \union TerminalStates
Open(s) == s \notin TerminalStates

\* MERGE_HEAD, and FETCH_HEAD of a job that has not fetched, may be missing: 0.
Base == 0..Bases
Idle == [kind |-> "none"]
Callers == {"webhook", "loop"}
Jobs ==
  [kind : {"none", "dead"}]
    \union [kind : {"recovery"}, by : Callers, at : {"local", "fetch", "intent", "merge", "final"},
            resuming : BOOLEAN, whead : Commit, expected : Commit,
            tries : 0..MaxTries, fetched : Base, failed : BOOLEAN]
    \union [kind : {"session"}, at : {"refresh", "agent", "confirm"}, told : BOOLEAN]

AtRest == [at |-> "rest"]
Failed == [at |-> "failed"]
Loops == [at : {"rest", "failed"}] \union [at : {"handles"}, head : Commit]

Init ==
  /\ base = 1 /\ made = 1 /\ reviews = 0 /\ faults = 0
  /\ gh = [n |-> 1, base |-> 1]
  /\ rec = [state |-> "waiting_for_deployment", tries |-> 0, pending |-> FALSE,
            merging |-> FALSE, based |-> FALSE, head |-> gh]
  /\ tree = [exists |-> TRUE, head |-> gh, merge |-> 0, unmerged |-> FALSE]
  /\ deliveries = {} /\ loop = AtRest /\ job = Idle
  /\ done = 0 /\ owed = 1

-----------------------------------------------------------------------------
(* GitHub, and what starts a recovery *)
BaseMoves ==
  /\ base < Bases
  /\ base' = base + 1
  /\ UNCHANGED <<rec, tree, gh, made, deliveries, loop, job, ghosts, reviews, faults>>

\* A webhook that says that the pull request is dirty may arrive late, again,
\* or after others.
GitHubReports ==
  /\ gh.base < base
  /\ deliveries' = deliveries \union {gh}
  /\ UNCHANGED <<rec, tree, base, gh, made, loop, job, ghosts, reviews, faults>>

\* The loop does one thing at a time, and a recovery of its own is one.
LoopRests == loop = AtRest /\ ~(job.kind = "recovery" /\ job.by = "loop")

\* recover() finds a merge intent of a task this process is not running, and
\* makes up a payload from the record it has read.
RecoverLists ==
  /\ LoopRests /\ rec.merging /\ Open(rec.state)
  /\ job.kind # "session"
  /\ loop' = [at |-> "handles", head |-> rec.head]
  /\ UNCHANGED <<rec, tree, github, made, job, ghosts, reviews, faults>>

\* poll_pull_request_conflicts() asks GitHub about a task not in conflict yet.
LoopPolls ==
  /\ LoopRests /\ Open(rec.state) /\ ~rec.pending
  /\ gh.base < base
  /\ loop' = [at |-> "handles", head |-> gh]
  /\ UNCHANGED <<rec, tree, github, made, job, ghosts, reviews, faults>>

Free == job.kind = "none"

\* Mutation: a resumption is a fresh recovery.
ResumingNever == FALSE
Resuming == rec.merging

\* Mutation: an attempt is charged when it is done only.
ChargeLate(resuming) == rec.tries
Charge(resuming) == IF resuming THEN rec.tries ELSE rec.tries + 1

Affordable == rec.tries < MaxTries

Accepts(h) == Free /\ Open(rec.state) /\ ~rec.pending /\ (Resuming \/ rec.head = h)

\* The record is read once, here, and its head, its intent and its count are
\* used after every await below.
RecoveryStarts(h, caller) ==
  /\ Accepts(h) /\ (Resuming \/ Affordable)
  /\ job' = [kind |-> "recovery", by |-> caller, at |-> IF Resuming THEN "fetch" ELSE "local",
             resuming |-> Resuming, whead |-> h, expected |-> rec.head,
             tries |-> Charge(Resuming), fetched |-> 0, failed |-> FALSE]
  /\ UNCHANGED rec

RecoveryExhausted(h) ==
  /\ Accepts(h) /\ ~(Resuming \/ Affordable)
  /\ rec' = [rec EXCEPT !.state = "blocked"]
  /\ UNCHANGED job

\* A payload for another head, or for a task that is taken, changes nothing.
WebhookArrives(h) ==
  /\ RecoveryStarts(h, "webhook") \/ RecoveryExhausted(h)
  /\ UNCHANGED <<tree, github, made, loop, ghosts, reviews, faults>>

LoopHandles ==
  /\ loop.at = "handles"
  /\ \/ RecoveryStarts(loop.head, "loop") \/ RecoveryExhausted(loop.head)
     \/ ~Accepts(loop.head) /\ UNCHANGED <<rec, job>>
  /\ loop' = AtRest
  /\ UNCHANGED <<tree, github, made, ghosts, reviews, faults>>

-----------------------------------------------------------------------------
(* The recovery *)
Recovers(at) == job.kind = "recovery" /\ job.at = at /\ tree.exists
Goes(at) == job' = [job EXCEPT !.at = at]

\* What a recovery raises is an answer 500 to a webhook, and the end of the loop.
Raised == job' = Idle /\ loop' = IF job.by = "loop" THEN Failed ELSE loop

\* transition(BLOCKED, conflict_merge_pending=False), which raises when the
\* task was closed meanwhile.
BlockedFor ==
  \/ /\ Open(rec.state)
     /\ rec' = [rec EXCEPT !.state = "blocked", !.merging = FALSE]
     /\ job' = Idle /\ UNCHANGED loop
  \/ ~Open(rec.state) /\ Raised /\ UNCHANGED rec

\* Mutation: the checkout is not compared with the delivery.
IsStaleNever == FALSE
IsStale == tree.head # job.whead

LocalHead ==
  /\ Recovers("local")
  /\ IF IsStale THEN job' = Idle ELSE Goes("fetch")
  /\ UNCHANGED <<rec, tree, github, made, loop, ghosts, reviews, faults>>

Fetch ==
  /\ Recovers("fetch")
  /\ \/ /\ job' = [job EXCEPT !.at = "intent", !.fetched = base]
        /\ UNCHANGED <<rec, loop>>
     \/ BlockedFor
  /\ UNCHANGED <<tree, github, made, ghosts, reviews, faults>>

\* An interrupted merge that is neither in progress nor committed must find
\* the head it began with.
Mismatch ==
  /\ job.resuming /\ tree.merge = 0
  /\ tree.head.base < job.fetched /\ tree.head # job.expected

Intent ==
  /\ Recovers("intent")
  /\ IF Mismatch
     THEN BlockedFor
     ELSE /\ rec' = [rec EXCEPT !.tries = job.tries, !.merging = TRUE, !.based = TRUE]
          /\ Goes("merge") /\ UNCHANGED loop
  /\ UNCHANGED <<tree, github, made, ghosts, reviews, faults>>

\* What git merge of the base version b does: nothing, a commit, or a conflict.
UpToDate(b) == tree.head.base >= b /\ UNCHANGED <<tree, made>>
MergeCommits(b) ==
  /\ tree.head.base < b /\ made < Commits
  /\ made' = made + 1
  /\ tree' = [tree EXCEPT !.head = [n |-> made + 1, base |-> b]]
MergeConflicts(b) ==
  /\ tree.head.base < b
  /\ tree' = [tree EXCEPT !.merge = b, !.unmerged = TRUE]
  /\ UNCHANGED made

\* A merge in progress is left as it is; git may also refuse to merge.
Merged ==
  \/ tree.merge # 0 /\ UNCHANGED <<tree, made>>
  \/ tree.merge = 0 /\ (UpToDate(job.fetched) \/ MergeCommits(job.fetched)
                           \/ MergeConflicts(job.fetched))
Refused == tree.merge = 0 /\ tree.head.base < job.fetched /\ UNCHANGED <<tree, made>>

Merge ==
  /\ Recovers("merge")
  /\ \E failed \in BOOLEAN :
       /\ IF failed THEN Refused ELSE Merged
       /\ job' = [job EXCEPT !.at = "final", !.failed = failed]
  /\ UNCHANGED <<rec, github, loop, ghosts, reviews, faults>>

\* The unmerged paths decide: an operational failure, or work for the agent,
\* which is woken.  The transition raises when the task was closed meanwhile.
Final ==
  /\ Recovers("final")
  /\ IF job.failed /\ ~tree.unmerged
     THEN BlockedFor /\ UNCHANGED ghosts
     ELSE IF Open(rec.state)
          THEN /\ job' = Idle /\ UNCHANGED loop
               /\ rec' = [rec EXCEPT !.state = "reproducing", !.tries = job.tries,
                                     !.based = TRUE, !.pending = TRUE, !.merging = FALSE]
               /\ done' = done + 1 /\ owed' = job.fetched
          ELSE Raised /\ UNCHANGED <<rec, ghosts>>
  /\ UNCHANGED <<tree, github, made, reviews, faults>>

\* A git command times out, or its checkout has been removed.
RecoveryRaises ==
  /\ job.kind = "recovery"
  /\ \/ tree.exists /\ faults < Faults /\ faults' = faults + 1
     \/ ~tree.exists /\ UNCHANGED faults
  /\ Raised
  /\ UNCHANGED <<rec, tree, github, made, ghosts, reviews>>

-----------------------------------------------------------------------------
(* The runs of the task *)
Works(at) == job.kind = "session" /\ job.at = at /\ tree.exists

\* The agent's session, for a task it works on or one with review comments.
\* run_worker gives it its job.
\* The checkout is refreshed unless a recovery has merged the base already.
SessionStarts ==
  /\ Free /\ tree.exists /\ loop # Failed
  /\ \/ rec.state = "reproducing" /\ UNCHANGED reviews
     \/ /\ rec.state = "waiting_for_review" /\ reviews < Reviews
        /\ reviews' = reviews + 1
  /\ job' = [kind |-> "session", told |-> rec.pending,
             at |-> IF rec.pending THEN "agent" ELSE "refresh"]
  /\ UNCHANGED <<rec, tree, github, made, loop, ghosts, faults>>

\* git merges nothing over a merge in progress.  Mutation: it is overlooked.
RefreshableAlways == TRUE
Refreshable == tree.merge = 0

Refresh ==
  /\ Works("refresh") /\ Refreshable
  /\ UpToDate(base) \/ MergeCommits(base)
  /\ Goes("agent")
  /\ UNCHANGED <<rec, github, loop, ghosts, reviews, faults>>

\* The session raises or yields: an attempt is charged, or it was the last.
Ends ==
  /\ job' = Idle
  /\ \E s \in {rec.state} \union (IF Open(rec.state) THEN {"blocked", "failed"} ELSE {}) :
       rec' = [rec EXCEPT !.state = s]

RefreshConflicts ==
  /\ Works("refresh") /\ tree.merge = 0
  /\ MergeConflicts(base)
  /\ Ends
  /\ UNCHANGED <<github, loop, ghosts, reviews, faults>>

SessionEnds ==
  /\ job.kind = "session" /\ job.at \in {"refresh", "agent"}
  /\ Ends
  /\ UNCHANGED <<tree, github, made, loop, ghosts, reviews, faults>>

\* HEAD after a commit of everything, which concludes a merge.
Committed == [n |-> made + 1,
              base |-> IF tree.merge = 0 THEN tree.head.base ELSE tree.merge]
AllCommitted ==
  /\ made < Commits
  /\ made' = made + 1
  /\ tree' = [tree EXCEPT !.head = Committed, !.merge = 0, !.unmerged = FALSE]

\* In the shell the agent commits, resolves, gives a merge up, merges the base.
AgentActs ==
  /\ Works("agent")
  /\ \/ AllCommitted
     \/ tree.unmerged /\ tree' = [tree EXCEPT !.unmerged = FALSE] /\ UNCHANGED made
     \/ /\ tree.merge # 0
        /\ tree' = [tree EXCEPT !.merge = 0, !.unmerged = FALSE]
        /\ UNCHANGED made
     \/ tree.merge = 0 /\ MergeCommits(base)
  /\ UNCHANGED <<rec, github, loop, job, ghosts, reviews, faults>>

\* A lifecycle tool takes a task in review back to work.
AgentReopens ==
  /\ Works("agent") /\ rec.state = "waiting_for_review"
  /\ rec' = [rec EXCEPT !.state = "reproducing"]
  /\ UNCHANGED <<tree, github, made, loop, job, ghosts, reviews, faults>>

\* A recovered branch must contain the base it finds now.  Mutation: no check.
PushableAlways(h) == TRUE
Pushable(h) == rec.based => h.base >= base

\* open_pr commits what is left and pushes the branch.
Push ==
  /\ Works("agent") /\ rec.state = "reproducing"
  /\ AllCommitted \/ (tree.merge = 0 /\ UNCHANGED <<tree, made>>)
  /\ IF Pushable(tree'.head)
     THEN gh' = tree'.head /\ Goes("confirm")
     ELSE UNCHANGED <<gh, job>>
  /\ UNCHANGED <<rec, base, deliveries, loop, ghosts, reviews, faults>>

\* GitHub confirms the head and the record follows, or the tool raises: no
\* confirmation, or a task closed meanwhile.
Published(r) == [r EXCEPT !.state = "waiting_for_deployment", !.head = gh,
                          !.pending = FALSE, !.merging = FALSE, !.based = FALSE]
Confirm ==
  /\ job.kind = "session" /\ job.at = "confirm"
  /\ Goes("agent")
  /\ (Open(rec.state) /\ rec' = Published(rec)) \/ UNCHANGED rec
  /\ UNCHANGED <<tree, github, made, loop, ghosts, reviews, faults>>

\* A run verifies the deployment under the lease.
Verified ==
  /\ Free /\ loop # Failed /\ rec.state = "testing_deployment"
  /\ \E s \in {"waiting_for_review", "reproducing", "blocked"} :
       rec' = [rec EXCEPT !.state = s]
  /\ UNCHANGED <<tree, github, made, loop, job, ghosts, reviews, faults>>

-----------------------------------------------------------------------------
(* What happens without the lease *)
DeploymentArrives ==
  /\ rec.state = "waiting_for_deployment"
  /\ rec' = [rec EXCEPT !.state = "testing_deployment"]
  /\ UNCHANGED <<tree, github, made, loop, job, ghosts, reviews, faults>>

Cancel ==
  /\ Open(rec.state)
  /\ rec' = [rec EXCEPT !.state = "cancelled"]
  /\ UNCHANGED <<tree, github, made, loop, job, ghosts, reviews, faults>>

PullRequestMerged ==
  /\ Open(rec.state)
  /\ rec' = [rec EXCEPT !.state = "completed"]
  /\ tree' = [tree EXCEPT !.exists = FALSE]
  /\ UNCHANGED <<github, made, loop, job, ghosts, reviews, faults>>

\* The recovery of another task, or a poll for it, raises in the loop, which
\* cancels the sessions.
LoopFails ==
  /\ LoopRests \/ loop.at = "handles"
  /\ faults < Faults /\ faults' = faults + 1
  /\ loop' = Failed
  /\ job' = IF job.kind = "session" THEN Idle ELSE job
  /\ UNCHANGED <<rec, tree, github, made, ghosts, reviews>>

\* The process dies and another starts; the lease outlives it.
Dies ==
  /\ job' = IF job.kind \in {"recovery", "session"} THEN [kind |-> "dead"] ELSE job
  /\ loop' = AtRest
  /\ UNCHANGED <<rec, tree, github, made, ghosts, reviews>>

Crash == job.kind \in {"recovery", "session"} /\ faults < Faults /\ faults' = faults + 1 /\ Dies

\* An operator who finds the worker failed (/health) may start it again.
Restart == loop = Failed /\ UNCHANGED faults /\ Dies

LeaseExpires ==
  /\ job.kind = "dead"
  /\ job' = Idle
  /\ UNCHANGED <<rec, tree, github, made, loop, ghosts, reviews, faults>>

-----------------------------------------------------------------------------
Recovery == LocalHead \/ Fetch \/ Intent \/ Merge \/ Final
Session ==
  \/ SessionStarts \/ Refresh \/ RefreshConflicts \/ SessionEnds
  \/ AgentActs \/ AgentReopens \/ Push \/ Confirm

Next ==
  \/ BaseMoves \/ GitHubReports
  \/ RecoverLists \/ LoopPolls \/ LoopHandles \/ LoopFails
  \/ \E h \in deliveries : WebhookArrives(h)
  \/ Recovery \/ RecoveryRaises
  \/ Session \/ Verified
  \/ DeploymentArrives \/ Cancel \/ PullRequestMerged
  \/ Crash \/ Restart \/ LeaseExpires

Spec == Init /\ [][Next]_vars

\* As long as the loop has not failed it comes round again to recover() and to
\* the poll; git commands return or time out, sessions end, and leases expire.
\* Nothing is assumed of what the agent does, of GitHub, or of operators: a loop
\* that has failed may stay so.
Fairness ==
  /\ WF_vars(RecoverLists) /\ WF_vars(LoopPolls) /\ WF_vars(LoopHandles)
  /\ WF_vars(Recovery) /\ WF_vars(~tree.exists /\ RecoveryRaises)
  /\ WF_vars(SessionEnds \/ Confirm) /\ WF_vars(LeaseExpires)

FairSpec == Spec /\ Fairness

-----------------------------------------------------------------------------
TypeOK ==
  /\ rec \in [state : States, tries : 0..MaxTries, pending : BOOLEAN,
              merging : BOOLEAN, based : BOOLEAN, head : Commit]
  /\ tree \in [exists : BOOLEAN, head : Commit, merge : Base, unmerged : BOOLEAN]
  /\ base \in 1..Bases /\ gh \in Commit /\ made \in 1..Commits
  /\ deliveries \subseteq Commit /\ loop \in Loops /\ job \in Jobs
  /\ done \in Nat /\ owed \in Base
  /\ reviews \in 0..Reviews /\ faults \in 0..Faults

\* The agent never works in a checkout with an unresolved merge it was not told
\* about: not after a crash in the middle of a recovery, nor after a refresh
\* that ran into a conflict ("do not wake the agent against an ambiguous
\* checkout", _recover_pull_request_conflict).
ConflictIsTold ==
  (job.kind = "session" /\ job.at # "refresh" /\ tree.unmerged) => job.told

\* What a recovery merged reaches the pull request: whatever the agent did in
\* between, a task that is no longer in conflict has published a head that
\* contains the base version its last recovery fetched.
RecoveredIsContained == ~rec.pending => rec.head.base >= owed

\* Every recovery handed to the agent was charged, once and beforehand, through
\* any number of interruptions and resumptions, so that conflicts cannot keep a
\* task busy beyond its limit.
RecoveriesCharged == done <= rec.tries

\* A recovery changes a checkout only when it stands at the recorded head of
\* the pull request: work of the agent that is not published is never mixed
\* with a base it did not ask for.
MergesRecordedHead ==
  [][(job.kind = "recovery" /\ <<tree.head, tree.merge>>' # <<tree.head, tree.merge>>)
       => tree.head = rec.head]_vars

\* "Resume a merge intent recorded before a process interruption"
\* (_resume_pending_conflict_merge): an intent that outlives its recovery,
\* through a crash or an exception, is taken up again by every worker loop that
\* does not fail, unless the task is closed or its session, which settles the
\* intent when it publishes, comes first.  A loop that has failed takes nothing
\* up, and an operator has to start it again.
IntentIsTaken ==
  rec.merging ~> (~rec.merging \/ ~Open(rec.state) \/ job.kind = "session" \/ loop = Failed)

\* docs/pr-conflicts.md: a dirty pull request is polled for every five minutes,
\* and a delivery is ignored when its head is older than the recorded one.  So
\* a task in review whose published head is in conflict gets its recovery.
\* It does not when a session has refreshed the checkout without publishing:
\* every later delivery is found stale against the checkout.
DirtyIsRecovered ==
  (gh.base < base /\ rec.head = gh /\ rec.tries < MaxTries
     /\ rec.state = "waiting_for_review")
    ~> (rec.pending \/ rec.state # "waiting_for_review" \/ gh.base >= base)
=============================================================================
