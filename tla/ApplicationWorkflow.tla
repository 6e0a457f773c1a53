------------------------- MODULE ApplicationWorkflow -------------------------
(***************************************************************************)
(* One incident of an application with several repositories, from the end  *)
(* of the investigation to completion (src/src/application_workflow.py and *)
(* the application branches of src/src/workflow.py): every repository is   *)
(* repaired, checked, reviewed and published by itself, and checkpointed   *)
(* after each effect; the task completes when all of them have the         *)
(* evidence for the very revision that was published.                      *)
(*                                                                         *)
(* A step goes from one await to the next.  Webhooks run in between,       *)
(* without the lease; a merge may even complete the task, with an          *)
(* integration command of its own, while a run is in progress.             *)
(* Versions are as in TaskWorkflow: 1 is the base, and a commit is the     *)
(* version it holds.                                                       *)
(***************************************************************************)
EXTENDS Naturals, Lifecycle

CONSTANTS
  Repo,         \* the repositories the task snapshotted
  Nobody,       \* none of them
  Comment,      \* authorized review comments that may arrive
  About,        \* the repository each is about
  MaxAttempts,  \* config.model.max_task_iterations
  Versions,     \* the bounds considered on the versions of the checkouts
  Settings      \* configurations, each with the bounds it is explored with

ASSUME ApplicationAssumption ==
  /\ MaxAttempts \in Nat \ {0} /\ Nobody \notin Repo
  /\ About \in [Comment -> Repo]
  /\ Versions \subseteq [Repo -> Nat \ {0}]
  /\ Settings \subseteq [review : BOOLEAN, integration : BOOLEAN, local : SUBSET Repo,
                         versions : Versions]

VARIABLES
  setting,     \* code review, integration command, locally published members
  rec,         \* the durable TaskRecord with its RepositoryTaskStates
  tree,        \* the checkout of each member: content and HEAD
  ledger,      \* the verification ledgers: the version of the last run if it passed
  remote,      \* the head of each incident branch on GitHub
  integrated,  \* artifacts/integration.json: the revision set it passed on
  job,         \* the run in progress
  hook,        \* the integration command a merge webhook waits for
  checked,     \* ghost: per member, versions its checks passed on
  deployed     \* ghost: per member, versions that passed Playwright as deployed

vars == <<setting, rec, tree, ledger, remote, integrated, job, hook, checked, deployed>>
evidence == <<ledger, checked>>

Version(r) == 0..setting.versions[r]
Failed(r) == setting.versions[r] + 1  \* the last recorded run did not pass
Review == setting.review
Local(r) == r \in setting.local

Members(r) ==
  [changed : BOOLEAN, pr : BOOLEAN, merged : BOOLEAN, verified : BOOLEAN,
   pr_head_sha : Version(r), deployment_sha : Version(r),
   verification_sha : Version(r), code_review_sha : Version(r),
   playwright : {"none", "passed"}, comments : SUBSET Comment]

NewMember ==
  [changed |-> FALSE, pr |-> FALSE, merged |-> FALSE, verified |-> FALSE,
   pr_head_sha |-> 0, deployment_sha |-> 0, verification_sha |-> 0,
   code_review_sha |-> 0, playwright |-> "none", comments |-> {}]

\* comments: the compatibility field of the record itself.
Reproduced == [state |-> "reproducing", attempts |-> 0, comments |-> {},
               member |-> [r \in Repo |-> NewMember]]

\* Where a run waits: for the agent; inside its tools for a test command; in a
\* publication for git, the review, the push, its confirmation and the links
\* between the pull requests; for the integration command; for the deployment
\* verifier and the status report.  "publishing" and "deploying" are the loops.
Waits == {"session", "test", "publishing", "commit", "review", "push", "pushed",
          "sync", "integrate", "deploying", "report"}
NoRevision == <<>>
Idle == [at |-> "idle", from |-> "process", repo |-> Nobody, todo |-> {},
         task |-> Reproduced, ok |-> FALSE, revision |-> NoRevision,
         seen |-> [r \in Repo |-> {}]]

Init ==
  /\ setting \in Settings
  /\ rec = Reproduced
  /\ tree = [r \in Repo |-> [content |-> 1, head |-> 1]]
  /\ ledger = [r \in Repo |-> 0]
  /\ remote = [r \in Repo |-> 0]
  /\ integrated = NoRevision
  /\ job = Idle /\ hook = NoRevision
  /\ checked = [r \in Repo |-> {}] /\ deployed = [r \in Repo |-> {}]

-----------------------------------------------------------------------------
Over == rec.state \in TerminalStates
Moved(t, s) == [t EXCEPT !.state = s]
Can(t, s) == ValidTransition(t.state, s, FALSE)

\* One more attempt: back to a state, or to another when the budget is spent.
\* Mutation: the attempt that spends the budget goes back as well.
ChargedLate(t, back, spent) ==
  LET n == t.attempts + 1 IN
  [t EXCEPT !.attempts = n, !.state = IF n > MaxAttempts THEN spent ELSE back]
Charged(t, back, spent) ==
  LET n == t.attempts + 1 IN
  [t EXCEPT !.attempts = n, !.state = IF n >= MaxAttempts THEN spent ELSE back]

Handled(t) == IF t.state \in TerminalStates THEN t ELSE Charged(t, t.state, "failed")

\* A tool that raises tells the agent; a run that raises is charged.
BackToAgent ==
  job' = [Idle EXCEPT !.at = "session", !.from = "tool", !.seen = job.seen,
                      !.task = Moved(Reproduced, job.task.state)]
Return == IF job.from = "tool" THEN BackToAgent ELSE job' = Idle
Raise(t) ==
  /\ rec' = IF job.from = "tool" THEN t ELSE Handled(t)
  /\ Return
ReturnIn(t, s) ==
  IF Can(t, s) THEN rec' = Moved(t, s) /\ Return ELSE Raise(t)

Dirty(r) == tree[r].content # tree[r].head
Committed(r) == [tree EXCEPT ![r].head = tree[r].content]

\* changed_repositories(): recorded as changed, with a pull request, or with a
\* checkout that differs from its base.
Changed(t) ==
  {r \in Repo : t.member[r].changed \/ t.member[r].pr \/ tree[r].content # 1}

\* verification_pending(): a recorded run without current evidence.
Pending(r) == ledger[r] # 0 /\ ledger[r] # tree[r].content

\* _verification_current()
VerificationCurrent(m, r) == m.verified /\ ledger[r] = tree[r].content

-----------------------------------------------------------------------------
(* Completion                                                              *)

\* Mutation: the deployment that passed need not be that of the head.
MemberReported(t, r) ==
  IF Local(r) THEN t.member[r].verified ELSE t.member[r].playwright = "passed"
MemberVerified(t, r) ==
  LET m == t.member[r] IN
  /\ m.pr_head_sha # 0
  /\ tree[r].head = m.pr_head_sha /\ ~Dirty(r)
  /\ IF Local(r)
     THEN m.verified /\ m.verification_sha = m.pr_head_sha
     ELSE m.playwright = "passed" /\ m.pr_head_sha = m.deployment_sha

AllDeploymentsVerified(t) ==
  Changed(t) # {} /\ \A r \in Changed(t) : MemberVerified(t, r)

AllMerged(t) == \A r \in Changed(t) : Local(r) \/ t.member[r].merged

\* integration_revision(): what the command ran on.
Revision(t) ==
  [r \in Repo |-> <<tree[r], IF r \in Changed(t) THEN t.member[r].pr_head_sha ELSE 0>>]

\* maybe_complete() up to the integration command.
Completion(t) ==
  IF ~AllDeploymentsVerified(t) \/ ~AllMerged(t) THEN "wait"
  ELSE IF setting.integration /\ integrated # Revision(t) THEN "integrate"
  ELSE "complete"

MaybeComplete(t) ==
  CASE Completion(t) = "wait" -> rec' = t /\ Return
    [] Completion(t) = "complete" -> ReturnIn(t, "completed")
    [] Completion(t) = "integrate" ->
         rec' = t /\ job' = [job EXCEPT !.at = "integrate", !.revision = Revision(t)]

\* The result counts for the revision the command started on.
IntegratedOn(started) == IF started = Revision(rec) THEN started ELSE NoRevision

\* run_integration() after the command, and what follows it.
IntegrationEnds(ok) ==
  /\ job.at = "integrate"
  /\ integrated' = IF ok THEN IntegratedOn(job.revision) ELSE NoRevision
  /\ ReturnIn(rec, IF integrated' = NoRevision THEN "blocked" ELSE "completed")
  /\ UNCHANGED <<tree, evidence, remote, hook, deployed>>

\* The same for the merge webhook, which has no run to charge.
HookEnds(ok) ==
  /\ hook # NoRevision
  /\ integrated' = IF ok THEN IntegratedOn(hook) ELSE NoRevision
  /\ LET s == IF integrated' = NoRevision THEN "blocked" ELSE "completed" IN
     rec' = IF Can(rec, s) THEN Moved(rec, s) ELSE rec
  /\ hook' = NoRevision
  /\ UNCHANGED <<tree, evidence, remote, job, deployed>>

-----------------------------------------------------------------------------
(* The agent's session                                                     *)
SessionStates == {"reproducing", "implementing", "testing_local"}
Asked(t) == t.comments # {} \/ \E r \in Repo : t.member[r].comments # {}
DeploymentPending(t) ==
  \E r \in Changed(t) : /\ ~Local(r) /\ t.member[r].deployment_sha # 0
                         /\ t.member[r].playwright # "passed"

\* In review the comments stay in the record until the session has ended.
StartSession ==
  /\ job = Idle
  /\ \/ rec.state \in SessionStates
     \/ rec.state = "waiting_for_review" /\ ~DeploymentPending(rec) /\ Asked(rec)
  /\ job' = [Idle EXCEPT
       !.at = "session", !.from = "tool", !.task = Moved(Reproduced, rec.state),
       !.seen = IF rec.state = "waiting_for_review"
                THEN [r \in Repo |-> rec.member[r].comments] ELSE @]
  /\ UNCHANGED <<rec, tree, evidence, remote, integrated, hook, deployed>>

NewContent(r, committed) ==
  /\ tree[r].content < setting.versions[r]
  /\ tree' = [tree EXCEPT ![r].content = @ + 1,
                          ![r].head = IF committed THEN tree[r].content + 1 ELSE @]

AgentEdits(r, committed) ==
  /\ job.at = "session"
  /\ NewContent(r, committed)
  /\ UNCHANGED <<rec, evidence, remote, integrated, job, hook, deployed>>

\* _ack_application_review_comments()
Acknowledged(t) ==
  [t EXCEPT !.member = [r \in Repo |->
    [t.member[r] EXCEPT !.comments = t.member[r].comments \ job.seen[r]]]]

\* It yields, blocked or not; an active task left where it was costs an attempt.
SessionEnds(blocked) ==
  /\ job.at = "session"
  /\ LET t == Acknowledged(rec) IN
     rec' = IF blocked /\ ~Over THEN Moved(t, "blocked")
            ELSE IF rec.state = job.task.state /\ rec.state \in ActiveStates
            THEN Charged(t, rec.state, "blocked")
            ELSE t
  /\ job' = Idle
  /\ UNCHANGED <<tree, evidence, remote, integrated, hook, deployed>>

\* The backend raises and the comments stay; or the session says that it waits,
\* after its comments were acknowledged, though nothing moved the task to a wait.
SessionRaises ==
  /\ job.at = "session"
  /\ \/ rec' = Handled(rec)
     \/ /\ rec.state \notin {"waiting_for_deployment", "waiting_for_review"} \union TerminalStates
        /\ rec' = Handled(Acknowledged(rec))
  /\ job' = Idle
  /\ UNCHANGED <<tree, evidence, remote, integrated, hook, deployed>>

-----------------------------------------------------------------------------
(* run_tests(repository)                                                   *)
Testable == SessionStates \union {"waiting_for_review"}

Passed(t, r) == [Moved(t, "testing_local") EXCEPT !.member[r].verified = TRUE]

RunTests(r) ==
  /\ job.at = "session"
  /\ rec.state \in Testable
  /\ rec' = Moved(rec, "implementing")
  /\ job' = [job EXCEPT !.at = "test", !.repo = r]
  /\ UNCHANGED <<tree, evidence, remote, integrated, hook, deployed>>

\* A pass on the same inputs is reused.
ReusePass(r) ==
  /\ job.at = "session"
  /\ rec.state \in Testable
  /\ ledger[r] = tree[r].content
  /\ rec' = Passed(rec, r)
  /\ UNCHANGED <<tree, evidence, remote, integrated, job, hook, deployed>>

\* The ledger counts a pass on stable inputs only; the record goes by the
\* command.  A task closed meanwhile refuses the change of state.
TestEnds(passed, stable) ==
  /\ job.at = "test"
  /\ LET r == job.repo  v == tree[r].content  good == passed /\ stable IN
     /\ IF stable THEN UNCHANGED tree ELSE NewContent(r, FALSE)
     /\ ledger' = [ledger EXCEPT ![r] = IF good THEN v ELSE Failed(r)]
     /\ checked' = [checked EXCEPT ![r] = @ \union (IF good THEN {v} ELSE {})]
     /\ rec' = IF Over THEN rec
               ELSE IF passed THEN Passed(rec, r)
               ELSE Charged(rec, "reproducing", "blocked")
  /\ BackToAgent
  /\ UNCHANGED <<remote, integrated, hook, deployed>>

-----------------------------------------------------------------------------
(* publish()                                                               *)
Publishing(from) == [job EXCEPT !.at = "publishing", !.from = from, !.todo = Changed(rec)]

\* open_pr: every recorded check of every member must be current.
OpenPr ==
  /\ job.at = "session"
  /\ rec.state \in {"testing_local", "publishing_pr"}
  /\ \A r \in Repo : ~Pending(r)
  /\ rec' = Moved(rec, "publishing_pr")
  /\ job' = IF Changed(rec) = {} THEN job ELSE Publishing("tool")
  /\ UNCHANGED <<tree, evidence, remote, integrated, hook, deployed>>

\* process() resumes a publication that was cut short.
ResumePublishing ==
  /\ job = Idle
  /\ rec.state = "publishing_pr"
  /\ IF Changed(rec) = {} THEN rec' = Handled(rec) /\ UNCHANGED job
     ELSE job' = Publishing("process") /\ UNCHANGED rec
  /\ UNCHANGED <<tree, evidence, remote, integrated, hook, deployed>>

\* A new head takes the evidence of the old one with it.
\* Mutation: the evidence of the old head stays.
KeepEvidence(m, sha) == m
Invalidated(m, sha) ==
  IF m.pr_head_sha = sha THEN m
  ELSE [m EXCEPT !.deployment_sha = 0, !.playwright = "none", !.merged = FALSE,
                 !.verification_sha = IF @ = sha THEN sha ELSE 0,
                 !.verified = @ /\ m.verification_sha = sha,
                 !.code_review_sha = IF @ = sha THEN sha ELSE 0]

PublishedAt(m, r, sha) ==
  LET q == Invalidated(m, sha) IN
  IF Local(r)
  THEN [q EXCEPT !.changed = TRUE, !.pr_head_sha = sha,
                 !.verification_sha = sha, !.verified = TRUE]
  ELSE [q EXCEPT !.changed = TRUE, !.pr_head_sha = sha, !.pr = TRUE]

Published(t, r) == [t EXCEPT !.member[r] = PublishedAt(t.member[r], r, tree'[r].head)]

\* Mutation: a publication that is resumed stops at the first member.
DoneAll(r) ==
  job' = [job EXCEPT !.at = "publishing", !.repo = Nobody, !.todo = {}, !.task = Idle.task]
Done(r) ==
  job' = [job EXCEPT !.at = "publishing", !.repo = Nobody, !.todo = @ \ {r},
                     !.task = Idle.task]

\* What happens to member r once its review is over: m is its state as the loop
\* loaded it, t the record by now.
AlreadyPublished(m, r) == m.pr_head_sha # 0 /\ tree[r].head = m.pr_head_sha /\ ~Dirty(r)

PublishMember(m, t, r) ==
  IF AlreadyPublished(m, r) THEN rec' = t /\ Done(r) /\ UNCHANGED tree
  ELSE IF ~VerificationCurrent(m, r) THEN Raise(t) /\ UNCHANGED tree
  ELSE IF Local(r) THEN tree' = Committed(r) /\ rec' = Published(t, r) /\ Done(r)
  ELSE /\ rec' = t /\ UNCHANGED tree
       /\ job' = [job EXCEPT !.at = "push", !.repo = r, !.task = Idle.task]

NextMember(r) ==
  /\ job.at = "publishing" /\ r \in job.todo
  /\ ~Review
  /\ PublishMember(rec.member[r], rec, r)
  /\ UNCHANGED <<evidence, remote, integrated, hook, deployed>>

\* The adapter commits what is left and pushes ...
Push ==
  /\ job.at = "push"
  /\ tree' = Committed(job.repo)
  /\ remote' = [remote EXCEPT ![job.repo] = tree'[job.repo].head]
  /\ job' = [job EXCEPT !.at = "pushed"]
  /\ UNCHANGED <<rec, evidence, integrated, hook, deployed>>

\* ... or GitHub does not confirm, before or after the push; or the operation's
\* budget is spent, which blocks the task first.
PublishRaises ==
  /\ job.at \in {"push", "pushed", "sync"}
  /\ \/ Raise(rec)
     \/ job.at = "push" /\ ~Over /\ rec' = Moved(rec, "blocked") /\ Return
  /\ UNCHANGED <<tree, evidence, remote, integrated, hook, deployed>>

\* The record is loaded again, and saved before the next member.
Checkpoint ==
  /\ job.at = "pushed"
  /\ UNCHANGED tree
  /\ rec' = Published(rec, job.repo)
  /\ Done(job.repo)
  /\ UNCHANGED <<evidence, remote, integrated, hook, deployed>>

AllMembersDone ==
  /\ job.at = "publishing" /\ job.todo = {}
  /\ job' = [job EXCEPT !.at = "sync"]
  /\ UNCHANGED <<rec, tree, evidence, remote, integrated, hook, deployed>>

\* What open_pr and process() do when publish() returns.
AfterPublish(t) ==
  IF job.from = "tool"
  THEN IF t.state \notin {"publishing_pr", "waiting_for_deployment"}
       THEN rec' = t /\ BackToAgent
       ELSE IF Changed(t) \subseteq setting.local THEN MaybeComplete(t)
       ELSE ReturnIn(t, "waiting_for_deployment")
  ELSE IF AllDeploymentsVerified(t) THEN MaybeComplete(t)
       ELSE ReturnIn(t, "waiting_for_deployment")

PublishEnds ==
  /\ job.at = "sync"
  /\ AfterPublish(rec)
  /\ UNCHANGED <<tree, evidence, remote, integrated, hook, deployed>>


-----------------------------------------------------------------------------
(* _review_fix() of a member, on the view publish() made of it             *)

\* A closed task stops the publication; otherwise git status is awaited.
ReviewStarts(r) ==
  /\ job.at = "publishing" /\ r \in job.todo
  /\ Review
  /\ IF Over THEN AfterPublish(rec)
     ELSE /\ job' = [job EXCEPT !.at = "commit", !.repo = r, !.task = rec]
          /\ UNCHANGED rec
  /\ UNCHANGED <<tree, evidence, remote, integrated, hook, deployed>>

\* commit_worktree() records the commit as the member's head and saves the
\* view: the record as it was loaded, with the member's comments at its top.
ReviewCommits ==
  LET r == job.repo IN
  /\ job.at = "commit"
  /\ IF Dirty(r)
     THEN LET m == [job.task.member[r] EXCEPT !.pr_head_sha = tree[r].content,
                                              !.changed = TRUE]
              t == [job.task EXCEPT !.comments = job.task.member[r].comments,
                                    !.member[r] = m] IN
          /\ tree' = Committed(r)
          /\ rec' = t
          /\ job' = [job EXCEPT !.at = "review", !.task = t]
     ELSE job' = [job EXCEPT !.at = "review"] /\ UNCHANGED <<rec, tree>>
  /\ UNCHANGED <<evidence, remote, integrated, hook, deployed>>

Seen(r) == job.task.member[r]  \* the member as the loop loaded it

ReviewSkipped ==
  LET r == job.repo IN
  /\ job.at = "review"
  /\ Seen(r).code_review_sha = tree[r].head
  /\ PublishMember(Seen(r), rec, r)
  /\ UNCHANGED <<evidence, remote, integrated, hook, deployed>>

ReviewPasses ==
  LET r == job.repo IN
  /\ job.at = "review"
  /\ Seen(r).code_review_sha # tree[r].head
  /\ PublishMember(Seen(r), [rec EXCEPT !.member[r].code_review_sha = tree[r].head], r)
  /\ UNCHANGED <<evidence, remote, integrated, hook, deployed>>

\* The attempt is charged to the member, the budget read from the task.
ReviewFinds ==
  LET r == job.repo
      t == [rec EXCEPT !.member[r].code_review_sha = 0, !.member[r].playwright = "none"]
      s == IF rec.attempts + 1 >= MaxAttempts THEN "blocked" ELSE "reproducing"
  IN
  /\ job.at = "review"
  /\ Seen(r).code_review_sha # tree[r].head
  /\ IF Over THEN Raise(t) ELSE AfterPublish(Moved(t, s))
  /\ UNCHANGED <<tree, evidence, remote, integrated, hook, deployed>>

\* It could not complete: the task is blocked.
ReviewFails ==
  /\ job.at \in {"commit", "review"}
  /\ IF Over THEN Raise(rec) ELSE AfterPublish(Moved(rec, "blocked"))
  /\ UNCHANGED <<tree, evidence, remote, integrated, hook, deployed>>

-----------------------------------------------------------------------------
(* TESTING_DEPLOYMENT, and deployments that arrive in review               *)
StartDeployment ==
  /\ job = Idle
  /\ \/ rec.state = "testing_deployment"
     \/ rec.state = "waiting_for_review" /\ DeploymentPending(rec)
  /\ job' = [Idle EXCEPT !.at = "deploying", !.task = rec, !.todo = Changed(rec)]
  /\ UNCHANGED <<rec, tree, evidence, remote, integrated, hook, deployed>>

\* The loop goes by the record it holds.
Untested(r) == job.task.member[r].deployment_sha # 0 /\ job.task.member[r].playwright # "passed"

SkipMember(r) ==
  /\ job.at = "deploying" /\ r \in job.todo
  /\ ~Untested(r)
  /\ job' = [job EXCEPT !.todo = @ \ {r}]
  /\ UNCHANGED <<rec, tree, evidence, remote, integrated, hook, deployed>>

\* The verifier refuses what is not the head of the member as it is now; a
\* result on record for this deployment is used again.  After the wait the
\* record is loaded again, and held while the status is reported.
Accepts(t, r, sha) == t.member[r].pr /\ t.member[r].pr_head_sha = sha

VerifyMember(r, ok) ==
  LET sha == job.task.member[r].deployment_sha IN
  /\ job.at = "deploying" /\ r \in job.todo
  /\ Untested(r)
  /\ ok => Accepts(rec, r, sha)
  /\ deployed' = [deployed EXCEPT ![r] = @ \union (IF ok THEN {sha} ELSE {})]
  /\ job' = [job EXCEPT !.at = "report", !.repo = r, !.ok = ok,
       !.task = [rec EXCEPT !.member[r].playwright = IF ok THEN "passed" ELSE "none"]]
  /\ UNCHANGED <<rec, tree, evidence, remote, integrated, hook>>

\* A pass is saved with the whole record held since; a failure only moves the task.
Reported ==
  /\ job.at = "report"
  /\ IF job.ok
     THEN /\ rec' = job.task
          /\ job' = [job EXCEPT !.at = "deploying", !.repo = Nobody, !.todo = @ \ {job.repo},
                                !.ok = FALSE]
     ELSE ReturnIn(rec, "reproducing")
  /\ UNCHANGED <<tree, evidence, remote, integrated, hook, deployed>>

\* The verifier, or GitHub on the report, raises; or the operation's budget is
\* spent, which blocks the task first.
DeploymentRaises ==
  /\ job.at \in {"deploying", "report"}
  /\ job.at = "deploying" => \E r \in job.todo : Untested(r)
  /\ \/ Raise(rec)
     \/ job.at = "deploying" /\ ~Over /\ rec' = Moved(rec, "blocked") /\ Return
  /\ UNCHANGED <<tree, evidence, remote, integrated, hook, deployed>>

DeploymentEnds ==
  /\ job.at = "deploying" /\ job.todo = {}
  /\ IF AllDeploymentsVerified(rec) THEN MaybeComplete(rec)
     ELSE IF rec.state = "testing_deployment" THEN ReturnIn(rec, "waiting_for_review")
     ELSE UNCHANGED rec /\ Return
  /\ UNCHANGED <<tree, evidence, remote, integrated, hook, deployed>>

\* Nothing left to test and nothing asked: is it complete?
ReviewIdle ==
  /\ job = Idle
  /\ rec.state = "waiting_for_review" /\ ~DeploymentPending(rec) /\ ~Asked(rec)
  /\ Completion(rec) # "wait"
  /\ MaybeComplete(rec)
  /\ UNCHANGED <<tree, evidence, remote, integrated, hook, deployed>>

-----------------------------------------------------------------------------
(* Webhooks, cancellation, and the death of the process                    *)

\* handle_github_event(): a deployment of the recorded head.
DeploymentArrives(r) ==
  /\ ~Over
  /\ remote[r] # 0 /\ Accepts(rec, r, remote[r])
  /\ LET t == [rec EXCEPT !.member[r].deployment_sha = remote[r]] IN
     rec' = IF t.state = "waiting_for_deployment" THEN Moved(t, "testing_deployment") ELSE t
  /\ UNCHANGED <<tree, evidence, remote, integrated, job, hook, deployed>>

\* _record_merged_pull_request(), and its own attempt to complete the task.
MergeArrives(r) ==
  LET t == [rec EXCEPT !.member[r].merged = TRUE] IN
  /\ ~Over
  /\ rec.member[r].pr /\ ~rec.member[r].merged
  /\ hook = NoRevision
  /\ rec' = IF Completion(t) = "complete" /\ Can(t, "completed")
            THEN Moved(t, "completed") ELSE t
  /\ hook' = IF Completion(t) = "integrate" THEN Revision(t) ELSE NoRevision
  /\ UNCHANGED <<tree, evidence, remote, integrated, job, deployed>>

CommentArrives(c) ==
  /\ ~Over
  /\ rec.member[About[c]].pr /\ c \notin rec.member[About[c]].comments
  /\ rec' = [rec EXCEPT !.member[About[c]].comments = @ \union {c}]
  /\ UNCHANGED <<tree, evidence, remote, integrated, job, hook, deployed>>

Cancel ==
  /\ ~Over
  /\ rec' = Moved(rec, "cancelled")
  /\ UNCHANGED <<tree, evidence, remote, integrated, job, hook, deployed>>

Crash ==
  /\ job # Idle \/ hook # NoRevision
  /\ job' = Idle /\ hook' = NoRevision
  /\ UNCHANGED <<rec, tree, evidence, remote, integrated, deployed>>

Step ==
  \/ \E ok \in BOOLEAN : IntegrationEnds(ok) \/ HookEnds(ok)
  \/ StartSession \/ SessionRaises
  \/ \E blocked \in BOOLEAN : SessionEnds(blocked)
  \/ \E r \in Repo, committed \in BOOLEAN : AgentEdits(r, committed)
  \/ \E r \in Repo : RunTests(r) \/ ReusePass(r)
  \/ \E passed, stable \in BOOLEAN : TestEnds(passed, stable)
  \/ OpenPr \/ ResumePublishing
  \/ \E r \in Repo : NextMember(r) \/ ReviewStarts(r)
  \/ Push \/ PublishRaises \/ Checkpoint \/ AllMembersDone \/ PublishEnds
  \/ ReviewCommits \/ ReviewSkipped \/ ReviewPasses \/ ReviewFinds \/ ReviewFails
  \/ StartDeployment \/ Reported \/ DeploymentRaises \/ DeploymentEnds \/ ReviewIdle
  \/ \E r \in Repo : SkipMember(r)
  \/ \E r \in Repo, ok \in BOOLEAN : VerifyMember(r, ok)
  \/ \E r \in Repo : DeploymentArrives(r) \/ MergeArrives(r)
  \/ \E c \in Comment : CommentArrives(c)
  \/ Cancel \/ Crash

Next == Step /\ UNCHANGED setting

Spec == Init /\ [][Next]_vars

-----------------------------------------------------------------------------
TypeOK ==
  /\ setting \in Settings
  /\ rec.state \in TaskStates /\ rec.attempts \in 0..MaxAttempts
  /\ rec.comments \subseteq Comment /\ DOMAIN rec.member = Repo
  /\ \A r \in Repo :
       /\ rec.member[r] \in Members(r)
       /\ tree[r] \in [content : 1..setting.versions[r], head : 1..setting.versions[r]]
       /\ ledger[r] \in Version(r) \union {Failed(r)} /\ remote[r] \in Version(r)
       /\ checked[r] \subseteq Version(r) /\ deployed[r] \subseteq Version(r)
  /\ job.at \in Waits \union {"idle"} /\ job.todo \subseteq Repo

\* "The task can complete only after every changed repository has current
\* required evidence and any configured application integration check passes"
\* (docs/application-scopes.md): at the step that completes the task, every
\* changed checkout is clean at the head that was published, that version
\* passed its checks and, published remotely, Playwright on its own
\* deployment, and the integration command passed on exactly these heads,
\* whichever of the run, the tool and the webhook takes the step.
CompletionEvidence ==
  /\ \A r \in Changed(rec) :
       LET v == rec.member[r].pr_head_sha IN
       /\ tree[r].content = v /\ tree[r].head = v
       /\ v \in checked[r]
       /\ ~Local(r) => v \in deployed[r] /\ remote[r] = v
  /\ setting.integration => integrated = Revision(rec)

CompletesWithEvidence ==
  [][ rec.state # "completed" /\ rec'.state = "completed" => CompletionEvidence' ]_vars

WaitsForAll ==
  (rec.state # "waiting_for_deployment" /\ rec'.state = "waiting_for_deployment") =>
    \A r \in Changed(rec') :
      /\ rec'.member[r].pr_head_sha = tree'[r].content
      /\ ~Local(r) => remote'[r] = rec'.member[r].pr_head_sha

\* Publication of several repositories may stop between any two of them and be
\* resumed: the task starts to wait for deployments only when what every
\* changed repository holds was published.  (With a code review that is not
\* so: see ReviewedIsPublished.)
WaitsForPublished == [][ ~Review => WaitsForAll ]_vars

\* A Playwright result stays with the head it is about: publishing, a second
\* deployment and a late result never put a pass beside another version.
PassIsOfTheHead ==
  \A r \in Repo :
    rec.member[r].playwright = "passed" =>
      /\ rec.member[r].deployment_sha \in deployed[r]
      /\ ~Review => rec.member[r].deployment_sha = rec.member[r].pr_head_sha

\* "Publish changed repositories, checkpointing after each successful target"
\* (the docstring of publish): with a code review too, what the task waits for
\* was published.
ReviewedIsPublished == [][ WaitsForAll ]_vars

\* "Review comments are retained per repository, routed back into the same
\* durable lead session, and survive worker restarts"
\* (docs/application-scopes.md): only the end of the session that saw a comment
\* takes it from the record.
CommentsRetained ==
  [][ \A r \in Repo : rec.member[r].comments \subseteq
        rec'.member[r].comments \union (IF job.at = "session" THEN job.seen[r] ELSE {}) ]_vars
=============================================================================
