---------------------------- MODULE TaskWorkflow ----------------------------
(***************************************************************************)
(* One single-repository incident from intake to merge, as WorkflowEngine  *)
(* processes it (src/src/workflow.py) with an agent that keeps a durable   *)
(* session and drives the lifecycle through the harness tools              *)
(* (_TaskLifecycle).                                                       *)
(*                                                                         *)
(* Between two awaits the engine does not yield, so a step goes from one   *)
(* await to the next; webhooks and cancellation run in between, without    *)
(* the task's lease.  The runs themselves exclude each other (TaskLease,   *)
(* WorkerQueue) and the agent calls one tool at a time, the default of     *)
(* parallel_tool_calls.  The process may die anywhere.                     *)
(*                                                                         *)
(* A version is a content of the checkout; a commit is the version it      *)
(* holds.  Versions are numbered in the order they are made.               *)
(***************************************************************************)
EXTENDS Naturals, Lifecycle

CONSTANTS
  Comment,      \* authorized review comments that may arrive
  MaxAttempts,  \* config.model.max_task_iterations
  Versions,     \* bound on the versions of the checkout
  Settings      \* configurations the process may be started with

ASSUME WorkflowAssumption ==
  /\ MaxAttempts \in Nat \ {0} /\ Versions \in Nat \ {0}
  /\ Settings \subseteq [triage : BOOLEAN, review : BOOLEAN, local : BOOLEAN]

VARIABLES
  setting,  \* the configuration; it does not change
  rec,      \* the durable TaskRecord
  tree,     \* the checkout: does it exist, its content, its HEAD
  passing,  \* the verification ledger: the version of the last run if it passed
  remote,   \* the head of the incident branch on GitHub
  job,      \* the run in progress
  checked,  \* ghost: versions a test command passed on, with stable inputs
  clean,    \* ghost: versions a code review found nothing in
  pushed,   \* every version that was ever the head on GitHub
  asked,    \* ghost: comments that arrived
  answered  \* ghost: comments taken by a session that ended, well or badly

vars == <<setting, rec, tree, passing, remote, job, checked, clean, pushed, asked, answered>>
evidence == <<passing, checked, clean>>
published == <<remote, pushed>>
reviews == <<asked, answered>>

Triage == setting.triage  \* config.triage.enabled
Review == setting.review  \* config.code_review.enabled
Local == setting.local    \* the publish mode of the repository is local

\* 0 stands for None in the fields that hold a commit.
Version == 0..Versions
Records == [state : TaskStates, attempts : 0..MaxAttempts,
            triage : {"none", "agent", "operator_review", "released"},
            branch : BOOLEAN, pr : BOOLEAN, pr_head_sha : Version,
            deployment_sha : Version, code_review_sha : Version,
            playwright : {"none", "passed", "failed"},
            comments : SUBSET Comment]

Received == [state |-> "received", attempts |-> 0, triage |-> "none",
             branch |-> FALSE, pr |-> FALSE, pr_head_sha |-> 0,
             deployment_sha |-> 0, code_review_sha |-> 0,
             playwright |-> "none", comments |-> {}]

\* Where the run waits: for the triage provider, for the thread that makes the
\* checkout and then saves the record, for the context collector, for the base
\* merge before a session, for the agent; inside a tool for the reproducer, a
\* test command, the code review, the publication before and after its push;
\* for the deployment verifier, for the status report.
Waits == {"assess", "clone", "cloned", "context", "refresh", "session",
          "reproduce", "test", "review", "publish", "pushed", "verify", "report"}
InTool == {"reproduce", "test", "review", "publish", "pushed"}
Idle == [at |-> "idle"]
\* task: the record the run loaded when it started; then: what a review is for;
\* input: the version a tool started from; ok: what the verifier said;
\* comments: what the session took out of the record.
Jobs == [at : Waits, task : Records, then : {"none", "test", "publish", "verify"},
         input : Version, ok : BOOLEAN, comments : SUBSET Comment]

Init ==
  /\ setting \in Settings
  /\ rec = Received
  /\ tree = [exists |-> FALSE, content |-> 1, head |-> 1]
  /\ passing = 0 /\ remote = 0
  /\ job = Idle
  /\ checked = {} /\ clean = {} /\ pushed = {}
  /\ asked = {} /\ answered = {}

-----------------------------------------------------------------------------
Over == rec.state \in TerminalStates
Can(s) == ValidTransition(rec.state, s, FALSE)
Moved(s) == [rec EXCEPT !.state = s]

\* One more attempt: back to a state, or to another when the budget is spent.
\* Mutation: the attempt that spends the budget goes back as well.
ChargedLate(back, spent) ==
  LET n == rec.attempts + 1 IN
  [rec EXCEPT !.attempts = n, !.state = IF n > MaxAttempts THEN spent ELSE back]
Charged(back, spent) ==
  LET n == rec.attempts + 1 IN
  [rec EXCEPT !.attempts = n, !.state = IF n >= MaxAttempts THEN spent ELSE back]

Wait(at) == job' = [job EXCEPT !.at = at]
Await(at, then, input) ==
  job' = [job EXCEPT !.at = at, !.then = then, !.input = input]
BackToAgent == Await("session", "none", 0)
\* Nothing is left of the run but what is in the record.
RunEnds ==
  /\ job' = Idle
  /\ answered' = answered \union job.comments
  /\ UNCHANGED asked

\* The run's exception handler reloads the record before it charges it.
Handled(r) ==
  IF r.state \in TerminalStates THEN r
  ELSE LET n == r.attempts + 1 IN
       [r EXCEPT !.attempts = n, !.state = IF n >= MaxAttempts THEN "failed" ELSE @]

\* catalog.transition() reloads, validates and writes in one transaction; if
\* the task was closed meanwhile it raises and the handler leaves it closed.
TransitionOrRaise(s, r) ==
  rec' = IF Can(s) THEN [r EXCEPT !.state = s] ELSE Handled(rec)

-----------------------------------------------------------------------------
(* process(): RECEIVED and TRIAGING                                        *)
Loaded(at) ==
  job' = [at |-> at, task |-> rec, then |-> "none", input |-> 0, ok |-> FALSE,
          comments |-> {}]

StartTriage ==
  /\ job = Idle
  /\ rec.state = "received" /\ Triage /\ rec.triage = "none"
  /\ rec' = Moved("triaging")
  /\ UNCHANGED <<tree, evidence, published, job, reviews>>

StartAssessment ==
  /\ job = Idle
  /\ rec.state = "triaging" /\ rec.triage = "none"
  /\ Loaded("assess")
  /\ UNCHANGED <<rec, tree, evidence, published, reviews>>

\* The assessment is stored, then routed; a hold blocks the task in a second
\* transaction, before which the process may die (see CrashAfterAssessment).
Hold == rec.triage = "operator_review"

AssessmentArrives ==
  /\ job # Idle /\ job.at = "assess"
  /\ IF Over
     THEN RunEnds /\ UNCHANGED rec
     ELSE \/ /\ rec' = [rec EXCEPT !.triage = "operator_review", !.state = "blocked"]
             /\ RunEnds
          \/ LET assessed == [rec EXCEPT !.triage = "agent"] IN
             /\ rec' = assessed
             /\ job' = [job EXCEPT !.at = IF tree.exists THEN "context" ELSE "clone",
                                   !.task = assessed]
             /\ UNCHANGED reviews
  /\ UNCHANGED <<tree, evidence, published>>

CrashAfterAssessment ==
  /\ job # Idle /\ job.at = "assess"
  /\ ~Over
  /\ rec' = [rec EXCEPT !.triage = "operator_review"]
  /\ RunEnds
  /\ UNCHANGED <<tree, evidence, published>>

\* Mutation: the hold is only looked at when it is assessed.
StopsAtHoldNever == FALSE
StopsAtHold == Hold

\* Resumed with its assessment stored, released by an operator, or not triaged.
StartIntake ==
  /\ job = Idle
  /\ \/ rec.state = "received" /\ (Triage => rec.triage # "none")
     \/ rec.state = "triaging" /\ rec.triage # "none"
  /\ IF StopsAtHold
     THEN rec' = Moved("blocked") /\ UNCHANGED job
     ELSE /\ Loaded(IF tree.exists THEN "context" ELSE "clone")
          /\ UNCHANGED rec
  /\ UNCHANGED <<tree, evidence, published, reviews>>

\* create_worktree runs in a thread: git makes the checkout ...
CheckoutMade ==
  /\ job # Idle /\ job.at = "clone"
  /\ tree' = [tree EXCEPT !.exists = TRUE]
  /\ Wait("cloned")
  /\ UNCHANGED <<rec, evidence, published, reviews>>

\* Another incident holds the lock of the repository: nothing is charged.
RepositoryBusy ==
  /\ job # Idle /\ job.at = "clone"
  /\ RunEnds
  /\ UNCHANGED <<rec, tree, evidence, published>>

\* ... and then the thread saves the record the run had loaded, with its branch.
CheckoutSaved ==
  /\ job # Idle /\ job.at = "cloned"
  /\ rec' = [job.task EXCEPT !.branch = TRUE]
  /\ Wait("context")
  /\ UNCHANGED <<tree, evidence, published, reviews>>

ContextCollected ==
  /\ job # Idle /\ job.at = "context"
  /\ TransitionOrRaise("collecting_context", rec)
  /\ RunEnds
  /\ UNCHANGED <<tree, evidence, published>>

-----------------------------------------------------------------------------
(* _process_agent_session()                                                *)
SessionStates == ActiveStates \ {"received", "triaging", "testing_deployment"}

\* In review the pending comments are taken out of the record, then the base
\* branch is merged into the checkout before the agent sees it.
StartSession ==
  /\ job = Idle
  /\ tree.exists
  /\ \/ /\ rec.state \in SessionStates
        /\ Loaded("refresh")
        /\ UNCHANGED rec
     \/ /\ rec.state = "waiting_for_review" /\ rec.comments # {}
        /\ rec' = [rec EXCEPT !.comments = {}]
        /\ job' = [at |-> "refresh", task |-> rec, then |-> "none", input |-> 0,
                   ok |-> FALSE, comments |-> rec.comments]
  /\ UNCHANGED <<tree, evidence, published, reviews>>

NewContent(committed) ==
  /\ tree.exists /\ tree.content < Versions
  /\ tree' = [tree EXCEPT !.content = @ + 1,
                          !.head = IF committed THEN tree.content + 1 ELSE @]

BaseMerged ==
  /\ job # Idle /\ job.at = "refresh"
  /\ NewContent(tree.head = tree.content) \/ UNCHANGED tree
  /\ Wait("session")
  /\ UNCHANGED <<rec, evidence, published, reviews>>

\* The merge stops with conflicts in the files, and the run with it.
BaseConflicts ==
  /\ job # Idle /\ job.at = "refresh"
  /\ NewContent(FALSE)
  /\ rec' = Handled(rec)
  /\ RunEnds
  /\ UNCHANGED <<evidence, published>>

\* The agent edits files, and may commit them itself.
AgentEdits ==
  /\ job # Idle /\ job.at = "session"
  /\ \E committed \in BOOLEAN : NewContent(committed)
  /\ UNCHANGED <<rec, evidence, published, job, reviews>>

\* The session yields.  A blocked reason stops the task; a session that leaves
\* an active task where it found it costs an attempt.
SessionEnds(blocked) ==
  /\ job # Idle /\ job.at = "session"
  /\ rec' = IF blocked /\ ~Over THEN Moved("blocked")
            ELSE IF rec.state = job.task.state /\ rec.state \in ActiveStates
            THEN Charged(rec.state, "blocked")
            ELSE rec
  /\ RunEnds
  /\ UNCHANGED <<tree, evidence, published>>

-----------------------------------------------------------------------------
(* mark_investigation_complete                                             *)
InvestigationMarked ==
  /\ job # Idle /\ job.at = "session"
  /\ rec.state \in {"collecting_context", "investigating", "reproducing"}
  /\ rec' = IF rec.state = "collecting_context" THEN Moved("investigating") ELSE rec
  /\ Wait("reproduce")
  /\ UNCHANGED <<tree, evidence, published, reviews>>

ReproductionEnds ==
  /\ job # Idle /\ job.at = "reproduce"
  /\ rec' = IF Can("reproducing") THEN Moved("reproducing") ELSE rec
  /\ BackToAgent
  /\ UNCHANGED <<tree, evidence, published, reviews>>

\* A tool that raises tells the agent, not the workflow: nothing is charged.
\* A code review does not raise (ReviewFails).
ToolRaises ==
  /\ job # Idle /\ job.at \in InTool \ {"review"}
  /\ BackToAgent
  /\ UNCHANGED <<rec, tree, evidence, published, reviews>>

-----------------------------------------------------------------------------
(* run_tests                                                               *)
Testable == {"reproducing", "implementing", "testing_local", "waiting_for_review"}

CommandStarts == rec' = Moved("implementing") /\ Await("test", "none", tree.content)

\* The command runs; or a pass on the same inputs is reused; or, past the
\* change of state, a path outside the current ring is refused.
TestsRun ==
  /\ job # Idle /\ job.at = "session"
  /\ rec.state \in Testable /\ tree.exists
  /\ \/ CommandStarts
     \/ passing = tree.content /\ rec' = Moved("testing_local") /\ UNCHANGED job
     \/ rec' = Moved("implementing") /\ UNCHANGED job
  /\ UNCHANGED <<tree, evidence, published, reviews>>

\* A Playwright command must pass the code review first.
PlaywrightRun ==
  /\ job # Idle /\ job.at = "session"
  /\ Review
  /\ rec.state \in Testable /\ tree.exists
  /\ tree' = [tree EXCEPT !.head = tree.content]
  /\ Await("review", "test", tree.content)
  /\ UNCHANGED <<rec, evidence, published, reviews>>

\* The command may itself have changed the files it ran on.  The ledger counts
\* a pass only on stable inputs; the lifecycle goes by the command alone.
TestEnds(passed, stable) ==
  /\ job # Idle /\ job.at = "test"
  /\ IF stable THEN UNCHANGED tree ELSE NewContent(FALSE)
  /\ passing' = IF passed /\ stable THEN tree.content ELSE 0
  /\ checked' = checked \union (IF passed /\ stable THEN {tree.content} ELSE {})
  /\ rec' = IF Over THEN rec
            ELSE IF passed THEN Moved("testing_local")
            ELSE Charged("reproducing", "blocked")
  /\ BackToAgent
  /\ UNCHANGED <<clean, published, reviews>>

-----------------------------------------------------------------------------
(* open_pr                                                                 *)
\* Mutation: the recorded checks are not looked at.
PendingNone == FALSE
PendingChecks == passing # tree.content

\* A review commits what is not committed.
OpenPr ==
  /\ job # Idle /\ job.at = "session"
  /\ rec.state \in {"testing_local", "publishing_pr"} /\ tree.exists
  /\ ~PendingChecks
  /\ tree' = IF Review THEN [tree EXCEPT !.head = tree.content] ELSE tree
  /\ Await("review", "publish", tree.content)
  /\ UNCHANGED <<rec, evidence, published, reviews>>

\* After the review the record is read again.  A known PR is updated without
\* another look at the state; a new one needs the move to PUBLISHING_PR.
PublicationStarts(r) ==
  IF r.pr
  THEN rec' = r /\ Await("publish", "none", job.input) /\ UNCHANGED tree
  ELSE IF ~ValidTransition(r.state, "publishing_pr", FALSE)
  THEN rec' = r /\ BackToAgent /\ UNCHANGED tree
  ELSE IF Local
  THEN /\ rec' = [r EXCEPT !.state = "completed", !.pr_head_sha = tree.content]
       /\ tree' = [tree EXCEPT !.head = tree.content]
       /\ BackToAgent
  ELSE /\ rec' = [r EXCEPT !.state = "publishing_pr"]
       /\ Await("publish", "none", job.input)
       /\ UNCHANGED tree

\* The adapter commits what is left and pushes; it needs the branch.
Push ==
  /\ job # Idle /\ job.at = "publish"
  /\ rec.branch /\ tree.exists
  /\ tree' = [tree EXCEPT !.head = tree.content]
  /\ remote' = tree.content
  /\ pushed' = pushed \union {tree.content}
  /\ Await("pushed", "none", tree.content)
  /\ UNCHANGED <<rec, evidence, reviews>>

\* Mutation: an update of a known PR leaves the recorded head as it was.
ConfirmedHeadOld == IF rec.pr THEN rec.pr_head_sha ELSE job.input
ConfirmedHead == job.input

Publish ==
  /\ job # Idle /\ job.at = "pushed"
  /\ rec' = IF Can("waiting_for_deployment")
            THEN [rec EXCEPT !.state = "waiting_for_deployment", !.pr = TRUE,
                             !.pr_head_sha = ConfirmedHead]
            ELSE rec
  /\ BackToAgent
  /\ UNCHANGED <<tree, evidence, published, reviews>>

-----------------------------------------------------------------------------
(* _review_fix()                                                           *)
Proceed(r) ==
  CASE job.then = "test" ->
         /\ IF ValidTransition(r.state, "implementing", FALSE) \/ r.state = "implementing"
            THEN /\ rec' = [r EXCEPT !.state = "implementing"]
                 /\ Await("test", "none", tree.content)
            ELSE rec' = r /\ BackToAgent
         /\ UNCHANGED <<tree, reviews>>
    [] job.then = "publish" -> PublicationStarts(r) /\ UNCHANGED reviews
    [] job.then = "verify" ->
         rec' = r /\ Await("verify", "none", 0) /\ UNCHANGED <<tree, reviews>>

\* A review that found something hands the task back to the caller: the agent,
\* or, after a deployment, the end of the run.
HandBack ==
  IF job.then = "verify" THEN RunEnds ELSE BackToAgent /\ UNCHANGED reviews

\* Disabled, or this commit is already reviewed.
ReviewSkipped ==
  /\ job # Idle /\ job.at = "review"
  /\ tree.exists
  /\ Review => rec.code_review_sha = tree.head
  /\ Proceed(rec)
  /\ UNCHANGED <<evidence, published>>

ReviewPasses ==
  /\ job # Idle /\ job.at = "review"
  /\ Review /\ tree.exists /\ rec.code_review_sha # tree.head
  /\ clean' = clean \union {tree.head}
  /\ Proceed([rec EXCEPT !.code_review_sha = tree.head])
  /\ UNCHANGED <<passing, checked, published>>

ReviewFinds ==
  /\ job # Idle /\ job.at = "review"
  /\ Review /\ tree.exists /\ rec.code_review_sha # tree.head
  /\ rec' = IF Over THEN rec
            ELSE [Charged("reproducing", "blocked")
                    EXCEPT !.code_review_sha = 0, !.playwright = "none"]
  /\ HandBack
  /\ UNCHANGED <<tree, evidence, published>>

ReviewFails ==
  /\ job # Idle /\ job.at = "review"
  /\ Review
  /\ rec' = IF Over THEN rec
            ELSE [rec EXCEPT !.state = "blocked", !.code_review_sha = 0]
  /\ HandBack
  /\ UNCHANGED <<tree, evidence, published>>

-----------------------------------------------------------------------------
(* TESTING_DEPLOYMENT                                                      *)

\* The checkout must still be what was deployed.
CheckoutIsDeployed == tree.content = tree.head /\ tree.head = rec.pr_head_sha

StartVerification ==
  /\ job = Idle
  /\ rec.state = "testing_deployment" /\ tree.exists
  /\ IF ~Review
     THEN Loaded("verify") /\ UNCHANGED rec
     ELSE IF CheckoutIsDeployed
     THEN /\ job' = [at |-> "review", task |-> rec, then |-> "verify",
                     input |-> tree.head, ok |-> FALSE, comments |-> {}]
          /\ UNCHANGED rec
     ELSE /\ rec' = [rec EXCEPT !.state = "blocked", !.code_review_sha = 0]
          /\ UNCHANGED job
  /\ UNCHANGED <<tree, evidence, published, reviews>>

\* The verifier refuses a deployment that is not the current head.
VerifierReports(ok) ==
  /\ job # Idle /\ job.at = "verify"
  /\ ok => rec.deployment_sha = rec.pr_head_sha
  /\ job' = [job EXCEPT !.at = "report", !.ok = ok]
  /\ UNCHANGED <<rec, tree, evidence, published, reviews>>

\* Mutation: the verdict is written without looking at what happened while the
\* status was reported.
ConcludeBlindly(ok) ==
  IF ok THEN [rec EXCEPT !.state = "waiting_for_review", !.playwright = "passed"]
  ELSE [Charged("reproducing", "blocked") EXCEPT !.playwright = "failed"]

Conclude(ok) ==
  IF Over THEN rec
  ELSE IF ok THEN [rec EXCEPT !.state = "waiting_for_review", !.playwright = "passed"]
  ELSE [Charged("reproducing", "blocked") EXCEPT !.playwright = "failed"]

VerificationEnds ==
  /\ job # Idle /\ job.at = "report"
  /\ rec' = Conclude(job.ok)
  /\ RunEnds
  /\ UNCHANGED <<tree, evidence, published>>

-----------------------------------------------------------------------------
(* Failure of a run, and of the process                                    *)

\* The provider, git, the collector, the agent or GitHub raises outside a tool.
RunRaises ==
  /\ job # Idle /\ job.at \in Waits \ (InTool \union {"cloned"})
  /\ rec' = Handled(rec)
  /\ RunEnds
  /\ UNCHANGED <<tree, evidence, published>>

\* The process dies with the run and its threads; the lease expires later.
Crash ==
  /\ job # Idle
  /\ job' = Idle
  /\ UNCHANGED <<rec, tree, evidence, published, reviews>>

-----------------------------------------------------------------------------
(* What happens to the task from outside, without its lease                *)

Cancel ==
  /\ ~Over
  /\ rec' = Moved("cancelled")
  /\ UNCHANGED <<tree, evidence, published, job, reviews>>

\* release_triage takes the lease: no run is in progress.
ReleaseTriage ==
  /\ job = Idle
  /\ rec.state = "blocked" /\ Hold
  /\ rec' = [rec EXCEPT !.state = "received", !.triage = "released"]
  /\ UNCHANGED <<tree, evidence, published, job, reviews>>

CommentArrives(c) ==
  /\ ~Over /\ rec.pr
  /\ c \notin asked
  /\ rec' = [rec EXCEPT !.comments = @ \union {c}]
  /\ asked' = asked \union {c}
  /\ UNCHANGED <<tree, evidence, published, job, answered>>

Accepts(v) == rec.pr /\ v = rec.pr_head_sha

\* GitHub announces deployments of any head the branch ever had, in any order
\* and more than once.
DeploymentArrives(v) ==
  /\ v \in pushed
  /\ rec.state = "waiting_for_deployment"
  /\ Accepts(v)
  /\ rec' = [rec EXCEPT !.state = "testing_deployment", !.deployment_sha = v]
  /\ UNCHANGED <<tree, evidence, published, job, reviews>>

\* The pull request was merged: the task completes and its checkout goes,
\* whatever a run is doing with it.
Merged ==
  /\ rec.pr /\ Can("completed") /\ ~Over
  /\ rec' = Moved("completed")
  /\ tree' = [tree EXCEPT !.exists = FALSE]
  /\ UNCHANGED <<evidence, published, job, reviews>>

Step ==
  \/ StartTriage \/ StartAssessment \/ AssessmentArrives \/ CrashAfterAssessment
  \/ StartIntake \/ CheckoutMade \/ RepositoryBusy \/ CheckoutSaved \/ ContextCollected
  \/ StartSession \/ BaseMerged \/ BaseConflicts \/ AgentEdits
  \/ \E blocked \in BOOLEAN : SessionEnds(blocked)
  \/ InvestigationMarked \/ ReproductionEnds \/ ToolRaises
  \/ TestsRun \/ PlaywrightRun
  \/ \E passed, stable \in BOOLEAN : TestEnds(passed, stable)
  \/ OpenPr \/ Push \/ Publish
  \/ ReviewSkipped \/ ReviewPasses \/ ReviewFinds \/ ReviewFails
  \/ StartVerification
  \/ \E ok \in BOOLEAN : VerifierReports(ok)
  \/ VerificationEnds
  \/ RunRaises \/ Crash
  \/ Cancel \/ ReleaseTriage \/ Merged
  \/ \E c \in Comment : CommentArrives(c)
  \/ \E v \in Version : DeploymentArrives(v)

Next == Step /\ UNCHANGED setting

Spec == Init /\ [][Next]_vars

-----------------------------------------------------------------------------
TypeOK ==
  /\ setting \in Settings
  /\ rec \in Records
  /\ tree \in [exists : BOOLEAN, content : 1..Versions, head : 1..Versions]
  /\ passing \in Version /\ remote \in Version
  /\ job \in Jobs \union {Idle}
  /\ checked \in SUBSET Version /\ clean \in SUBSET Version
  /\ pushed \in SUBSET Version
  /\ asked \in SUBSET Comment /\ answered \in SUBSET Comment

\* "open_pr publishes only from a successfully tested state" (README): every
\* version that ever became the head on GitHub had passed its local checks on
\* stable inputs, and a code review when that is enabled, whatever edits, base
\* merges, retries, failures and crashes came in between.  The same holds of
\* the commit a task that is published locally completes with.
PublishedIsChecked ==
  /\ pushed \subseteq checked
  /\ Review => pushed \subseteq clean
  /\ (rec.state = "completed" /\ ~rec.pr) => rec.pr_head_sha \in checked

\* A task that asks for review shows the very head it verified: the recorded
\* head, the deployment that passed and the branch on GitHub are one version.
ReviewedIsVerified ==
  rec.state = "waiting_for_review" =>
    /\ rec.playwright = "passed"
    /\ rec.deployment_sha = rec.pr_head_sha
    /\ rec.pr_head_sha = remote

\* A task that still works has not spent its budget: every path that fails
\* (tests, review, verification, exceptions, sessions without progress) either
\* leaves an attempt over or closes the task.
BudgetRespected == ~Over => rec.attempts < MaxAttempts

\* A task held for triage review gets no checkout and no agent until an
\* operator releases it, also after a crash between assessment and hold.
HoldRespected ==
  Hold => rec.state \in {"triaging"} \union TerminalStates /\ job = Idle

\* A closed task is never reopened and no attempt is ever taken back, although
\* most writes save a whole record.  The checkout thread is the exception.
ClosedStaysClosed ==
  [][ job.at = "cloned" \/
      /\ rec'.attempts >= rec.attempts
      /\ Over => \/ rec'.state = rec.state
                 \/ rec.triage = "operator_review" /\ rec'.triage = "released" ]_vars

\* "Terminal tasks remain terminal" (README), the release of a triage hold
\* being the documented exception.
TerminalTasksRemainTerminal ==
  [][ Over => \/ rec'.state = rec.state
              \/ rec.triage = "operator_review" /\ rec'.triage = "released" ]_vars

\* "A process restart cannot drop an authorized request" (README): a comment
\* that arrived is in the record, in the hands of a session, or was in those
\* of a session that ended.
InHand == IF job = Idle THEN {} ELSE job.comments
RestartKeepsRequests == asked \subseteq rec.comments \union InHand \union answered

\* "Recovery continues from the last persisted checkpoint" (README): a checkout
\* that no run is making has its branch on record, without which nothing can
\* be published from it.
CheckoutHasBranch ==
  (tree.exists /\ job = Idle /\ ~Over) => rec.branch
=============================================================================
