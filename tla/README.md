# Specifications of the incident resolver agent

TLA+ modules, TLC configurations and TLAPS proofs for the repository's incident
workflow. Paths such as `workflow.py:371` are relative to `src/src/`, except
`README.md:757`, which is the repository's own README.

    tlasany TaskWorkflow.tla
    tlc -workers 2 -config MCTaskWorkflow.cfg MCTaskWorkflow
    tlapm TaskWorkflow_proofs.tla

`PROJECT.json` lists, for machines, what this file says for people: components,
runs, the mutation that breaks each property, the source lines of every
definition, findings, hazards and theorems.

## 1. The system

One Python process (`serve`) receives incidents, GitHub deliveries and operator
requests over HTTP and runs a worker loop in the same asyncio event loop;
other processes (`serve --no-worker`, the command line) may share the database.
A task is a durable record that walks a lifecycle graph. An agent with a durable
session edits a Git worktree and asks the harness, through tools, for tests,
review and publication. Deployments and review comments come back as webhooks.

| Component | State it keeps | Operations | What makes it correct |
|---|---|---|---|
| Lifecycle graph (`lifecycle_graph.py`) | none | `validate_transition` | terminal states have one exit, the audited release |
| Task catalog (`task_catalog.py`) | `catalog_tasks`, `catalog_leases`, `catalog_workspaces` (SQLite) | create, transition, save, acquire/release, list | transitions are validated on the stored row, one lease holder |
| Repository storage (`storage.py`) | worktrees, lock files, artifacts, memory | `lock`, `create_worktree`, `refresh_worktree`, `remove_worktree`, `save_task` | one preparer per repository; checkouts and records agree |
| Operation ledger (`operations.py`) | current rows, budgets, history (SQLite) | `begin`, `finish`, `get`, `recoverable` | every effect is charged, budgets bound replays, history agrees |
| Worker loop (`workflow.py:734-780, 1980-2110`) | queue, dedup set, running set, deferred set, semaphore | `wake`, `recover`, `run_worker`, `run_one`, `stop` | nothing runs twice at once, nothing is forgotten |
| Lease (`workflow.py:1123-1150`) | row and heartbeat | `process`, conflict recovery | one run per task; takeover only after expiry |
| Single-repository workflow (`workflow.py`) | `TaskRecord`, run in progress | the stages of a run, lifecycle tools, webhooks, cancel, release | only checked versions are published; budgets; holds; terminal states |
| Verification graph (`verification_graph.py`) | ledger of runs with input digests | `snapshot`, `record`, `cached`, `pending_checks` | a pass counts only for the inputs it ran on |
| GitHub adapter (`github.py`), verifier (`verify.py`), code review (`code_review.py`) | branch, deployments, reviewed commit | publish, parse events, accept, verify, review | the recorded head is the published one; stale deployments change nothing |
| Conflict recovery (`workflow.py:1719-2042`) | merge intent, attempt count, half-merged checkout | recover, resume, poll | recoveries charged once, interrupted ones resumed, only the recorded head merged, the agent told |
| Application workflow (`application_workflow.py`, `workflow.py`) | one member state per repository in the record, the passed integration | sessions over several repositories, resumable publication, deployments, merges, integration, completion | completion waits for every repository, each with evidence of the published revision |
| HTTP intake (`server.py`, `app.py`) | events, history, catalog rows; seen deliveries in memory | incident webhook, submit, GitHub webhook | every alert gets its one task, no delivery is handed on twice |
| Bundles, plugins, extensions (`bundles.py`, `adaptive.py`, `extensions.py`) | active marker, activation history, learned outcomes, installed wheels | build, activate, roll back; record, install, restore | a rollback goes back; shared files lose nothing; nothing half installed is used |
| Agent runtimes (`agent.py`) | thread of the task, session items, memory, CLI output, bridge | `run_session`, compaction, delegates, CLI process, bridge calls | a session has the newest items without a gap; no save of another is undone |
| Session files and imports (`file_session.py`, `storage.py`, `task_catalog.py`) | SQLite tables, older JSON files and databases | add, get, clear; take-over on start | every older file is taken over once and whole; nothing committed is set back |
| Dashboard process and routing (`dashboard/process.py`, `dashboard/routing.py`) | process file, journal, backup, include, public contract, the operator's proxy configuration | `start`, `stop`, `port open`, `port close`, recovery | no edit is lost, the proxy can be reloaded, nothing revoked becomes valid |
| Tools, execution, triage, config, connectors, observability, views, CLI, TUI, evals | logs, settings | I/O | not decided by shared state |

How they interact: webhooks and operators write the record through the catalog
and call `wake`; `wake` feeds the queue; the loop starts `run_one`, which takes
the lease and runs one stage; a stage awaits providers, git, the agent and tests,
while webhooks and `cancel` change the record *without* the lease; the run then
reloads the record or writes back what it had. Effects outside the process are
charged in the ledger. Everything but the record, the ledger, the worktrees and
lock files is lost when the process dies.

What is hard here: a record read before an await and saved after it, calls in
threads that survive cancellation, webhooks that arrive late, twice or out of
order, crashes between two writes that belong together, budgets counted in six
places, wakeups during runs, locks left by dead processes. `PROJECT.json` lists
each such hazard at its line, with the properties that cover it.

## 2. The modules

    Lifecycle <- TaskWorkflow          <- MCTaskWorkflow,   TaskWorkflow_proofs
    TaskScheduling <= WorkerQueue      <- MCWorkerQueue,    WorkerQueue_proofs
    OperationLedger                    <- MCOperationLedger, Storage_proofs
    TaskLease                          <- MCTaskLease,      Storage_proofs
    RepositoryLock                     <- MCRepositoryLock; <~ Storage_proofs
    Lifecycle <- ConflictRecovery      <- MCConflictRecovery, ConflictRecovery_proofs
    Lifecycle <- ApplicationWorkflow   <- MCApplicationWorkflow, ApplicationWorkflow_proofs
    Intake                             <- MCIntake,         Intake_proofs
    DashboardRoute                     <- MCDashboardRoute, DashboardRoute_proofs
    AgentSession                       <- Runtime
    Migration, Bundles, Deliveries, AgentTools  <~ Runtime
    Runtime                            <- MCRuntime,        Runtime_proofs

`<-` is EXTENDS, `<=` a refinement, `<~` INSTANCE. **Runtime** puts five small
protocols that share no variable side by side: the initial state chooses one of
them, and the others stand still, so that its states are those of each, added and
not multiplied. What is proved of Runtime rests on an invariant of each protocol
under its own steps, whatever the others do. `Storage_proofs` has the three
components on one database and directory whose proofs share nothing but the file.

**Lifecycle** is `lifecycle_graph.py`: states, edges, and the predicate that
`TaskCatalog.transition` applies.

**OperationLedger** has the three tables and the executions that use them. A
step is one SQLite transaction (`Begin`, `BeginReconcile`, `BeginRefused`,
`Finish`), the effect itself (`Perform`), or the death of an execution at any
point. `effects` is a ghost: what the outside world saw. Attempts run one after
another or overlap, because a lost lease can leave two executions.

**WorkerQueue** is the asyncio scheduler. A step goes from one suspension point
to the next, so the bodies of `wake` and of the `finally` clause of `run_one` are
part of the step that calls them. Tasks change class by runs, by events in this
process (which wake it) or by another process (which cannot). `TaskScheduling` is
what the loop promises: a request is granted, absorbed by a pending one, or
remembered while the task runs; WorkerQueue implements it under the mapping
`Phase`.

**TaskLease** has the row, the clock, runs that renew it and conflict recoveries
that do not, calls left in a thread after cancellation, and crashes.

**RepositoryLock** takes `Storage.lock` apart into system calls: exclusive create,
stat, read, kill(0), stat again, unlink, second create, write, close, stat,
unlink. Processes die anywhere; inode numbers are reused.

**TaskWorkflow** is one single-repository incident with an agent that keeps a
durable session. Its state is the durable record (the fields that decide
something), the checkout (`content`, `head`), the verification ledger (`passing`),
the branch on GitHub, and the run in progress with where it waits. A step goes
from one await to the next:

| Actions | Code |
|---|---|
| `StartTriage`, `StartAssessment`, `AssessmentArrives`, `CrashAfterAssessment`, `StartIntake` | RECEIVED and TRIAGING, `workflow.py:1276-1318` |
| `CheckoutMade`, `CheckoutSaved`, `RepositoryBusy`, `ContextCollected` | `_worktree`, `create_worktree`, the busy lock, context collection |
| `StartSession`, `BaseMerged`, `BaseConflicts`, `AgentEdits`, `SessionEnds` | `_process_agent_session`, `refresh_worktree` |
| `InvestigationMarked`, `ReproductionEnds`, `TestsRun`, `PlaywrightRun`, `TestEnds`, `OpenPr`, `Push`, `Publish`, `ToolRaises` | the lifecycle tools |
| `ReviewSkipped`, `ReviewPasses`, `ReviewFinds`, `ReviewFails` | `_review_fix` |
| `StartVerification`, `VerifierReports`, `VerificationEnds` | TESTING_DEPLOYMENT |
| `RunRaises`, `Crash` | the exception handler of the run, the death of the process |
| `Cancel`, `ReleaseTriage`, `CommentArrives`, `DeploymentArrives`, `Merged` | what happens without the lease |

**ConflictRecovery** takes one pull request through what happens when its base
moves. `base`, `gh` and `tree.head` are the base branch, the published head and
HEAD of the checkout, each commit with the base version it contains, and
`deliveries` is the set of heads for which GitHub may report "dirty", once or
often. The lease holder is `job`: a recovery on its way from one git command to
the next, a session of the agent, or a dead process whose lease still runs. A
recovery belongs to the webhook that called it or to the worker loop, `loop`, which
lists interrupted merges and polls GitHub between its jobs: an exception of a
recovery is an answer 500 to a webhook, and the end of the loop.

| Actions | Code |
|---|---|
| `GitHubReports`, `WebhookArrives` | a webhook that says "dirty" and its handling |
| `RecoverLists`, `LoopPolls`, `LoopHandles`, `LoopFails`, `Restart` | `recover`, `_resume_pending_conflict_merge`, `poll_pull_request_conflicts` in `run_worker`, the handler that ends it, an operator who starts the process again |
| `RecoveryStarts`, `RecoveryExhausted` | the checks before the first await, `workflow.py:1719-1790` |
| `LocalHead`, `Fetch`, `Intent`, `Merge`, `Final`, `RecoveryRaises` | the git commands and what follows each, `workflow.py:1808-1949` |
| `SessionStarts`, `Refresh`, `RefreshConflicts`, `SessionEnds` | a run that wakes the agent, `agent.py:1828`, `refresh_worktree` |
| `AgentActs`, `AgentReopens`, `Push`, `Confirm` | the agent in the checkout, `run_tests`, `open_pr` and `GitHub._publish` |
| `Verified`, `DeploymentArrives`, `Cancel`, `PullRequestMerged` | the rest of the task's life, as in TaskWorkflow |

`done` and `owed` are ghosts: the recoveries handed to the agent and the base
version the last of them fetched.

**ApplicationWorkflow** takes one incident with several repositories from the end
of its investigation to completion. `rec` is the record with a member state per
repository; `tree`, `ledger` and `remote` are each member's checkout, verification
ledger and branch; `integrated` is the revision set the integration command passed
on. `job` is the run in progress with the members its loop still has to do and
the copy of the record it holds; `hook` is an integration command that a merge
webhook started beside it.

| Actions | Code |
|---|---|
| `StartSession`, `AgentEdits`, `SessionEnds`, `SessionRaises` | `_process_application`, the session and the acknowledgement of comments |
| `RunTests`, `ReusePass`, `TestEnds` | `run_tests(repository)` |
| `OpenPr`, `ResumePublishing`, `NextMember`, `Push`, `PublishRaises`, `Checkpoint`, `AllMembersDone`, `PublishEnds` | `open_pr`, `publish`, and a publication that `process` takes up again |
| `ReviewStarts`, `ReviewCommits`, `ReviewSkipped`, `ReviewPasses`, `ReviewFinds`, `ReviewFails` | `_review_fix` on the view of a member |
| `StartDeployment`, `SkipMember`, `VerifyMember`, `Reported`, `DeploymentRaises`, `DeploymentEnds`, `ReviewIdle`, `IntegrationEnds` | deployments, status reports, `maybe_complete` |
| `DeploymentArrives`, `MergeArrives`, `HookEnds`, `CommentArrives`, `Cancel`, `Crash` | what happens without the lease |

**Intake** has the processes that take alerts, one transaction to a step: `Records`
(the event and its group), `Finds`, `Creates` (the scopes of `TaskCatalog.create`),
`KeepsHistory`, `Answers`; `Submits` enters at the second. Processes die between any
two; `Reconfigure` puts repositories into applications, into others or takes them out,
as all are restarted. `answered` is a ghost: what senders were told.

**DashboardRoute** has the commands `port open`, `port close`, `start`, `stop` write by
write. `command.pc` names the next write; the actions carry the names of the steps
of `routing.py` (`Recover*`, `Prepare` to `Activate`, `Rollback` to `CleanRevoke`, `Close` to
`Closed`) and of `process.py` (`Start` to `Leave`). A `Crash` ends a command anywhere, `Edit`
and `OperatorReload` come at any moment, `Login` is a public visitor. Ghosts: the
sessions given out, those a revocation has seen, the instance last probed, the
edits made and those saved between a hash check and the write after it.

**AgentSession** has the session of one task over many runs, with either runtime.
`items` holds the numbers of the items in the lead's and a delegate's session, a
negative one for a checkpoint of all before. The SDK's store calls (`AddItems`,
`Short`, `Summarise`, `Clear`, `PutBack`) are transactions between which a run is
interrupted; the CLI (`Announce`, `Call`, `Serve`, `Exit`, `Closed`, `Abandoned`, `Decoded`) is a
process that may outlive the one that started it.

**Migration** opens a runtime directory: the constructors of `FileSession`, `Storage`
and `TaskCatalog` statement by statement, several processes at once, over what
older versions left, with files that cannot be read until somebody repairs them.
**Bundles** has `build_bundle`, `activate_bundle` and `rollback_bundle` write by write, with
commands that overlap, die, or meet damaged bundles. **Deliveries** has the GitHub
webhook from the first byte to the answer and the window of remembered names.
**AgentTools** has the policy that runs learn together and the extensions they
install and restore.

In TaskWorkflow, `setting` is the configuration the process was started with; it
never changes. `checked`, `clean`, `asked` and `answered` are ghosts: what was really tested,
reviewed, requested and taken up, against which the durable state is judged.

### Assumptions

- Runs of a task exclude each other and the agent calls one tool at a time
  (`parallel_tool_calls` is off by default). The first is what TaskLease and
  WorkerQueue establish; TaskWorkflow takes it as given.
- One process handles webhooks and runs the worker. Between two awaits nothing
  else runs. Overwrites between two processes are not in TaskWorkflow.
- A cancellation of the worker mid-run is a crash for the task: both leave the
  record as it is. The thread that survives a cancellation is in TaskLease.
- With code review disabled, the wait between the check of `open_pr` and the
  reload is the refresh of the verification plan; it has the same step.
- One test command with whole-checkout inputs. What several commands and
  narrower inputs add belongs to the verification graph, whose closure, rings and
  coverage are pure functions of one call.
- Not in TaskWorkflow: the agents that run phase by phase without a session,
  application tasks (ApplicationWorkflow), conflict recovery (ConflictRecovery), the
  operation budget (OperationLedger).
- In ConflictRecovery the states from REPRODUCING to PUBLISHING_PR are one, since
  no step of a recovery tells them apart; what tests and reviews demand of a
  publication is TaskWorkflow's. The base named by GitHub is the configured one.
  Whether a merge commits, conflicts or is refused is a free choice. A git
  command still running when its process is killed is not modelled: git's own
  index lock is between it and the next. One process has the loop and takes the
  webhooks. When the loop has ended, the server goes on without it and says so at
  `/health`; `Restart` is an operator's. Members of an application task take the
  same steps on their part of the record and are not modelled.
- A conflicting base merge always changes files; a commit is identified with
  the version of the checkout it holds.
- RepositoryLock leaves out the reuse of process numbers, which could only make
  a stale file look held.
- ApplicationWorkflow starts where the investigation is done (what precedes is as
  in TaskWorkflow) and leaves out conflicts of members, agents that run phase by
  phase, and the report files. Runs exclude each other; webhooks do not. It leaves
  out the review that `run_tests` asks for before a Playwright command
  (`workflow.py:169-172`; a review is modelled where `publish` asks for it), and
  deployments of heads that are no longer the branch's, which `accepts` turns away.
  A commit is identified with the content it holds; `--allow-empty` can give
  unchanged content another commit.
- In Intake a request keeps the event loop from its first transaction to its
  answer (the handlers do not await in between), so a process has one in progress.
  Labels name a repository or a service. All processes run the same configuration: a
  new one is put in place when they are down. A repository that goes from one
  application *to another* has a task in each for the same alert, in the model as in
  the code: `find_by_incident` compares applications (`storage.py:571-575`), and
  `create` looks up the new scope and the one without an application
  (`task_catalog.py:327-330`). `OneTaskPerIncident` excepts this move and no other,
  following "deduplication still uses the … application scope"
  (`docs/application-scopes.md:61-62`).
- In DashboardRoute one lock serialises the commands (an flock, freed by death).
  File ownership, TLS files, port conflicts and root-only bindings only add
  refusals. An edit between a hash check and the write right after it cannot be
  seen by any program; `raced` excepts it, and nothing else. `Begin` has the check
  of the arguments that the code makes before it takes the lock
  (`dashboard/cli.py:173-180`), `Renew` the four reads and writes of
  `routing.py:990-1026`, which no other command comes between, in one step. Proxies
  have loaded a configuration when `reload` returns 0, although nginx goes on
  serving with old workers for a moment; the model does not see that overlap.
- In Bundles a rollback reads the history and the marker in one step, although an
  activation by another process may come between (`bundles.py:230-238, 272-278`); the
  overlap it then makes with that activation is modelled.
- In AgentTools the file of outcomes can always be read.
- In AgentSession a cancellation comes between two transactions; that the call which
  runs in a thread goes on, and may commit beside the next run, is left out. The items of a turn are one or two; what they say, prompts and
  the tools' own work are not modelled. A CLI resumes the thread it is told to
  resume, or makes one of its own.
- Migration treats observability like the messages, which it is imported with. The
  imports of the operation ledger and of memory are not modelled.
- In Deliveries a restart begins a new process, of whose handling the property
  speaks; names are kept in memory only.

## 3. What is checked

Every passing run explores its whole state space. `CHECK_DEADLOCK FALSE` is set
where the system may stop: bounded versions, every process dead, the clock at
its horizon. OperationLedger, WorkerQueue and Intake are checked for deadlock. The
types of all components are theorems (section 4); those of OperationLedger,
WorkerQueue, TaskLease, RepositoryLock, TaskWorkflow, ConflictRecovery and Intake are
not checked again here.

| Run | Question | Bounds |
|---|---|---|
| `ledger` | Is every effect charged once and within the caps, does the journal tell the same story as the rows, and does `finish` settle its caller's attempt while executions never overlapped? | 2 executions, 2 keys, 2 attempts per key, 3 overall: both caps bind, separately and together |
| `queue` | No double run, no drift of the dedup set, refinement of TaskScheduling; every task the worker can advance is eventually run, and a wakeup during a run is followed by another run | 2 tasks, 1 permit: a task is queued, deferred or waiting for the permit while the other runs |
| `lease` | Is the lease exclusive as long as heartbeats are in time, and does a takeover wait for the lifetime of a crashed run's lease even when they are not? | 3 runs, one of them a recovery, TTL 3, period 1, lateness 1 tolerated, horizon three TTLs; the clock never waits for a heartbeat |
| `workflow` | Published versions are checked and reviewed; the head asked for review is the one verified; budget; hold; nothing closed reopens | 3 settings (triage, review and GitHub; neither, on GitHub; neither, locally), 2 attempts, 3 versions, 1 comment: an edit between test and publication, a second version after a deployment, a stale deployment, an exhausted budget |
| `conflict` | Is the agent ever left with a merge nobody told it of, does what was merged reach the pull request, is every recovery charged, does it merge at the recorded head only, and is an interrupted one taken up again? | limit 2, base versions 1 to 3, 3 commits, 1 comment session, 2 crashes, git failures or failures of the loop: a second recovery after a first, a base that moves during a recovery or before its publication, a crash at each command and one more in the resumption, a loop that fails with a merge intent recorded |
| `lock` | Does a living process get the lock again and again, so that no file is left behind that nobody can take over? | 3 threads of 2 processes, 4 inodes: reuse of inodes happens |
| `application` | Does a task complete only with the evidence of the very revision that was published of every repository, does a resumed publication miss none, and does a Playwright result stay with its head? | 2 repositories, 1 comment, 2 attempts; both on GitHub with one repair each; one repaired twice, the other local, with integration; with a review: a stop between the two, a second head after a deployment, merges before, during and after the integration |
| `intake` | Is an alert one task of an application, and one of a repository that enters or leaves one, and does every alert that is repeated until answered get one, in the history and on its event? | 2 processes, 2 repositories, 2 applications, 3 configurations, an alert that names one repository and one that names a service of the other, both of one incident and group, one that only resolves, 2 deaths: every race between two requests for a task, a death after each transaction of one, and each change of configuration after it, the move from one application to another included |
| `dashboard` | Is every edit kept, the configuration loadable, a closed route gone, a revoked session dead, a restart private? | 2 edits, 2 dashboards, 5 commands, 1 crash: open, a crash or failure, another command that recovers, a restart and one more |
| `runtime` | AgentSession, Migration, Bundles, Deliveries, AgentTools: gapless sessions, kept records, sources taken over once, rollbacks that go back, deliveries handed on once, outcomes counted, extensions whole | threshold 3, 6 items, 2 runs and a death: a second compaction over a checkpoint, an orphan beside a new run; 2 processes, 3 starts, 6 situations; 3 versions, 4 commands, history of 3, 1 damage; 3 deliveries and a window of 2; 2 runs, 3 tools, 1 cut |

Larger bounds change the number of repetitions, not the kind of step: three
versions suffice for "published, newer, being edited", two attempts for "one
left" and "none left", two rivals for every race over one resource. What the
proofs cover needs no such argument.

**Fairness.** WorkerQueue assumes that the event loop runs every ready coroutine
and every elapsed timer, that a run ends (model turns, tools and commands carry
timeouts), and that systemd starts a dead process again; nothing is assumed of
events, `stop` or crashes. RepositoryLock assumes that live threads are
scheduled, that the section ends and that a refused task is tried again, which
the worker's poll does. ConflictRecovery assumes that a loop that has not failed
comes round to `recover` and to the poll, that git commands return or time out, that
sessions end (the same timeouts), and that leases expire; nothing of the agent, of
GitHub's base branch, or of operators. A recovery that raises inside `recover` or the
poll ends the loop (`workflow.py:2100-2104`), and nothing in a server restarts it
(systemd restarts a process that died): so `IntentIsTaken` promises a resumption by
every loop that does not fail, and `ActiveIsRun` likewise. Intake assumes that a process goes on with its request, that a
dead one is restarted, and that a sender repeats its alert (strong fairness of
`Receives`, since the processes may be busy with others). No liveness is claimed for
TaskWorkflow and ApplicationWorkflow: nothing bounds what an agent does inside a
session.

### Where documentation and code disagree

Each sentence below is contradicted by a behaviour of the code. Two of them are
runs that end in a violation; for the others the configuration is kept, and
`tlc -config <configuration> <module>` prints the trace, for instance
`tlc -config MCRepositoryLockRace.cfg MCRepositoryLock`.

| Run or configuration | Sentence | What happens |
|---|---|---|
| `workflow_restart` | "a process restart cannot drop an authorized request" (`README.md:757`) | comments leave the record before the session that answers them; a crash loses them |
| `application_review` | "Publish changed repositories, checkpointing after each successful target" (`application_workflow.py:366`) | the commit made for the review is stored as the published head of the member, so the repository is never pushed and the task waits for its deployment |
| `MCTaskLeaseThread.cfg` | "Cancellation stops owned jobs … and releases leases" (`README.md:772`) | the thread of `create_worktree` survives the cancellation and saves the record under the next holder's lease |
| `MCTaskWorkflowTerminal.cfg` | "Terminal tasks remain terminal" (`README.md:775`) | a task cancelled during its clone is reopened when the thread saves the record loaded before |
| `MCTaskWorkflowBranch.cfg` | "Recovery continues from the last persisted checkpoint" (`README.md:773`) | a crash between `git worktree add` and the save leaves a checkout without a recorded branch, which is never noticed |
| `MCConflictRecoveryStale.cfg` | "the durable worker polls tracked open PRs every five minutes" (`docs/pr-conflicts.md:8`), a webhook "older than the durably recorded PR head is ignored" (`:20`) | a report is also ignored when the checkout is not at the head it names; a comment session that refreshed the checkout and ended without publishing leaves it so, and a pull request in conflict waits for review for ever |
| `MCRepositoryLockRace.cfg` | "Concurrent incidents wait for a busy repository lock" (`README.md:644`) | the lock file is empty until the pid is written and the final unlink is not tied to the comparison before it: two live processes hold the lock |
| `MCApplicationWorkflowComments.cfg` | "Review comments are retained per repository … and survive worker restarts" (`docs/application-scopes.md:99`) | `_process_application` saves the record it loaded before it awaited the status report; a comment stored in between is gone |
| `MCDashboardRouteClose.cfg` | "Closing public access revokes public sessions … access stays revoked" (`README.md:193`) | when `port open` died after it enabled access and the operator edited the proxy, every `port close` stops at the recovery before it revokes |

Three more were read, not run: `_compact_if_needed` clears a session and puts the
newest items back in two transactions, so an interruption loses what
`README.md:653` says is retained (`GaplessTail` holds, with nothing left); `_review_fix`
of a member charges the member but compares the task's attempts, which it never
increases; a missing active bundle raises `RuntimeError`, which the reload in
`run_worker` does not catch (`PROJECT.json`, findings).

Weaknesses that contradict no sentence: a CLI that outlives its process finds the
next run's launcher at the same path and may leave its last message where that run
looks for its own; a deployment reported between a push and its checkpoint is not
of the recorded head yet and is dropped; the review's commit copies a member's
comments to the top of the record; an edit between the two reads of `port open`
leaves a prepared journal that only the operator can resolve; activations that
overlap share their temporary names; a delivery whose handling failed is taken for
a repetition when GitHub sends it again; an outcome file that cannot be read counts as
empty (`adaptive.py:58-64`), and the next `record` writes over what it had.

`ClosedStaysClosed` is the same promise as `MCTaskWorkflowTerminal.cfg` with the checkout
thread excepted: no other step of the workflow reopens a task or takes an attempt
back. `SettlesOwnAttempt` holds while executions never overlapped (the ghost
`overlap`); once two did, `finish` may settle the other's attempt, while
`EffectsCharged` still holds.

## 4. What is proved

TLAPS checks the following for every value of the constants, under the named
assumptions of the modules (positive limits; settings that are records of three
Booleans; `pid` maps lockers to processes; a session's limit is below its
threshold; an incident and a hint for every payload; every bound a number; a window
that holds a delivery at least; a situation of the runtime directory gives each file
a status, and only `runtime.sqlite3` may be of an earlier version). Names such as
"nobody" are not those of processes, runs or repositories. The theorems about
RepositoryLock carry its assumption as a hypothesis, since they speak of an instance.

- **OperationLedger** — `LedgerTypes`, `EveryEffectCharged`, and as a consequence
  `EffectsNeverExceedCap`. `EffectsCharged` says that every effect has a charge of its
  own (`ChargedOnce`) and no count is past its cap (`WithinCaps`). The invariant adds `UnspentCharges`: a charged intent
  is in the hands of at most one execution and not yet among the effects; without
  it a second execution could perform the same charge. `LedgerReconciles`,
  `LedgerJournalAgrees` and `LedgerSettlesOwn` are about the rows: intents in the journal
  are the charges, the last journalled row of a key tells what its current row
  tells, and `finish` settles its caller's attempt while executions never
  overlapped. The last is inductive only with `OneAtATime`.
- **WorkerQueue** — `QueueTypes`, `DedupSetIsQueue`, `NoConcurrentRuns`, for any
  number of tasks and permits. The queue has no repeats only because a running
  task is deferred, and the reverse, so the two properties are proved together;
  the invariant adds `SemaphoreLine`, that the jobs in the semaphore's line are
  those that wait, each once. `QueueImplementsScheduling` is the refinement: under
  `Phase`, the first state is one of TaskScheduling and every step of the event loop, of
  `stop` and of a crash is a step of it or a stutter. It uses the same invariant: that a
  wakeup is absorbed, and not lost, is that the dedup set is the queue.
- **TaskLease** — `LeaseTypes`, `LeaseExcludes` and `LeaseTakeoverWaits`. The invariant (`Granted`) says that
  while all runs are prompt a holder's row is its own and has not expired: its
  expiry is its last grant plus its lifetime, and the clock is within its
  patience. Promptness is not a constraint of the clock but recorded in `late`.
  `LeaseTakeoverWaits` needs no promptness: a run that has not let go has its row, or
  the lifetime of its last grant is over (`Guarded`), since an acquire by another run
  passes only over an expired row.
- **RepositoryLock** — `LockTypes` and `LockReclaimable`. `Reclaimable`
  is inductive on top of the types: the step that puts a pid into the file is
  taken by the locker that keeps it, and a locker gives the file up only by
  removing it, finding another in its place, or dying.
- **TaskWorkflow** — `WorkflowTypes`, `BudgetHolds`, `HoldHolds`,
  `OnlyCheckedPublished`, `ClosedStays` and `ReviewedStaysVerified`. `Core` adds that the record a run loaded belonged to a
  task that was open, within its budget and not held, since the checkout thread
  writes it back as a whole; that a held task has budget left for its release;
  and that an assessment only arrives on a task in triage or closed. On top of
  it, `Evidence` says that a recorded pass was a stable pass, that a recorded
  review found nothing, and that between the check of `open_pr` and the push the
  checkout stays the version that was tested and, past the review, reviewed. It is
  inductive because a run that waits for a review or a publication does not edit.
  `ClosedStays` is the action property `ClosedStaysClosed`: by `LaterRun` and
  `LaterOutside` every step only adds attempts and moves only an open task, by an edge
  of the lifecycle or a guard on closed states. `ReviewedStaysVerified` proves
  `ReviewedIsVerified` from `Standing`: from its publication on, a task names the
  head on GitHub, and from its deployment on, the version deployed (`Agrees`). That
  needs `Following`: a run publishes only a task that is not shown yet, concludes on
  one that is still in verification unless it was closed, and only a checkout made at
  intake writes back the record its run loaded.

- **ConflictRecovery** — `ConflictTypes`, `ConflictTold`, `RecoveredContained`,
  `RecoveriesAreCharged` and `OnlyRecordedHeadMerged`, for any limits and any number of
  base versions, commits, crashes and failures. The invariant has three parts.
  `Accounts`: recoveries done, plus the one under way, are within the recorded
  count, and a recovery carries the count it was charged with. `Forward`: the base
  version only grows from the record to the checkout to the merge in progress.
  `OnRecordedHead`: from its check on, a recovery finds the checkout at the
  recorded head, because both change only under the lease it holds.

- **Intake** — `IntakeTypes` and `IncidentHasOneTask`, for any processes, payloads,
  repositories, applications and configurations, and any changes between them.
  `OneTaskPerIncident` is not
  inductive: a request that found nothing may be overtaken before it creates. The
  invariant adds `Served` (no process serves across a change of the configuration),
  `Held` (what a request goes on with is a task) and `FoundNone` (a request outside of
  applications that is about to create its task found none by its repository, and no
  application can have made one since; inside one, `create` itself looks up both
  scopes).
- **AgentSession** — `SessionTypes`, `SessionIsGapless` and `RecordIsKept`, for any
  thresholds, any number of runs, items, deaths and orphans. `GaplessTail` is not
  inductive: what `PutBack` returns was cut off two transactions before, so the
  invariant adds `Returning` (what is kept for the session is as gapless as the
  session, which is empty once it was cleared) and `Covered` (memory counts items). `RecordIsKept` needs
  `ThreadInv`: a run that loaded a thread finds it in the record, and one that loaded
  none finds none or its own.
- **ApplicationWorkflow** — `ApplicationTypes`, `PassStaysWithHead`, `CompletionHasEvidence`
  and `WaitingIsPublished`, for any repositories, versions, comments, attempts and
  settings. What a task may complete with is decided at the end of a run, from a record
  that was loaded before reviews, pushes, reports and an integration command, while
  webhooks wrote to the stored one. So the invariant speaks of both: `Sound` holds of the
  record and of the copy the run has. It orders the commits of a member: the branch is
  not ahead of the checkout's head, the head not of its content, and a record names no
  head the checkout does not have, nor a deployment the branch did not get; a version
  that is recorded as verified passed its checks, and one with a Playwright result was
  deployed. `Linked` says what a run may count on where it waits: a push is of a checked
  version, a published prefix stays published until the publication ends, and a report
  goes back to the heads that are recorded now. `RevisionGood` and `Hooked` say it of the
  revisions an integration command started on, from a run or beside one. The action
  properties need the invariant before the step only.
- **DashboardRoute** — `DashboardTypes`, `RestartsArePrivate`, `RevocationIsFinal`,
  `EditsAreKept`, `ConfigStaysLoadable` and `ClosedStaysGone`, for any number of edits,
  instances, commands and deaths. The invariant has a part for each, which says at which
  write of a command what is established. `Private`: who is about to enable access has
  probed the newest instance, and one is spawned only behind a revocation.
  `Generations`: sessions given out are not of a later generation, revoked ones of an
  earlier. `Journalled` and `Saved`: the backup holds what the journal names, and what is
  about to be written over a configuration has its edits, except those in the window no
  program can see. `Loading`: the include is written before the route and removed after
  it, across undo, recovery and death. `Withdrawn`: the journal says closed only after the
  proxy let go of the route, and no longer when the next command starts to install.
- **Migration** — `EverySourceImportedOnce` and `CommittedRecordsStand`, for any number of
  processes, starts and deaths, over any mixture of absent, good and bad files.
  `MigrationInv` says of the committed database *and* of the draft that their markers
  account for their rows (`Accounted`) and that the catalog is empty until it is marked
  (`Catalogued`); of a process, what it read for an import it has not begun (`Placed`); and
  of an upgrade that is on its way, that the rows are in the table set aside (`TableKept`).
  A process that read an older catalog and was overtaken is harmless because the marker
  is asked for again inside the transaction.
- **Bundles** — `RollbackIsToTheLast`, for any operators, versions, damages and limit of
  the history. `SelectionInv` says that, until an activation is cut short or overlaps, the
  history is the end of what was active (`Kept`) at every write of every command, and the
  marker its last. `TargetIsLast` finds in such a history the place a rollback goes back
  to; that a last place exists is the only use of well-founded induction.
- **Deliveries** — `DeliveredOnce`, for a window of any length. The property is not
  inductive: a delivery that was handed on could be in neither the window nor among those
  forgotten. `HooksInv` adds that it is in one of them (the name is remembered in the step
  that hands it on) and the types of the window.
- **AgentTools** — `SharedToolsAreSound`, for any runs, tools and interruptions. `ToolsInv`
  adds that who saves holds the lock and writes the file with one end more, and that a
  directory that is about to get its manifest is whole.

`RuntimeTypes` and the theorems about the last four, and `RuntimeIsGapless`, are stated of
`RuntimeSpec`, the specification the run checks; `RuntimeSteps` projects its steps.

Only model-checked: the liveness properties (`ActiveIsRun`, `DeferredIsReplayed`,
`LockProgress`, `IntentIsTaken`, `AlertsOpenTasks`), since liveness under fairness and ENABLED
are beyond the prover. Every other property of a passing run is a theorem.

## 5. Not modelled

- **Verification graph**: dependency closure, rings and the coverage of several
  commands. Pure functions of one call, with unit tests; the workflows use one
  command with whole-checkout inputs.
- **Phase-by-phase agents** without a durable session (`workflow.py:1355-1466,
  1523-1550`): the same stages as TaskWorkflow with a saved record between them.
- **Two processes over one record**: whole-record saves of a `serve --no-worker`
  process against the worker's. TaskWorkflow and ApplicationWorkflow have one process;
  the hazards are listed.
- **Conflict recovery of application members**: the steps of ConflictRecovery on a
  member's fields.
- **Workspace registration**, artifacts, memory and search: files and rows no
  decision of another component depends on.
- **Permission decisions** (`tools.py`, `execution.py`), **triage assessment**: one call and
  its outcome, which is an input of TaskWorkflow.
- Rendering, metrics, parsing, network clients, prompts and model turns,
  installation, evaluation.

What would add most next: a second process over the records of TaskWorkflow, and a
lease that TaskWorkflow takes from TaskLease instead of assuming it. The suite stays
at a dozen runs, so that all of it is run after every change; small modules that share
nothing are checked side by side in MCRuntime.
