------------------------- MODULE TaskWorkflow_proofs -------------------------
(***************************************************************************)
(* Proofs about a single-repository incident, for any number of attempts,  *)
(* versions and comments and every setting of triage, review and           *)
(* publication: types, the retry budget, the triage hold, that only        *)
(* checked versions are published, that a closed task stays closed, and    *)
(* that a review is asked for of the version that was verified.            *)
(***************************************************************************)
EXTENDS TaskWorkflow, TLAPS

\* A record an open task may have: within its budget, and if it is held, in
\* triage and with budget left for its release.
Sound(r) ==
  /\ r \in Records
  /\ r.state \notin TerminalStates => r.attempts < MaxAttempts
  /\ r.triage = "operator_review" =>
       /\ r.attempts < MaxAttempts
       /\ r.state \in {"triaging"} \union TerminalStates

\* The record a run loaded belongs to a task that was open, within its budget
\* and not held: the checkout thread writes it back as a whole.
Loadable(r) ==
  /\ r \in Records
  /\ r.state \notin TerminalStates
  /\ r.attempts < MaxAttempts
  /\ r.triage # "operator_review"

\* A run that does not wait for an assessment.
Going ==
  /\ job \in Jobs \union {Idle}
  /\ job # Idle =>
       /\ Loadable(job.task)
       /\ job.at # "assess"
       /\ job.at = "review" => job.then # "none"

Rest ==
  /\ setting \in Settings
  /\ tree \in [exists : BOOLEAN, content : 1..Versions, head : 1..Versions]
  /\ passing \in Version /\ remote \in Version
  /\ checked \in SUBSET Version /\ clean \in SUBSET Version
  /\ pushed \in SUBSET Version
  /\ asked \in SUBSET Comment /\ answered \in SUBSET Comment

\* A hold is decided by the run that assesses, on a task in triage or closed
\* meanwhile; a review is always asked for by a tool or the verification.
Core ==
  /\ TypeOK
  /\ Sound(rec)
  /\ job # Idle =>
       /\ Loadable(job.task)
       /\ ~Hold
       /\ job.at = "assess" => rec.state = "triaging" \/ Over
       /\ job.at = "review" => job.then # "none"

USE WorkflowAssumption

LEMMA NoMergeInTriage == ~ValidTransition("triaging", "completed", FALSE)
  BY DEF ValidTransition, StopEdge, Transitions, MergeableStates

-----------------------------------------------------------------------------
(* What the updates of a record keep.                                      *)

LEMMA Fields ==
  ASSUME NEW r \in Records
  PROVE  /\ r.state \in TaskStates /\ r.attempts \in 0..MaxAttempts
         /\ r.triage \in {"none", "agent", "operator_review", "released"}
         /\ r.comments \in SUBSET Comment
         /\ r.pr_head_sha \in Version /\ r.deployment_sha \in Version
         /\ r.code_review_sha \in Version
  BY DEF Records

LEMMA Updates ==
  ASSUME NEW r \in Records
  PROVE  /\ \A s \in TaskStates : [r EXCEPT !.state = s] \in Records
         /\ \A s \in TaskStates, n \in 0..MaxAttempts :
              [r EXCEPT !.attempts = n, !.state = s] \in Records
         /\ \A s \in TaskStates, v \in Version :
              [r EXCEPT !.state = s, !.code_review_sha = v] \in Records
         /\ \A v \in Version : [r EXCEPT !.code_review_sha = v] \in Records
  BY DEF Records

\* A task in a work state other than triage is not held.
LEMMA MovedSound ==
  ASSUME NEW r, Sound(r), NEW s \in TaskStates,
         s \in TerminalStates \/ r.state \notin TerminalStates,
         r.triage = "operator_review" => s \in TerminalStates
  PROVE  LET q == [r EXCEPT !.state = s] IN
         Sound(q) /\ q.triage = r.triage /\ q.state = s
  BY Updates, Fields DEF Sound, Records

LEMMA ChargedSound ==
  ASSUME Sound(rec), ~Over, ~Hold, NEW back \in TaskStates
  PROVE  LET q == Charged(back, "blocked") IN
         Sound(q) /\ q.triage = rec.triage
  <1> DEFINE n == rec.attempts + 1
             s == IF n >= MaxAttempts THEN "blocked" ELSE back
             q == [rec EXCEPT !.attempts = n, !.state = s]
  <1>1. rec \in Records /\ rec.attempts \in 0..MaxAttempts /\ rec.attempts < MaxAttempts
    BY Fields DEF Sound, Over
  <1>2. n \in 0..MaxAttempts /\ s \in TaskStates
    BY <1>1 DEF TaskStates
  <1>3. q \in Records
    BY <1>1, <1>2, Updates
  <1>4. q.attempts = n /\ q.state = s /\ q.triage = rec.triage
    BY <1>1 DEF Records
  <1>5. s \notin TerminalStates => n < MaxAttempts
    BY <1>1 DEF TerminalStates
  <1>6. Sound(q)
    BY <1>3, <1>4, <1>5 DEF Sound, Hold
  <1> QED
    BY <1>4, <1>6 DEF Charged

LEMMA HandledSound ==
  ASSUME Sound(rec), ~Hold
  PROVE  Sound(Handled(rec)) /\ Handled(rec).triage = rec.triage
  <1>1. CASE rec.state \in TerminalStates
    BY <1>1 DEF Handled
  <1>2. CASE rec.state \notin TerminalStates
    <2> DEFINE n == rec.attempts + 1
               s == IF n >= MaxAttempts THEN "failed" ELSE rec.state
               q == [rec EXCEPT !.attempts = n, !.state = s]
    <2>1. rec \in Records /\ rec.attempts \in 0..MaxAttempts /\ rec.attempts < MaxAttempts
          /\ rec.state \in TaskStates
      BY <1>2, Fields DEF Sound
    <2>2. n \in 0..MaxAttempts /\ s \in TaskStates
      BY <2>1 DEF TaskStates
    <2>3. q \in Records
      BY <2>1, <2>2, Updates
    <2>4. q.attempts = n /\ q.state = s /\ q.triage = rec.triage
      BY <2>1 DEF Records
    <2>5. s \notin TerminalStates => n < MaxAttempts
      BY <2>1 DEF TerminalStates
    <2>6. Sound(q)
      BY <2>3, <2>4, <2>5 DEF Sound, Hold
    <2>7. Handled(rec) = q
      BY <1>2 DEF Handled
    <2> QED
      BY <2>4, <2>6, <2>7
  <1> QED
    BY <1>1, <1>2

-----------------------------------------------------------------------------
(* What the steps of a run keep.                                           *)

LEMMA Assemble ==
  ASSUME Sound(rec)', (job # Idle => ~Hold)', Going', Rest'
  PROVE  Core'
  BY DEF Core, TypeOK, Going, Rest, Sound

LEMMA Running ==
  ASSUME Core, job # Idle
  PROVE  /\ job \in Jobs /\ Loadable(job.task) /\ ~Hold
         /\ Sound(rec) /\ rec \in Records /\ Rest
         /\ rec.triage # "operator_review"
  BY DEF Core, TypeOK, Rest, Sound, Hold

LEMMA NewTree ==
  ASSUME Rest, NEW committed \in BOOLEAN, NewContent(committed)
  PROVE  tree' \in [exists : BOOLEAN, content : 1..Versions, head : 1..Versions]
  <1>1. /\ tree.content \in 1..Versions /\ tree.head \in 1..Versions
        /\ tree.content < Versions
    BY DEF Rest, NewContent
  <1>2. tree.content + 1 \in 1..Versions
    BY <1>1
  <1> QED
    BY <1>1, <1>2 DEF Rest, NewContent

LEMMA WaitGoing ==
  ASSUME Core, job # Idle, NEW at \in Waits \ {"assess", "review"}, Wait(at)
  PROVE  Going'
  <1>1. job \in Jobs /\ Loadable(job.task)
    BY Running
  <1>2. job' = [job EXCEPT !.at = at]
    BY DEF Wait
  <1>3. job' \in Jobs /\ job'.task = job.task /\ job'.at = at
    BY <1>1, <1>2 DEF Jobs
  <1> QED
    BY <1>1, <1>3 DEF Going, Loadable

LEMMA AwaitGoing ==
  ASSUME Core, job # Idle, NEW at \in Waits \ {"assess"},
         NEW then \in {"none", "test", "publish", "verify"}, NEW input \in Version,
         at = "review" => then # "none", Await(at, then, input)
  PROVE  Going'
  <1>1. job \in Jobs /\ Loadable(job.task)
    BY Running
  <1>2. job' = [job EXCEPT !.at = at, !.then = then, !.input = input]
    BY DEF Await
  <1>3. job' \in Jobs /\ job'.task = job.task /\ job'.at = at /\ job'.then = then
    BY <1>1, <1>2 DEF Jobs
  <1> QED
    BY <1>1, <1>3 DEF Going, Loadable

LEMMA BackGoing ==
  ASSUME Core, job # Idle, BackToAgent
  PROVE  Going'
  <1>1. "session" \in Waits \ {"assess"} /\ 0 \in Version
    BY DEF Waits, Version
  <1>2. Await("session", "none", 0)
    BY DEF BackToAgent
  <1> QED
    BY <1>1, <1>2, AwaitGoing

LEMMA EndsGoing ==
  ASSUME Core, job # Idle, RunEnds
  PROVE  Going' /\ job' = Idle /\ asked' \in SUBSET Comment /\ answered' \in SUBSET Comment
  <1>1. job.comments \in SUBSET Comment /\ Rest
    BY Running DEF Jobs
  <1> QED
    BY <1>1 DEF RunEnds, Going, Rest

LEMMA LoadedGoing ==
  ASSUME Core, NEW at \in Waits \ {"assess", "review"}, ~Over, ~Hold, Loaded(at)
  PROVE  Going'
  <1>1. Loadable(rec)
    BY DEF Core, Sound, Loadable, Over, Hold
  <1>2. /\ job' \in Jobs /\ job'.task = rec /\ job'.at = at
    BY <1>1, 0 \in Version DEF Loaded, Jobs, Loadable, Version
  <1> QED
    BY <1>1, <1>2 DEF Going

\* A run moves a task that is not held to any state, unless the task is over.
LEMMA RunMoves ==
  ASSUME Core, job # Idle, NEW s \in TaskStates, s \in TerminalStates \/ ~Over
  PROVE  Sound(Moved(s)) /\ Moved(s).triage = rec.triage
  <1>1. Sound(rec) /\ rec.triage # "operator_review"
    BY Running
  <1>2. s \in TerminalStates \/ rec.state \notin TerminalStates
    BY DEF Over
  <1> QED
    BY <1>1, <1>2, MovedSound DEF Moved

\* A test, a review or a session that fails costs an attempt.
LEMMA RunCharges ==
  ASSUME Core, job # Idle, ~Over, NEW back \in TaskStates
  PROVE  Sound(Charged(back, "blocked")) /\ Charged(back, "blocked").triage = rec.triage
  BY Running, ChargedSound

LEMMA RunHandles ==
  ASSUME Core, job # Idle
  PROVE  Sound(Handled(rec)) /\ Handled(rec).triage = rec.triage
  BY Running, HandledSound

\* A result written into the record of a task that is not held.
LEMMA Marked ==
  ASSUME NEW r, Sound(r), r.triage # "operator_review"
  PROVE  /\ \A v \in Version :
              LET q == [r EXCEPT !.code_review_sha = v] IN Sound(q) /\ q.triage = r.triage
         /\ \A v \in Version, p \in {"none", "passed", "failed"} :
              LET q == [r EXCEPT !.code_review_sha = v, !.playwright = p] IN
              Sound(q) /\ q.triage = r.triage
         /\ \A p \in {"none", "passed", "failed"} :
              LET q == [r EXCEPT !.playwright = p] IN Sound(q) /\ q.triage = r.triage
  BY DEF Sound, Records

\* Catalog.transition on the way out of a run, and the failure of one.
LEMMA RunTransitions ==
  ASSUME Core, job # Idle, NEW s \in TaskStates, TransitionOrRaise(s, rec)
  PROVE  Sound(rec)' /\ rec'.triage # "operator_review"
  <1>1. CASE Can(s)
    <2>1. s \in TerminalStates \/ ~Over
      <3>1. SUFFICES ASSUME Over, s \notin TerminalStates PROVE FALSE
        OBVIOUS
      <3>2. ~StopEdge(rec.state, s) /\ <<rec.state, s>> \notin Transitions
        BY <3>1 DEF StopEdge, TerminalStates, Transitions, MergeableStates, Over
      <3> QED
        BY <1>1, <3>2 DEF Can, ValidTransition
    <2>2. rec' = Moved(s)
      BY <1>1 DEF TransitionOrRaise, Moved
    <2> QED
      BY <2>1, <2>2, RunMoves, Running DEF Sound
  <1>2. CASE ~Can(s)
    <2>1. rec' = Handled(rec)
      BY <1>2 DEF TransitionOrRaise
    <2> QED
      BY <2>1, RunHandles, Running DEF Sound
  <1> QED
    BY <1>1, <1>2

\* An edge to a work state other than the end of triage starts in a work state.
LEMMA OpenBefore ==
  ASSUME NEW from, NEW to \in TaskStates \ TerminalStates, ValidTransition(from, to, FALSE)
  PROVE  from \notin TerminalStates
  <1>1. ~StopEdge(from, to)
    BY DEF StopEdge, TerminalStates
  <1>2. \A s \in TerminalStates : <<s, to>> \notin Transitions
    BY DEF Transitions, MergeableStates, TerminalStates
  <1> QED
    BY <1>1, <1>2 DEF ValidTransition

\* What a run that goes on, or ends, has to show for the rest of the state.
RunKeeps == Sound(rec)' /\ rec'.triage # "operator_review" /\ Going' /\ Rest'

LEMMA RunKeepsCore ==
  ASSUME RunKeeps PROVE Core'
  BY Assemble DEF RunKeeps, Hold

LEMMA PublicationKeeps ==
  ASSUME Core, job # Idle, tree.exists, NEW r, Sound(r), r.triage # "operator_review",
         PublicationStarts(r)
  PROVE  /\ Sound(rec)' /\ rec'.triage # "operator_review" /\ Going'
         /\ tree' \in [exists : BOOLEAN, content : 1..Versions, head : 1..Versions]
  <1>1. /\ Rest /\ job.input \in Version /\ r \in Records
        /\ tree.content \in Version
    BY Running DEF Jobs, Sound, Rest, Version
  <1>2. "publish" \in Waits /\ "none" \in {"none", "test", "publish", "verify"}
    BY DEF Waits
  <1>3. CASE r.pr
    <2>1. rec' = r /\ Await("publish", "none", job.input) /\ UNCHANGED tree
      BY <1>3 DEF PublicationStarts
    <2> QED
      BY <1>1, <1>2, <2>1, AwaitGoing DEF Rest
  <1>4. CASE ~r.pr /\ ~ValidTransition(r.state, "publishing_pr", FALSE)
    <2>1. rec' = r /\ BackToAgent /\ UNCHANGED tree
      BY <1>4 DEF PublicationStarts
    <2> QED
      BY <1>1, <2>1, BackGoing DEF Rest
  <1>5. CASE ~r.pr /\ ValidTransition(r.state, "publishing_pr", FALSE) /\ Local
    <2>1. /\ rec' = [r EXCEPT !.state = "completed", !.pr_head_sha = tree.content]
          /\ tree' = [tree EXCEPT !.head = tree.content]
          /\ BackToAgent
      BY <1>5 DEF PublicationStarts
    <2>2. Sound(rec)' /\ rec'.triage # "operator_review"
      BY <1>1, <2>1 DEF Sound, Records, TaskStates, TerminalStates
    <2> QED
      BY <1>1, <2>1, <2>2, BackGoing DEF Rest
  <1>6. CASE ~r.pr /\ ValidTransition(r.state, "publishing_pr", FALSE) /\ ~Local
    <2>1. /\ rec' = [r EXCEPT !.state = "publishing_pr"]
          /\ Await("publish", "none", job.input)
          /\ UNCHANGED tree
      BY <1>6 DEF PublicationStarts
    <2>2. "publishing_pr" \in TaskStates \ TerminalStates
      BY DEF TaskStates, TerminalStates
    <2>3. r.state \notin TerminalStates
      BY <1>6, <2>2, OpenBefore
    <2>4. Sound(rec)' /\ rec'.triage # "operator_review"
      BY <2>1, <2>2, <2>3, MovedSound
    <2> QED
      BY <1>1, <1>2, <2>1, <2>4, AwaitGoing DEF Rest
  <1> QED
    BY <1>3, <1>4, <1>5, <1>6

LEMMA ProceedKeeps ==
  ASSUME Core, job # Idle, job.at = "review", tree.exists,
         NEW r, Sound(r), r.triage # "operator_review", Proceed(r)
  PROVE  /\ Sound(rec)' /\ rec'.triage # "operator_review" /\ Going'
         /\ tree' \in [exists : BOOLEAN, content : 1..Versions, head : 1..Versions]
         /\ UNCHANGED reviews
  <1>1. job.then \in {"test", "publish", "verify"}
    BY Running DEF Core, Jobs
  <1>2. Rest /\ tree.content \in Version /\ r \in Records /\ 0 \in Version
    BY Running DEF Sound, Rest, Version
  <1>3. {"test", "verify"} \subseteq Waits /\ "none" \in {"none", "test", "publish", "verify"}
    BY DEF Waits
  <1>4. CASE job.then = "test"
    <2>1. CASE ValidTransition(r.state, "implementing", FALSE) \/ r.state = "implementing"
      <3>1. /\ rec' = [r EXCEPT !.state = "implementing"]
            /\ Await("test", "none", tree.content)
            /\ UNCHANGED <<tree, reviews>>
        BY <1>4, <2>1 DEF Proceed
      <3>2. "implementing" \in TaskStates \ TerminalStates
        BY DEF TaskStates, TerminalStates
      <3>3. r.state \notin TerminalStates
        BY <2>1, <3>2, OpenBefore
      <3>4. Sound(rec)' /\ rec'.triage # "operator_review"
        BY <3>1, <3>2, <3>3, MovedSound
      <3> QED
        BY <1>2, <1>3, <3>1, <3>4, AwaitGoing DEF Rest
    <2>2. CASE ~(ValidTransition(r.state, "implementing", FALSE) \/ r.state = "implementing")
      <3>1. rec' = r /\ BackToAgent /\ UNCHANGED <<tree, reviews>>
        BY <1>4, <2>2 DEF Proceed
      <3> QED
        BY <1>2, <3>1, BackGoing DEF Rest
    <2> QED
      BY <2>1, <2>2
  <1>5. CASE job.then = "publish"
    <2>1. PublicationStarts(r) /\ UNCHANGED reviews
      BY <1>5 DEF Proceed
    <2> QED
      BY <2>1, PublicationKeeps
  <1>6. CASE job.then = "verify"
    <2>1. rec' = r /\ Await("verify", "none", 0) /\ UNCHANGED <<tree, reviews>>
      BY <1>6 DEF Proceed
    <2> QED
      BY <1>2, <1>3, <2>1, AwaitGoing DEF Rest
  <1> QED
    BY <1>1, <1>4, <1>5, <1>6

LEMMA HandBackKeeps ==
  ASSUME Core, job # Idle, HandBack
  PROVE  Going' /\ asked' \in SUBSET Comment /\ answered' \in SUBSET Comment
  <1>1. Rest
    BY Running
  <1> QED
    BY <1>1, EndsGoing, BackGoing DEF HandBack, reviews, Rest

-----------------------------------------------------------------------------
(* The inductive step, one step per action.                                *)

LEMMA CoreInit == Init => Core
  BY DEF Init, Core, TypeOK, Sound, Received, Records, TaskStates, TerminalStates,
         Version, Idle

\* Steps of a run that is in progress.
LEMMA RunStep ==
  ASSUME Core, job # Idle, UNCHANGED setting,
         \/ CrashAfterAssessment \/ AssessmentArrives
         \/ CheckoutMade \/ RepositoryBusy \/ CheckoutSaved \/ ContextCollected
         \/ BaseMerged \/ BaseConflicts \/ AgentEdits
         \/ \E blocked \in BOOLEAN : SessionEnds(blocked)
         \/ InvestigationMarked \/ ReproductionEnds \/ ToolRaises
         \/ TestsRun \/ PlaywrightRun
         \/ \E passed, stable \in BOOLEAN : TestEnds(passed, stable)
         \/ OpenPr \/ Push \/ Publish
         \/ ReviewSkipped \/ ReviewPasses \/ ReviewFinds \/ ReviewFails
         \/ \E ok \in BOOLEAN : VerifierReports(ok)
         \/ VerificationEnds \/ RunRaises \/ Crash
  PROVE  Core'
  <1> USE DEF evidence, published, reviews
  <1>r. /\ job \in Jobs /\ Loadable(job.task) /\ Sound(rec) /\ rec \in Records /\ Rest
        /\ rec.triage # "operator_review" /\ ~Hold
    BY Running
  <1>t. /\ tree.content \in Version /\ tree.head \in Version /\ job.input \in Version
        /\ 0 \in Version /\ tree.content \in 1..Versions
    BY <1>r DEF Rest, Jobs, Version
  <1>w. /\ InTool \subseteq Waits \ {"assess"}
        /\ {"cloned", "context", "clone", "session", "verify", "report"} \subseteq
             Waits \ {"assess", "review"}
        /\ {"reproduce", "test", "publish", "pushed"} \subseteq Waits \ {"assess", "review"}
    BY DEF InTool, Waits
  <1>s. /\ {"received", "triaging", "collecting_context", "investigating", "reproducing",
            "implementing", "testing_local", "publishing_pr", "waiting_for_deployment",
            "testing_deployment", "waiting_for_review"} = TaskStates \ TerminalStates
        /\ {"completed", "blocked", "failed", "cancelled"} = TerminalStates
        /\ TerminalStates \subseteq TaskStates
    BY DEF TaskStates, TerminalStates
  <1>h. Sound(Handled(rec)) /\ Handled(rec).triage = rec.triage
    BY RunHandles
  <1>1. CASE CrashAfterAssessment
    <2>1. Going' /\ job' = Idle /\ asked' \in SUBSET Comment /\ answered' \in SUBSET Comment
      BY <1>1, EndsGoing DEF CrashAfterAssessment
    <2>2. rec.state = "triaging" /\ rec.attempts < MaxAttempts
      BY <1>1, <1>r DEF CrashAfterAssessment, Core, Sound, Over
    <2>3. rec' = [rec EXCEPT !.triage = "operator_review"]
      BY <1>1 DEF CrashAfterAssessment
    <2>4. Sound(rec)'
      BY <1>r, <2>2, <2>3 DEF Sound, Records
    <2>5. Rest'
      BY <1>1, <1>r, <2>1 DEF CrashAfterAssessment, Rest
    <2> QED
      BY <2>1, <2>4, <2>5, Assemble
  <1>2. CASE AssessmentArrives
    <2>1. CASE RunEnds /\ rec' = [rec EXCEPT !.triage = "operator_review", !.state = "blocked"]
                       /\ ~Over
      <3>1. Going' /\ job' = Idle /\ asked' \in SUBSET Comment /\ answered' \in SUBSET Comment
        BY <2>1, EndsGoing
      <3>2. rec.attempts < MaxAttempts
        BY <2>1, <1>r DEF Sound, Over
      <3>3. Sound(rec)'
        BY <1>r, <1>s, <2>1, <3>2 DEF Sound, Records
      <3>4. Rest'
        BY <1>2, <1>r, <3>1 DEF AssessmentArrives, Rest
      <3> QED
        BY <3>1, <3>3, <3>4, Assemble
    <2>2. CASE RunEnds /\ UNCHANGED rec
      <3>1. Going' /\ job' = Idle /\ asked' \in SUBSET Comment /\ answered' \in SUBSET Comment
        BY <2>2, EndsGoing
      <3>2. Sound(rec)'
        BY <1>r, <2>2
      <3>3. Rest'
        BY <1>2, <1>r, <3>1 DEF AssessmentArrives, Rest
      <3> QED
        BY <3>1, <3>2, <3>3, Assemble
    <2>3. CASE ~Over /\ rec' = [rec EXCEPT !.triage = "agent"]
               /\ \E at \in {"context", "clone"} : job' = [job EXCEPT !.at = at, !.task = rec']
               /\ UNCHANGED reviews
      <3>1. rec.attempts < MaxAttempts /\ rec.state \notin TerminalStates
        BY <2>3, <1>r DEF Sound, Over
      <3>2. Sound(rec)' /\ rec' \in Records /\ Loadable(rec') /\ rec'.triage = "agent"
        BY <1>r, <2>3, <3>1 DEF Sound, Records, Loadable
      <3>3. PICK at \in {"context", "clone"} : job' = [job EXCEPT !.at = at, !.task = rec']
        BY <2>3
      <3>4. job' \in Jobs /\ job'.at = at /\ job'.task = rec'
        BY <1>r, <1>w, <3>2, <3>3 DEF Jobs
      <3>5. Going'
        BY <3>2, <3>4 DEF Going
      <3>6. Rest'
        BY <1>2, <1>r, <2>3 DEF AssessmentArrives, Rest
      <3> QED
        BY <3>2, <3>5, <3>6, RunKeepsCore DEF RunKeeps
    <2> QED
      BY <1>2, <2>1, <2>2, <2>3 DEF AssessmentArrives
  <1>3. CASE CheckoutMade
    <2>1. Going'
      BY <1>3, <1>w, WaitGoing DEF CheckoutMade
    <2>2. RunKeeps
      BY <1>3, <1>r, <2>1 DEF CheckoutMade, Rest, RunKeeps
    <2> QED
      BY <2>2, RunKeepsCore
  <1>4. CASE RepositoryBusy
    <2>1. Going' /\ asked' \in SUBSET Comment /\ answered' \in SUBSET Comment
      BY <1>4, EndsGoing DEF RepositoryBusy
    <2>2. RunKeeps
      BY <1>4, <1>r, <2>1 DEF RepositoryBusy, Rest, RunKeeps
    <2> QED
      BY <2>2, RunKeepsCore
  <1>5. CASE CheckoutSaved
    <2>1. Going'
      BY <1>5, <1>w, WaitGoing DEF CheckoutSaved
    <2>2. Sound(rec)' /\ rec'.triage # "operator_review"
      BY <1>5, <1>r DEF CheckoutSaved, Loadable, Sound, Records
    <2>3. Rest'
      BY <1>5, <1>r DEF CheckoutSaved, Rest
    <2> QED
      BY <2>1, <2>2, <2>3, RunKeepsCore DEF RunKeeps
  <1>6. CASE ContextCollected
    <2>1. Going' /\ asked' \in SUBSET Comment /\ answered' \in SUBSET Comment
      BY <1>6, EndsGoing DEF ContextCollected
    <2>2. Sound(rec)' /\ rec'.triage # "operator_review"
      BY <1>6, <1>s, RunTransitions DEF ContextCollected
    <2>3. Rest'
      BY <1>6, <1>r, <2>1 DEF ContextCollected, Rest
    <2> QED
      BY <2>1, <2>2, <2>3, RunKeepsCore DEF RunKeeps
  <1>7. CASE BaseMerged
    <2>1. Going'
      BY <1>7, <1>w, WaitGoing DEF BaseMerged
    <2>2. Rest'
      <3>1. CASE NewContent(tree.head = tree.content)
        BY <1>7, <1>r, <3>1, NewTree DEF BaseMerged, Rest
      <3>2. CASE UNCHANGED tree
        BY <1>7, <1>r, <3>2 DEF BaseMerged, Rest
      <3> QED
        BY <1>7, <3>1, <3>2 DEF BaseMerged
    <2> QED
      BY <1>7, <1>r, <2>1, <2>2, RunKeepsCore DEF RunKeeps, BaseMerged
  <1>8. CASE BaseConflicts
    <2>1. Going' /\ asked' \in SUBSET Comment /\ answered' \in SUBSET Comment
      BY <1>8, EndsGoing DEF BaseConflicts
    <2>2. Rest'
      BY <1>8, <1>r, <2>1, NewTree DEF BaseConflicts, Rest
    <2> QED
      BY <1>8, <1>r, <1>h, <2>1, <2>2, RunKeepsCore DEF RunKeeps, BaseConflicts
  <1>9. CASE AgentEdits
    <2>1. Going'
      BY <1>9, <1>r DEF AgentEdits, Going
    <2>2. Rest'
      BY <1>9, <1>r, NewTree DEF AgentEdits, Rest
    <2> QED
      BY <1>9, <1>r, <2>1, <2>2, RunKeepsCore DEF RunKeeps, AgentEdits
  <1>10. ASSUME NEW blocked \in BOOLEAN, SessionEnds(blocked) PROVE Core'
    <2>1. Going' /\ asked' \in SUBSET Comment /\ answered' \in SUBSET Comment
      BY <1>10, EndsGoing DEF SessionEnds
    <2>2. CASE blocked /\ ~Over
      <3>1. rec' = Moved("blocked")
        BY <1>10, <2>2 DEF SessionEnds
      <3> QED
        BY <1>10, <1>r, <1>s, <2>1, <2>2, <3>1, RunMoves, RunKeepsCore
           DEF SessionEnds, RunKeeps, Rest
    <2>3. CASE ~(blocked /\ ~Over) /\ rec.state = job.task.state /\ rec.state \in ActiveStates
      <3>1. rec' = Charged(rec.state, "blocked")
        BY <1>10, <2>3 DEF SessionEnds
      <3>2. ~Over /\ rec.state \in TaskStates
        BY <2>3, <1>r, Fields DEF Loadable, Over
      <3>3. Sound(rec)' /\ rec'.triage # "operator_review"
        BY <1>r, <3>1, <3>2, RunCharges
      <3> QED
        BY <1>10, <1>r, <2>1, <3>3, RunKeepsCore DEF SessionEnds, RunKeeps, Rest
    <2>4. CASE ~(blocked /\ ~Over) /\ ~(rec.state = job.task.state /\ rec.state \in ActiveStates)
      <3>1. rec' = rec
        BY <1>10, <2>4 DEF SessionEnds
      <3> QED
        BY <1>10, <1>r, <2>1, <3>1, RunKeepsCore DEF SessionEnds, RunKeeps, Rest
    <2> QED
      BY <2>2, <2>3, <2>4
  <1>11. CASE InvestigationMarked
    <2>1. Going'
      BY <1>11, <1>w, WaitGoing DEF InvestigationMarked
    <2>2. ~Over
      BY <1>11, <1>s DEF InvestigationMarked, Over
    <2>3. Sound(Moved("investigating")) /\ Moved("investigating").triage = rec.triage
      BY <2>2, <1>s, RunMoves
    <2> QED
      BY <1>11, <1>r, <2>1, <2>3, RunKeepsCore DEF InvestigationMarked, RunKeeps, Rest
  <1>12. CASE ReproductionEnds
    <2>1. Going'
      BY <1>12, BackGoing DEF ReproductionEnds
    <2>2. CASE Can("reproducing")
      <3>1. ~Over
        BY <1>s, <2>2, OpenBefore DEF Can, Over
      <3>2. Sound(Moved("reproducing")) /\ Moved("reproducing").triage = rec.triage
        BY <3>1, <1>s, RunMoves
      <3> QED
        BY <1>12, <1>r, <2>1, <2>2, <3>2, RunKeepsCore DEF ReproductionEnds, RunKeeps, Rest
    <2>3. CASE ~Can("reproducing")
      BY <1>12, <1>r, <2>1, <2>3, RunKeepsCore DEF ReproductionEnds, RunKeeps, Rest
    <2> QED
      BY <2>2, <2>3
  <1>13. CASE ToolRaises
    <2>1. Going'
      BY <1>13, BackGoing DEF ToolRaises
    <2> QED
      BY <1>13, <1>r, <2>1, RunKeepsCore DEF ToolRaises, RunKeeps, Rest
  <1>14. CASE TestsRun
    <2>1. ~Over
      BY <1>14, <1>s DEF TestsRun, Testable, Over
    <2>2. \A s \in {"implementing", "testing_local"} :
            Sound(Moved(s)) /\ Moved(s).triage = rec.triage
      BY <2>1, <1>s, RunMoves
    <2>3. CASE CommandStarts
      <3>1. rec' = Moved("implementing") /\ Await("test", "none", tree.content)
        BY <2>3 DEF CommandStarts
      <3>2. Going'
        BY <1>t, <1>w, <3>1, AwaitGoing
      <3> QED
        BY <1>14, <1>r, <2>2, <3>1, <3>2, RunKeepsCore DEF TestsRun, RunKeeps, Rest
    <2>4. CASE (rec' = Moved("testing_local") \/ rec' = Moved("implementing")) /\ UNCHANGED job
      <3>1. job.at = "session" /\ Going'
        BY <1>14, <1>r, <2>4 DEF TestsRun, Going
      <3> QED
        BY <1>14, <1>r, <2>2, <2>4, <3>1, RunKeepsCore DEF TestsRun, RunKeeps, Rest
    <2> QED
      BY <1>14, <2>3, <2>4 DEF TestsRun
  <1>15. CASE PlaywrightRun
    <2>1. Going'
      <3>1. Await("review", "test", tree.content)
        BY <1>15 DEF PlaywrightRun
      <3> QED
        BY <1>t, <1>w, <3>1, AwaitGoing DEF InTool
    <2> QED
      BY <1>15, <1>r, <2>1, RunKeepsCore DEF PlaywrightRun, RunKeeps, Rest
  <1>16. ASSUME NEW passed \in BOOLEAN, NEW stable \in BOOLEAN, TestEnds(passed, stable)
         PROVE  Core'
    <2>1. Going'
      BY <1>16, BackGoing DEF TestEnds
    <2>2. Rest'
      <3>1. tree' \in [exists : BOOLEAN, content : 1..Versions, head : 1..Versions]
        BY <1>16, <1>r, NewTree DEF TestEnds, Rest
      <3> QED
        BY <1>16, <1>r, <1>t, <3>1 DEF TestEnds, Rest
    <2>3. CASE Over
      BY <1>16, <1>r, <2>1, <2>2, <2>3, RunKeepsCore DEF TestEnds, RunKeeps
    <2>4. CASE ~Over /\ passed
      <3>1. Sound(Moved("testing_local")) /\ Moved("testing_local").triage = rec.triage
        BY <2>4, <1>s, RunMoves
      <3> QED
        BY <1>16, <1>r, <2>1, <2>2, <2>4, <3>1, RunKeepsCore DEF TestEnds, RunKeeps
    <2>5. CASE ~Over /\ ~passed
      <3>1. /\ Sound(Charged("reproducing", "blocked"))
            /\ Charged("reproducing", "blocked").triage = rec.triage
        BY <2>5, <1>s, RunCharges
      <3> QED
        BY <1>16, <1>r, <2>1, <2>2, <2>5, <3>1, RunKeepsCore DEF TestEnds, RunKeeps
    <2> QED
      BY <2>3, <2>4, <2>5
  <1>17. CASE OpenPr
    <2>1. Going'
      <3>1. Await("review", "publish", tree.content)
        BY <1>17 DEF OpenPr
      <3> QED
        BY <1>t, <1>w, <3>1, AwaitGoing DEF InTool
    <2> QED
      BY <1>17, <1>r, <2>1, RunKeepsCore DEF OpenPr, RunKeeps, Rest
  <1>18. CASE Push
    <2>1. Going'
      <3>1. Await("pushed", "none", tree.content)
        BY <1>18 DEF Push
      <3> QED
        BY <1>t, <1>w, <3>1, AwaitGoing
    <2> QED
      BY <1>18, <1>r, <1>t, <2>1, RunKeepsCore DEF Push, RunKeeps, Rest
  <1>19. CASE Publish
    <2>1. Going'
      BY <1>19, BackGoing DEF Publish
    <2>2. CASE Can("waiting_for_deployment")
      <3>1. ~Over
        BY <1>s, <2>2, OpenBefore DEF Can, Over
      <3>2. Sound(Moved("waiting_for_deployment"))
            /\ Moved("waiting_for_deployment").triage = rec.triage
        BY <3>1, <1>s, RunMoves
      <3>3. rec' = [Moved("waiting_for_deployment") EXCEPT !.pr = TRUE,
                      !.pr_head_sha = ConfirmedHead]
        BY <1>19, <2>2, <1>r DEF Publish, Moved, Records
      <3>4. Sound(rec)' /\ rec'.triage # "operator_review"
        BY <1>r, <1>t, <3>2, <3>3 DEF Sound, Records, ConfirmedHead
      <3> QED
        BY <1>19, <1>r, <2>1, <3>4, RunKeepsCore DEF Publish, RunKeeps, Rest
    <2>3. CASE ~Can("waiting_for_deployment")
      BY <1>19, <1>r, <2>1, <2>3, RunKeepsCore DEF Publish, RunKeeps, Rest
    <2> QED
      BY <2>2, <2>3
  <1>20. CASE ReviewSkipped
    <2>1. Proceed(rec) /\ job.at = "review" /\ tree.exists
      BY <1>20 DEF ReviewSkipped
    <2>2. /\ Sound(rec)' /\ rec'.triage # "operator_review" /\ Going'
          /\ tree' \in [exists : BOOLEAN, content : 1..Versions, head : 1..Versions]
          /\ UNCHANGED reviews
      BY <1>r, <2>1, ProceedKeeps
    <2> QED
      BY <1>20, <1>r, <2>2, RunKeepsCore DEF ReviewSkipped, RunKeeps, Rest
  <1>21. CASE ReviewPasses
    <2> DEFINE r == [rec EXCEPT !.code_review_sha = tree.head]
    <2>1. Proceed(r) /\ job.at = "review" /\ tree.exists
      BY <1>21 DEF ReviewPasses
    <2>2. Sound(r) /\ r.triage # "operator_review"
      BY <1>r, <1>t, Marked
    <2> HIDE DEF r
    <2>3. /\ Sound(rec)' /\ rec'.triage # "operator_review" /\ Going'
          /\ tree' \in [exists : BOOLEAN, content : 1..Versions, head : 1..Versions]
          /\ UNCHANGED reviews
      BY <2>1, <2>2, ProceedKeeps
    <2> QED
      BY <1>21, <1>r, <1>t, <2>3, RunKeepsCore DEF ReviewPasses, RunKeeps, Rest
  <1>22. CASE ReviewFinds
    <2>1. Going' /\ asked' \in SUBSET Comment /\ answered' \in SUBSET Comment
      BY <1>22, HandBackKeeps DEF ReviewFinds
    <2>2. Rest'
      BY <1>22, <1>r, <2>1 DEF ReviewFinds, Rest
    <2>3. CASE Over
      BY <1>22, <1>r, <2>1, <2>2, <2>3, RunKeepsCore DEF ReviewFinds, RunKeeps
    <2>4. CASE ~Over
      <3> DEFINE q == Charged("reproducing", "blocked")
      <3>1. Sound(q) /\ q.triage # "operator_review"
        BY <1>r, <2>4, <1>s, RunCharges
      <3>2. rec' = [q EXCEPT !.code_review_sha = 0, !.playwright = "none"]
        BY <1>22, <2>4 DEF ReviewFinds
      <3> HIDE DEF q
      <3>3. Sound(rec)' /\ rec'.triage # "operator_review"
        BY <1>t, <3>1, <3>2, Marked
      <3> QED
        BY <2>1, <2>2, <3>3, RunKeepsCore DEF RunKeeps
    <2> QED
      BY <2>3, <2>4
  <1>23. CASE ReviewFails
    <2>1. Going' /\ asked' \in SUBSET Comment /\ answered' \in SUBSET Comment
      BY <1>23, HandBackKeeps DEF ReviewFails
    <2>2. Rest'
      BY <1>23, <1>r, <2>1 DEF ReviewFails, Rest
    <2>3. CASE Over
      BY <1>23, <1>r, <2>1, <2>2, <2>3, RunKeepsCore DEF ReviewFails, RunKeeps
    <2>4. CASE ~Over
      <3>1. Sound(Moved("blocked")) /\ Moved("blocked").triage # "operator_review"
        BY <1>r, <2>4, <1>s, RunMoves
      <3>2. rec' = [Moved("blocked") EXCEPT !.code_review_sha = 0]
        BY <1>23, <2>4, <1>r DEF ReviewFails, Moved, Records
      <3>3. Sound(rec)' /\ rec'.triage # "operator_review"
        BY <1>t, <3>1, <3>2, Marked
      <3> QED
        BY <2>1, <2>2, <3>3, RunKeepsCore DEF RunKeeps
    <2> QED
      BY <2>3, <2>4
  <1>24. ASSUME NEW ok \in BOOLEAN, VerifierReports(ok) PROVE Core'
    <2>1. job' = [job EXCEPT !.at = "report", !.ok = ok]
      BY <1>24 DEF VerifierReports
    <2>2. job' \in Jobs /\ job'.task = job.task /\ job'.at = "report"
      BY <1>r, <1>w, <2>1 DEF Jobs
    <2>3. Going'
      BY <1>r, <2>2 DEF Going
    <2> QED
      BY <1>24, <1>r, <2>3, RunKeepsCore DEF VerifierReports, RunKeeps, Rest
  <1>25. CASE VerificationEnds
    <2>1. Going' /\ asked' \in SUBSET Comment /\ answered' \in SUBSET Comment
      BY <1>25, EndsGoing DEF VerificationEnds
    <2>2. Rest' /\ rec' = Conclude(job.ok)
      BY <1>25, <1>r, <2>1 DEF VerificationEnds, Rest
    <2>3. CASE Over
      BY <1>r, <2>1, <2>2, <2>3, RunKeepsCore DEF Conclude, RunKeeps
    <2>4. CASE ~Over /\ job.ok
      <3>1. Sound(Moved("waiting_for_review"))
            /\ Moved("waiting_for_review").triage # "operator_review"
        BY <1>r, <2>4, <1>s, RunMoves
      <3>2. rec' = [Moved("waiting_for_review") EXCEPT !.playwright = "passed"]
        BY <2>2, <2>4, <1>r DEF Conclude, Moved, Records
      <3>3. Sound(rec)' /\ rec'.triage # "operator_review"
        BY <3>1, <3>2, Marked
      <3> QED
        BY <2>1, <2>2, <3>3, RunKeepsCore DEF RunKeeps
    <2>5. CASE ~Over /\ ~job.ok
      <3> DEFINE q == Charged("reproducing", "blocked")
      <3>1. Sound(q) /\ q.triage # "operator_review"
        BY <1>r, <2>5, <1>s, RunCharges
      <3>2. rec' = [q EXCEPT !.playwright = "failed"]
        BY <2>2, <2>5 DEF Conclude
      <3> HIDE DEF q
      <3>3. Sound(rec)' /\ rec'.triage # "operator_review"
        BY <3>1, <3>2, Marked
      <3> QED
        BY <2>1, <2>2, <3>3, RunKeepsCore DEF RunKeeps
    <2> QED
      BY <2>3, <2>4, <2>5
  <1>26. CASE RunRaises
    <2>1. Going' /\ asked' \in SUBSET Comment /\ answered' \in SUBSET Comment
      BY <1>26, EndsGoing DEF RunRaises
    <2> QED
      BY <1>26, <1>r, <1>h, <2>1, RunKeepsCore DEF RunRaises, RunKeeps, Rest
  <1>27. CASE Crash
    BY <1>27, <1>r, RunKeepsCore DEF Crash, RunKeeps, Rest, Going
  <1> QED
    BY <1>1, <1>2, <1>3, <1>4, <1>5, <1>6, <1>7, <1>8, <1>9, <1>10, <1>11, <1>12, <1>13,
       <1>14, <1>15, <1>16, <1>17, <1>18, <1>19, <1>20, <1>21, <1>22, <1>23, <1>24,
       <1>25, <1>26, <1>27

\* Steps that start a run, and what happens to the task from outside.
LEMMA OutsideStep ==
  ASSUME Core, UNCHANGED setting,
         \/ StartTriage \/ StartAssessment \/ StartIntake \/ StartSession
         \/ StartVerification \/ Cancel \/ ReleaseTriage \/ Merged
         \/ \E c \in Comment : CommentArrives(c)
         \/ \E v \in Version : DeploymentArrives(v)
  PROVE  Core'
  <1> USE DEF evidence, published, reviews
  <1>r. /\ Sound(rec) /\ rec \in Records /\ Rest /\ job \in Jobs \union {Idle}
    BY DEF Core, TypeOK, Sound, Rest
  <1>s. /\ {"received", "triaging", "collecting_context", "investigating", "reproducing",
            "implementing", "testing_local", "publishing_pr", "waiting_for_deployment",
            "testing_deployment", "waiting_for_review"} = TaskStates \ TerminalStates
        /\ {"completed", "blocked", "failed", "cancelled"} = TerminalStates
        /\ TerminalStates \subseteq TaskStates
        /\ SessionStates \subseteq TaskStates \ (TerminalStates \union {"received", "triaging"})
    BY DEF TaskStates, TerminalStates, SessionStates, ActiveStates
  <1>w. {"assess", "clone", "context", "refresh", "verify", "review"} \subseteq Waits
    BY DEF Waits
  <1>v. 0 \in Version /\ tree.head \in Version
    BY <1>r DEF Version, Rest
  <1>1. CASE StartTriage
    <2>1. rec' = Moved("triaging") /\ job = Idle /\ ~Hold /\ ~Over
      BY <1>1, <1>s DEF StartTriage, Hold, Over
    <2>2. Sound(rec)'
      BY <1>r, <1>s, <2>1, MovedSound DEF Moved, Hold, Over
    <2> QED
      BY <1>1, <1>r, <2>1, <2>2, Assemble DEF StartTriage, Going, Rest
  <1>2. CASE StartAssessment
    <2>1. ~Hold /\ ~Over /\ rec.state = "triaging"
      BY <1>2, <1>s DEF StartAssessment, Hold, Over
    <2>2. Loadable(rec)
      BY <1>r, <2>1 DEF Sound, Loadable, Over, Hold
    <2>3. job' \in Jobs /\ job'.task = rec /\ job'.at = "assess"
      BY <1>2, <1>w, <1>v, <2>2 DEF StartAssessment, Loaded, Jobs, Loadable
    <2> QED
      BY <1>2, <1>r, <2>1, <2>2, <2>3
         DEF StartAssessment, Core, TypeOK, Rest, Over, Hold, Loadable, Sound
  <1>3. CASE StartIntake
    <2>1. ~Over /\ rec.state \notin TerminalStates
      BY <1>3, <1>s DEF StartIntake, Over
    <2>2. CASE Hold
      <3>1. rec' = Moved("blocked") /\ UNCHANGED job /\ job = Idle
        BY <1>3, <2>2 DEF StartIntake, StopsAtHold
      <3>2. Sound(rec)'
        BY <1>r, <1>s, <3>1, MovedSound DEF Moved
      <3> QED
        BY <1>3, <1>r, <3>1, <3>2, Assemble DEF StartIntake, Going, Rest
    <2>3. CASE ~Hold
      <3>1. UNCHANGED rec /\ Loaded(IF tree.exists THEN "context" ELSE "clone")
        BY <1>3, <2>3 DEF StartIntake, StopsAtHold
      <3>2. (IF tree.exists THEN "context" ELSE "clone") \in Waits \ {"assess", "review"}
        BY DEF Waits
      <3>3. Going'
        BY <2>1, <2>3, <3>1, <3>2, LoadedGoing
      <3> QED
        BY <1>3, <1>r, <2>3, <3>1, <3>3, Assemble DEF StartIntake, Rest, Hold
    <2> QED
      BY <2>2, <2>3
  <1>4. CASE StartSession
    <2>1. CASE rec.state \in SessionStates /\ Loaded("refresh") /\ UNCHANGED rec
      <3>1. ~Over /\ ~Hold
        BY <1>r, <1>s, <2>1 DEF Sound, Over, Hold
      <3>2. Going'
        BY <1>w, <2>1, <3>1, LoadedGoing
      <3> QED
        BY <1>4, <1>r, <2>1, <3>1, <3>2, Assemble DEF StartSession, Rest, Hold
    <2>2. CASE /\ rec.state = "waiting_for_review"
               /\ rec' = [rec EXCEPT !.comments = {}]
               /\ job' = [at |-> "refresh", task |-> rec, then |-> "none", input |-> 0,
                          ok |-> FALSE, comments |-> rec.comments]
      <3>1. Loadable(rec)
        BY <1>r, <1>s, <2>2 DEF Sound, Loadable
      <3>2. Sound(rec)' /\ rec'.triage # "operator_review"
        BY <1>r, <2>2, <3>1 DEF Sound, Records, Loadable
      <3>3. job' \in Jobs /\ job'.task = rec /\ job'.at = "refresh"
        BY <1>r, <1>w, <1>v, <2>2, Fields DEF Jobs
      <3>4. Going'
        BY <3>1, <3>3 DEF Going
      <3> QED
        BY <1>4, <1>r, <3>2, <3>4, Assemble DEF StartSession, Rest, Hold
    <2> QED
      BY <1>4, <2>1, <2>2 DEF StartSession
  <1>5. CASE StartVerification
    <2>1. ~Over /\ ~Hold /\ job = Idle
      BY <1>5, <1>r, <1>s DEF StartVerification, Sound, Over, Hold
    <2>2. CASE Loaded("verify") /\ UNCHANGED rec
      <3>1. Going'
        BY <1>w, <2>1, <2>2, LoadedGoing
      <3> QED
        BY <1>5, <1>r, <2>1, <2>2, <3>1, Assemble DEF StartVerification, Rest, Hold
    <2>3. CASE /\ job' = [at |-> "review", task |-> rec, then |-> "verify",
                          input |-> tree.head, ok |-> FALSE, comments |-> {}]
               /\ UNCHANGED rec
      <3>1. Loadable(rec)
        BY <1>r, <2>1 DEF Sound, Loadable, Over, Hold
      <3>2. job' \in Jobs /\ job'.task = rec /\ job'.at = "review" /\ job'.then = "verify"
        BY <1>r, <1>w, <1>v, <2>3 DEF Jobs
      <3>3. Going'
        BY <3>1, <3>2 DEF Going
      <3> QED
        BY <1>5, <1>r, <2>1, <2>3, <3>3, Assemble DEF StartVerification, Rest, Hold
    <2>4. CASE rec' = [rec EXCEPT !.state = "blocked", !.code_review_sha = 0] /\ UNCHANGED job
      <3>1. Sound(Moved("blocked")) /\ Moved("blocked").triage # "operator_review"
        BY <1>r, <1>s, <2>1, MovedSound DEF Moved, Hold
      <3>2. rec' = [Moved("blocked") EXCEPT !.code_review_sha = 0]
        BY <1>r, <2>4 DEF Moved, Records
      <3>3. Sound(rec)'
        BY <1>v, <3>1, <3>2, Marked
      <3> QED
        BY <1>5, <1>r, <2>1, <2>4, <3>3, Assemble DEF StartVerification, Going, Rest
    <2> QED
      BY <1>5, <2>2, <2>3, <2>4 DEF StartVerification
  <1>6. CASE Cancel
    <2>1. Sound(rec)' /\ rec'.triage = rec.triage /\ rec'.state = "cancelled"
      BY <1>6, <1>r, <1>s, MovedSound DEF Cancel, Moved
    <2> QED
      BY <1>6, <1>r, <1>s, <2>1 DEF Cancel, Core, TypeOK, Rest, Sound, Hold, Over
  <1>7. CASE ReleaseTriage
    <2>1. rec.attempts < MaxAttempts
      BY <1>7, <1>r DEF ReleaseTriage, Sound, Hold
    <2>2. Sound(rec)'
      BY <1>7, <1>r, <1>s, <2>1 DEF ReleaseTriage, Sound, Records
    <2> QED
      BY <1>7, <1>r, <2>2, Assemble DEF ReleaseTriage, Going, Rest
  <1>8. CASE Merged
    <2>1. Sound(rec)' /\ rec'.triage = rec.triage /\ rec'.state = "completed"
      BY <1>8, <1>r, <1>s, MovedSound DEF Merged, Moved
    <2>2. Rest'
      BY <1>8, <1>r DEF Merged, Rest
    <2> QED
      BY <1>8, <1>r, <1>s, <2>1, <2>2 DEF Merged, Core, TypeOK, Rest, Sound, Hold, Over
  <1>9. ASSUME NEW c \in Comment, CommentArrives(c) PROVE Core'
    <2>1. rec' = [rec EXCEPT !.comments = @ \union {c}]
      BY <1>9 DEF CommentArrives
    <2>2. /\ Sound(rec)' /\ rec'.triage = rec.triage /\ rec'.state = rec.state
      BY <1>r, <2>1 DEF Sound, Records
    <2>3. Rest'
      BY <1>9, <1>r DEF CommentArrives, Rest
    <2> QED
      BY <1>9, <1>r, <2>2, <2>3 DEF CommentArrives, Core, TypeOK, Rest, Sound, Hold, Over
  <1>10. ASSUME NEW v \in Version, DeploymentArrives(v) PROVE Core'
    <2>1. /\ rec.state = "waiting_for_deployment"
          /\ rec' = [rec EXCEPT !.state = "testing_deployment", !.deployment_sha = v]
      BY <1>10 DEF DeploymentArrives
    <2>2. rec.triage # "operator_review" /\ rec.attempts < MaxAttempts
      BY <1>r, <1>s, <2>1 DEF Sound
    <2>3. Sound(rec)' /\ rec'.triage # "operator_review"
      BY <1>r, <1>s, <2>1, <2>2 DEF Sound, Records
    <2>4. ~(job # Idle /\ job.at = "assess")
      BY <1>s, <2>1 DEF Core, Over
    <2> QED
      BY <1>10, <1>r, <2>3, <2>4
         DEF DeploymentArrives, Core, TypeOK, Rest, Sound, Hold, Over
  <1> QED
    BY <1>1, <1>2, <1>3, <1>4, <1>5, <1>6, <1>7, <1>8, <1>9, <1>10

LEMMA CoreStep == Core /\ [Next]_vars => Core'
  <1> SUFFICES ASSUME Core, [Next]_vars PROVE Core'
    OBVIOUS
  <1>1. CASE UNCHANGED vars
    BY <1>1 DEF vars, Core, TypeOK, Over, Hold
  <1>2. CASE Next /\ job = Idle
    BY <1>2, OutsideStep
       DEF Next, Step, CrashAfterAssessment, AssessmentArrives, CheckoutMade, RepositoryBusy,
           CheckoutSaved, ContextCollected, BaseMerged, BaseConflicts, AgentEdits,
           SessionEnds, InvestigationMarked, ReproductionEnds, ToolRaises, TestsRun,
           PlaywrightRun, TestEnds, OpenPr, Push, Publish, ReviewSkipped, ReviewPasses,
           ReviewFinds, ReviewFails, VerifierReports, VerificationEnds, RunRaises, Crash
  <1>3. CASE Next /\ job # Idle
    BY <1>3, OutsideStep, RunStep DEF Next, Step
  <1> QED
    BY <1>1, <1>2, <1>3

-----------------------------------------------------------------------------
(* The inductive invariant, and what follows from it.                      *)

\* The strengthened invariant: what a run loaded was open, within its budget
\* and not held, so whatever writes a whole record keeps all three.
THEOREM WorkflowInvariant == Spec => []Core
  BY CoreInit, CoreStep, PTL DEF Spec

\* Every field of the record, the checkout, the run and the evidence keeps its
\* type.
THEOREM WorkflowTypes == Spec => []TypeOK
  <1>1. Core => TypeOK
    BY DEF Core
  <1> QED
    BY <1>1, WorkflowInvariant, PTL

\* A task that still works has attempts left, whatever failed so far.
THEOREM BudgetHolds == Spec => []BudgetRespected
  <1>1. Core => BudgetRespected
    BY DEF Core, Sound, BudgetRespected, Over
  <1> QED
    BY <1>1, WorkflowInvariant, PTL

\* A task held for triage review is not worked on until it is released.
THEOREM HoldHolds == Spec => []HoldRespected
  <1>1. Core => HoldRespected
    BY DEF Core, Sound, HoldRespected, Hold
  <1> QED
    BY <1>1, WorkflowInvariant, PTL

-----------------------------------------------------------------------------
(* Only checked versions are published.                                    *)

\* The run is past the check of open_pr and before the push: a review of what
\* is to be published, or the publication itself.
Releasing(j) == j # Idle /\ (j.at = "publish" \/ (j.at = "review" /\ j.then = "publish"))

\* What is recorded as passed or reviewed was so, what is about to be published
\* was tested and, past its review, reviewed; and the property itself.
Evidence ==
  /\ passing # 0 => passing \in checked
  /\ pushed \subseteq checked /\ (Review => pushed \subseteq clean)
  /\ Review /\ rec.code_review_sha # 0 => rec.code_review_sha \in clean
  /\ Review /\ job # Idle /\ job.task.code_review_sha # 0 => job.task.code_review_sha \in clean
  /\ Releasing(job) =>
       /\ tree.content \in checked
       /\ Review => tree.head = tree.content \/ job.at = "publish"
       /\ Review /\ job.at = "publish" => tree.content \in clean
  /\ rec.state = "completed" /\ ~rec.pr => rec.pr_head_sha \in checked

\* A step that touches none of this: no new evidence, no new head, and a record
\* of a commit only if an older one is brought back.
Quiet ==
  /\ UNCHANGED <<passing, checked, clean, pushed>>
  /\ \/ rec'.code_review_sha \in {0, rec.code_review_sha}
     \/ job # Idle /\ rec'.code_review_sha = job.task.code_review_sha
  /\ rec'.state = "completed" /\ ~rec'.pr =>
       /\ rec.state = "completed" /\ ~rec.pr
       /\ rec'.pr_head_sha = rec.pr_head_sha
  /\ \/ job' = Idle
     \/ job # Idle /\ job'.task.code_review_sha = job.task.code_review_sha
     \/ job'.task.code_review_sha = rec.code_review_sha
  /\ \/ ~Releasing(job')
     \/ job' = job /\ tree'.content = tree.content /\ tree'.head = tree.head

LEMMA QuietKeeps ==
  ASSUME Review' = Review, Evidence, Quiet
  PROVE  Evidence'
  BY DEF Evidence, Quiet, Releasing

\* What no charge, move or failure changes.
SameCommits(r) ==
  /\ r.code_review_sha = rec.code_review_sha
  /\ r.pr = rec.pr /\ r.pr_head_sha = rec.pr_head_sha

LEMMA CommitsKept ==
  ASSUME rec \in Records
  PROVE  /\ \A s \in TaskStates : SameCommits(Moved(s)) /\ Moved(s).state = s
         /\ \A b \in TaskStates : /\ SameCommits(Charged(b, "blocked"))
                                  /\ Charged(b, "blocked").state \in {b, "blocked"}
         /\ SameCommits(Handled(rec)) /\ Handled(rec).state \in {rec.state, "failed"}
  BY DEF Records, Moved, Charged, Handled, SameCommits

\* The ways a run goes on that release nothing.
LEMMA JobsKept ==
  ASSUME job \in Jobs
  PROVE  /\ \A at : Wait(at) => job'.at = at /\ job'.task = job.task
         /\ \A at, then, input : Await(at, then, input) =>
              job'.at = at /\ job'.task = job.task /\ job'.then = then
         /\ BackToAgent => job'.at = "session" /\ job'.task = job.task
  BY DEF Jobs, Wait, Await, BackToAgent

LEMMA NewVersion ==
  ASSUME Rest, NEW committed \in BOOLEAN, NewContent(committed)
  PROVE  tree'.content = tree.content + 1
  BY DEF Rest, NewContent

LEMMA QuietRun ==
  ASSUME Review' = Review, Core, Evidence, Rest, job # Idle, SameCommits(rec'),
         (rec'.state = "completed" => rec.state = "completed"),
         UNCHANGED <<passing, checked, clean, pushed>>,
         (job' # Idle => job'.task = job.task /\ ~Releasing(job'))
  PROVE  Evidence'
  <1>1. Quiet
    BY DEF Quiet, SameCommits, Releasing
  <1> QED
    BY <1>1, QuietKeeps

LEMMA QuietOutside ==
  ASSUME Review' = Review, Evidence, SameCommits(rec'),
         (rec'.state = "completed" /\ ~rec.pr => rec.state = "completed"),
         UNCHANGED <<passing, checked, clean, pushed>>,
         \/ job' = job /\ tree'.content = tree.content /\ tree'.head = tree.head
         \/ job'.task = rec /\ ~Releasing(job')
  PROVE  Evidence'
  <1>1. Quiet
    BY DEF Quiet, SameCommits
  <1> QED
    BY <1>1, QuietKeeps

\* Steps of a run that produce no evidence and release nothing.
LEMMA EvidenceQuiet ==
  ASSUME Review' = Review, Core, Evidence, job # Idle,
         \/ CrashAfterAssessment \/ AssessmentArrives
         \/ CheckoutMade \/ RepositoryBusy \/ CheckoutSaved \/ ContextCollected
         \/ BaseMerged \/ BaseConflicts \/ AgentEdits
         \/ \E blocked \in BOOLEAN : SessionEnds(blocked)
         \/ InvestigationMarked \/ ReproductionEnds \/ ToolRaises
         \/ TestsRun \/ PlaywrightRun \/ Publish \/ ReviewFinds \/ ReviewFails
         \/ \E ok \in BOOLEAN : VerifierReports(ok)
         \/ VerificationEnds \/ RunRaises \/ Crash
  PROVE  Evidence'
  <1> USE DEF evidence, published, reviews
  <1>r. /\ job \in Jobs /\ Loadable(job.task) /\ rec \in Records /\ Rest
    BY Running
  <1>s. /\ {"investigating", "reproducing", "implementing", "testing_local", "blocked",
            "collecting_context", "waiting_for_deployment"} \subseteq TaskStates
        /\ "completed" \in TerminalStates
    BY DEF TaskStates, TerminalStates
  <1>c. /\ \A s \in TaskStates : SameCommits(Moved(s)) /\ Moved(s).state = s
        /\ \A b \in TaskStates : /\ SameCommits(Charged(b, "blocked"))
                                 /\ Charged(b, "blocked").state \in {b, "blocked"}
        /\ SameCommits(Handled(rec)) /\ Handled(rec).state \in {rec.state, "failed"}
    BY <1>r, CommitsKept
  <1>0. SameCommits(rec)
    BY DEF SameCommits
  <1>j. /\ \A at : Wait(at) => job'.at = at /\ job'.task = job.task
        /\ \A at, then, input : Await(at, then, input) =>
             job'.at = at /\ job'.task = job.task /\ job'.then = then
        /\ BackToAgent => job'.at = "session" /\ job'.task = job.task
    BY <1>r, JobsKept
  <1>1. CASE CrashAfterAssessment
    <2>1. SameCommits(rec') /\ rec'.state = rec.state
      BY <1>1, <1>r DEF CrashAfterAssessment, Records, SameCommits
    <2> QED
      BY <1>1, <1>r, <2>1, QuietRun DEF CrashAfterAssessment, RunEnds
  <1>2. CASE AssessmentArrives
    <2>1. CASE Over
      BY <1>2, <1>0, <1>r, <2>1, QuietRun DEF AssessmentArrives, RunEnds
    <2>2. CASE /\ rec' = [rec EXCEPT !.triage = "operator_review", !.state = "blocked"]
               /\ RunEnds
      <3>1. SameCommits(rec') /\ rec'.state = "blocked"
        BY <1>r, <2>2 DEF Records, SameCommits
      <3> QED
        BY <1>2, <1>r, <2>2, <3>1, QuietRun DEF AssessmentArrives, RunEnds
    <2>3. CASE /\ rec' = [rec EXCEPT !.triage = "agent"]
               /\ \E at \in {"context", "clone"} : job' = [job EXCEPT !.at = at, !.task = rec']
      <3>1. SameCommits(rec') /\ rec'.state = rec.state
        BY <1>r, <2>3 DEF Records, SameCommits
      <3>2. job'.at \in {"context", "clone"} /\ job'.task = rec'
        BY <1>r, <2>3 DEF Jobs
      <3>3. Quiet
        BY <1>2, <3>1, <3>2 DEF AssessmentArrives, Quiet, SameCommits, Releasing
      <3> QED
        BY <3>3, QuietKeeps
    <2> QED
      BY <1>2, <2>1, <2>2, <2>3 DEF AssessmentArrives
  <1>3. CASE CheckoutMade
    <2>1. job'.at = "cloned" /\ job'.task = job.task
      BY <1>3, <1>j DEF CheckoutMade
    <2> QED
      BY <1>3, <1>0, <1>r, <2>1, QuietRun DEF CheckoutMade, Releasing
  <1>4. CASE RepositoryBusy
    BY <1>4, <1>0, <1>r, QuietRun DEF RepositoryBusy, RunEnds
  <1>5. CASE CheckoutSaved
    <2>1. job'.at = "context" /\ job'.task = job.task
      BY <1>5, <1>j DEF CheckoutSaved
    <2>2. /\ rec'.code_review_sha = job.task.code_review_sha
          /\ rec'.state # "completed"
      BY <1>5, <1>r, <1>s DEF CheckoutSaved, Loadable, Records
    <2>3. Quiet
      BY <1>5, <2>1, <2>2 DEF CheckoutSaved, Quiet, Releasing
    <2> QED
      BY <2>3, QuietKeeps
  <1>6. CASE ContextCollected
    <2>1. rec' = Moved("collecting_context") \/ rec' = Handled(rec)
      BY <1>6 DEF ContextCollected, TransitionOrRaise, Moved
    <2>2. SameCommits(rec') /\ (rec'.state = "completed" => rec.state = "completed")
      BY <1>c, <1>s, <2>1
    <2> QED
      BY <1>6, <1>r, <2>2, QuietRun DEF ContextCollected, RunEnds
  <1>7. CASE BaseMerged
    <2>1. job'.at = "session" /\ job'.task = job.task
      BY <1>7, <1>j DEF BaseMerged
    <2> QED
      BY <1>7, <1>0, <1>r, <2>1, QuietRun DEF BaseMerged, Releasing
  <1>8. CASE BaseConflicts
    <2>1. SameCommits(rec') /\ (rec'.state = "completed" => rec.state = "completed")
      BY <1>8, <1>c DEF BaseConflicts
    <2> QED
      BY <1>8, <1>r, <2>1, QuietRun DEF BaseConflicts, RunEnds
  <1>9. CASE AgentEdits
    BY <1>9, <1>0, <1>r, QuietRun DEF AgentEdits, Releasing
  <1>10. ASSUME NEW blocked \in BOOLEAN, SessionEnds(blocked) PROVE Evidence'
    <2>1. rec.state \in TaskStates
      BY <1>r, Fields
    <2>2. \/ rec' = Moved("blocked")
          \/ rec.state \in ActiveStates /\ rec' = Charged(rec.state, "blocked")
          \/ rec' = rec
      BY <1>10 DEF SessionEnds
    <2>3. SameCommits(rec') /\ (rec'.state = "completed" => rec.state = "completed")
      BY <1>0, <1>c, <1>s, <2>1, <2>2
    <2> QED
      BY <1>10, <1>r, <2>3, QuietRun DEF SessionEnds, RunEnds
  <1>11. CASE InvestigationMarked
    <2>1. job'.at = "reproduce" /\ job'.task = job.task
      BY <1>11, <1>j DEF InvestigationMarked
    <2>2. SameCommits(rec') /\ (rec'.state = "completed" => rec.state = "completed")
      BY <1>11, <1>0, <1>c, <1>s DEF InvestigationMarked
    <2> QED
      BY <1>11, <1>r, <2>1, <2>2, QuietRun DEF InvestigationMarked, Releasing
  <1>12. CASE ReproductionEnds
    <2>1. job'.at = "session" /\ job'.task = job.task
      BY <1>12, <1>j DEF ReproductionEnds
    <2>2. SameCommits(rec') /\ (rec'.state = "completed" => rec.state = "completed")
      BY <1>12, <1>0, <1>c, <1>s DEF ReproductionEnds
    <2> QED
      BY <1>12, <1>r, <2>1, <2>2, QuietRun DEF ReproductionEnds, Releasing
  <1>13. CASE ToolRaises
    <2>1. job'.at = "session" /\ job'.task = job.task
      BY <1>13, <1>j DEF ToolRaises
    <2> QED
      BY <1>13, <1>0, <1>r, <2>1, QuietRun DEF ToolRaises, Releasing
  <1>14. CASE TestsRun
    <2>1. SameCommits(rec') /\ rec'.state # "completed"
      BY <1>14, <1>c, <1>s DEF TestsRun, CommandStarts
    <2>2. (job' = job /\ job.at = "session") \/ (job'.at = "test" /\ job'.task = job.task)
      BY <1>14, <1>j DEF TestsRun, CommandStarts
    <2> QED
      BY <1>14, <1>r, <2>1, <2>2, QuietRun DEF TestsRun, Releasing
  <1>15. CASE PlaywrightRun
    <2>1. job'.at = "review" /\ job'.task = job.task /\ job'.then = "test"
      BY <1>15, <1>j DEF PlaywrightRun
    <2> QED
      BY <1>15, <1>0, <1>r, <2>1, QuietRun DEF PlaywrightRun, Releasing
  <1>16. CASE Publish
    <2>1. job'.at = "session" /\ job'.task = job.task
      BY <1>16, <1>j DEF Publish
    <2>2. CASE Can("waiting_for_deployment")
      <3>1. rec' = [rec EXCEPT !.state = "waiting_for_deployment", !.pr = TRUE,
                             !.pr_head_sha = ConfirmedHead]
        BY <1>16, <2>2 DEF Publish
      <3>2. rec'.code_review_sha = rec.code_review_sha /\ rec'.state # "completed"
        BY <1>r, <3>1 DEF Records
      <3>3. Quiet
        BY <1>16, <2>1, <3>2 DEF Publish, Quiet, Releasing
      <3> QED
        BY <3>3, QuietKeeps
    <2>3. CASE ~Can("waiting_for_deployment")
      BY <1>16, <1>0, <1>r, <2>1, <2>3, QuietRun DEF Publish, Releasing
    <2> QED
      BY <2>2, <2>3
  <1>17. CASE ReviewFinds \/ ReviewFails
    <2>1. job' = Idle \/ (job'.at = "session" /\ job'.task = job.task)
      BY <1>17, <1>j DEF ReviewFinds, ReviewFails, HandBack, RunEnds
    <2>2. CASE Over
      BY <1>17, <1>0, <1>r, <2>1, <2>2, QuietRun DEF ReviewFinds, ReviewFails, Releasing
    <2>3. CASE ~Over /\ ReviewFinds
      <3>1. rec' = [Charged("reproducing", "blocked")
                      EXCEPT !.code_review_sha = 0, !.playwright = "none"]
        BY <2>3 DEF ReviewFinds
      <3>2. Charged("reproducing", "blocked").state # "completed"
        BY <1>c, <1>s
      <3>3. Charged("reproducing", "blocked") \in Records
        BY <1>s, <2>3, RunCharges DEF Sound
      <3>4. rec'.code_review_sha = 0 /\ rec'.state # "completed"
        BY <3>1, <3>2, <3>3 DEF Records
      <3>5. Quiet
        BY <2>1, <2>3, <3>4 DEF ReviewFinds, Quiet, Releasing
      <3> QED
        BY <3>5, QuietKeeps
    <2>4. CASE ~Over /\ ReviewFails
      <3>1. rec'.code_review_sha = 0 /\ rec'.state # "completed"
        BY <1>r, <2>4 DEF ReviewFails, Records
      <3>2. Quiet
        BY <2>1, <2>4, <3>1 DEF ReviewFails, Quiet, Releasing
      <3> QED
        BY <3>2, QuietKeeps
    <2> QED
      BY <1>17, <2>2, <2>3, <2>4
  <1>18. ASSUME NEW ok \in BOOLEAN, VerifierReports(ok) PROVE Evidence'
    <2>1. job'.at = "report" /\ job'.task = job.task
      BY <1>18, <1>r DEF VerifierReports, Jobs
    <2> QED
      BY <1>18, <1>0, <1>r, <2>1, QuietRun DEF VerifierReports, Releasing
  <1>19. CASE VerificationEnds
    <2>1. job' = Idle /\ UNCHANGED <<passing, checked, clean, pushed>>
      BY <1>19 DEF VerificationEnds, RunEnds
    <2>2. CASE Over
      BY <1>19, <1>0, <1>r, <2>1, <2>2, QuietRun DEF VerificationEnds, Conclude
    <2>3. CASE ~Over /\ job.ok
      <3>1. rec' = [rec EXCEPT !.state = "waiting_for_review", !.playwright = "passed"]
        BY <1>19, <2>3 DEF VerificationEnds, Conclude
      <3>2. SameCommits(rec') /\ rec'.state # "completed"
        BY <1>r, <3>1 DEF Records, SameCommits
      <3> QED
        BY <1>r, <2>1, <3>2, QuietRun
    <2>4. CASE ~Over /\ ~job.ok
      <3> DEFINE q == Charged("reproducing", "blocked")
      <3>1. rec' = [q EXCEPT !.playwright = "failed"]
        BY <1>19, <2>4 DEF VerificationEnds, Conclude
      <3>2. q \in Records
        BY <1>s, <2>4, RunCharges DEF Sound
      <3>3. SameCommits(q) /\ q.state # "completed"
        BY <1>c, <1>s
      <3> HIDE DEF q
      <3>4. SameCommits(rec') /\ rec'.state # "completed"
        BY <3>1, <3>2, <3>3 DEF Records, SameCommits
      <3> QED
        BY <1>r, <2>1, <3>4, QuietRun
    <2> QED
      BY <2>2, <2>3, <2>4
  <1>20. CASE RunRaises
    <2>1. SameCommits(rec') /\ (rec'.state = "completed" => rec.state = "completed")
      BY <1>20, <1>c DEF RunRaises
    <2> QED
      BY <1>20, <1>r, <2>1, QuietRun DEF RunRaises, RunEnds
  <1>21. CASE Crash
    BY <1>21, <1>0, <1>r, QuietRun DEF Crash
  <1> QED
    BY <1>1, <1>2, <1>3, <1>4, <1>5, <1>6, <1>7, <1>8, <1>9, <1>10, <1>11, <1>12, <1>13,
       <1>14, <1>15, <1>16, <1>17, <1>18, <1>19, <1>20, <1>21

\* A test that passes on stable inputs is new evidence; nothing is released.
LEMMA EvidenceTest ==
  ASSUME Review' = Review, Core, Evidence, job # Idle, NEW passed \in BOOLEAN, NEW stable \in BOOLEAN,
         TestEnds(passed, stable)
  PROVE  Evidence'
  <1> USE DEF evidence, published, reviews
  <1>r. job \in Jobs /\ rec \in Records /\ Rest
    BY Running
  <1>1. job'.at = "session" /\ job'.task = job.task
    BY <1>r, JobsKept DEF TestEnds
  <1>2. {"testing_local", "reproducing"} \subseteq TaskStates
    BY DEF TaskStates
  <1>3. SameCommits(rec') /\ (rec'.state = "completed" => rec.state = "completed")
    <2>1. SameCommits(rec)
      BY DEF SameCommits
    <2>2. \/ rec' = rec \/ rec' = Moved("testing_local")
          \/ rec' = Charged("reproducing", "blocked")
      BY DEF TestEnds
    <2> QED
      BY <1>r, <1>2, <2>1, <2>2, CommitsKept
  <1>4. /\ checked \subseteq checked' /\ clean' = clean /\ pushed' = pushed
        /\ passing' # 0 => passing' \in checked'
    <2>1. CASE passed /\ stable
      <3>1. tree' = tree /\ passing' = tree.content /\ checked' = checked \union {tree.content}
        BY <2>1 DEF TestEnds
      <3> QED
        BY <3>1 DEF TestEnds
    <2>2. CASE ~(passed /\ stable)
      BY <2>2 DEF TestEnds
    <2> QED
      BY <2>1, <2>2
  <1>5. ~Releasing(job')
    BY <1>1 DEF Releasing
  <1> QED
    BY <1>1, <1>3, <1>4, <1>5 DEF Evidence, SameCommits

\* open_pr lets a version through to its review only with its checks recorded.
LEMMA EvidenceOpen ==
  ASSUME Review' = Review, Core, Evidence, job # Idle, OpenPr
  PROVE  Evidence'
  <1> USE DEF evidence, published, reviews
  <1>r. job \in Jobs /\ Rest
    BY Running
  <1>1. job'.at = "review" /\ job'.task = job.task /\ job'.then = "publish"
    BY <1>r, JobsKept DEF OpenPr
  <1>2. passing = tree.content /\ tree.content \in 1..Versions
    BY <1>r DEF OpenPr, PendingChecks, Rest
  <1>3. tree.content \in checked
    BY <1>2 DEF Evidence
  <1>4. tree'.content = tree.content /\ (Review => tree'.head = tree'.content)
    BY <1>r DEF OpenPr, Rest
  <1> QED
    BY <1>1, <1>3, <1>4 DEF OpenPr, Evidence, Releasing

\* The push publishes what was released.
LEMMA EvidencePush ==
  ASSUME Review' = Review, Core, Evidence, job # Idle, Push
  PROVE  Evidence'
  <1> USE DEF evidence, published, reviews
  <1>r. job \in Jobs /\ Rest
    BY Running
  <1>1. job'.at = "pushed" /\ job'.task = job.task
    BY <1>r, JobsKept DEF Push
  <1>2. tree.content \in checked /\ (Review => tree.content \in clean)
    BY DEF Push, Evidence, Releasing
  <1> QED
    BY <1>1, <1>2 DEF Push, Evidence, Releasing

\* A review that lets the publication go on releases the version it looked at,
\* which cannot have changed since the check of open_pr.
LEMMA EvidenceProceed ==
  ASSUME Review' = Review, Core, Evidence, job # Idle, job.at = "review", tree.exists,
         NEW r, r \in Records, r.state = rec.state, r.pr = rec.pr,
         r.pr_head_sha = rec.pr_head_sha,
         Proceed(r), UNCHANGED <<passing, checked, pushed>>,
         clean \subseteq clean',
         Review => r.code_review_sha = tree.head /\ tree.head \in clean',
         ~Review => r.code_review_sha = rec.code_review_sha
  PROVE  Evidence'
  <1>r. job \in Jobs /\ Rest /\ job.then \in {"test", "publish", "verify"}
    BY Running DEF Core, Jobs
  <1>j. /\ \A at, then, input : Await(at, then, input) =>
             job'.at = at /\ job'.task = job.task /\ job'.then = then
        /\ BackToAgent => job'.at = "session" /\ job'.task = job.task
    BY <1>r, JobsKept
  <1>p. job'.task = job.task /\ (Releasing(job') => job.then = "publish")
    BY <1>r, <1>j DEF Proceed, PublicationStarts, Releasing
  <1>c. rec'.code_review_sha = r.code_review_sha
    <2>1. \/ rec' = r
          \/ rec' = [r EXCEPT !.state = "implementing"]
          \/ rec' = [r EXCEPT !.state = "publishing_pr"]
          \/ rec' = [r EXCEPT !.state = "completed", !.pr_head_sha = tree.content]
      BY <1>r DEF Proceed, PublicationStarts
    <2> QED
      BY <2>1 DEF Records
  <1>1. CASE job.then # "publish"
    <2>1. rec' = r \/ rec' = [r EXCEPT !.state = "implementing"]
      BY <1>1, <1>r DEF Proceed
    <2>2. rec'.pr = rec.pr /\ rec'.pr_head_sha = rec.pr_head_sha
          /\ (rec'.state = "completed" => rec.state = "completed")
      BY <2>1 DEF Records
    <2> QED
      BY <1>1, <1>p, <1>c, <2>2 DEF Evidence
  <1>2. CASE job.then = "publish"
    <2>1. PublicationStarts(r)
      BY <1>2 DEF Proceed
    <2>2. Releasing(job)
      BY <1>2 DEF Releasing
    <2>3. tree.content \in checked /\ (Review => tree.head = tree.content)
      BY <2>2 DEF Evidence
    <2>4. Review => tree.content \in clean'
      BY <2>3
    <2>5. tree'.content = tree.content
      BY <1>r, <2>1 DEF PublicationStarts, Rest
    <2>6. Releasing(job') => job'.at = "publish"
      BY <1>j, <2>1 DEF PublicationStarts, Releasing
    <2>7. rec'.state = "completed" /\ ~rec'.pr => rec'.pr_head_sha \in checked
      <3>1. CASE rec' = r
        BY <3>1 DEF Evidence
      <3>2. CASE rec' = [r EXCEPT !.state = "publishing_pr"]
        BY <3>2 DEF Records
      <3>3. CASE rec' = [r EXCEPT !.state = "completed", !.pr_head_sha = tree.content]
        BY <2>3, <3>3 DEF Records
      <3> QED
        BY <2>1, <3>1, <3>2, <3>3 DEF PublicationStarts
    <2> QED
      BY <1>p, <1>c, <2>3, <2>4, <2>5, <2>6, <2>7 DEF Evidence
  <1> QED
    BY <1>1, <1>2

LEMMA EvidenceReview ==
  ASSUME Review' = Review, Core, Evidence, job # Idle, ReviewSkipped \/ ReviewPasses
  PROVE  Evidence'
  <1> USE DEF evidence, published, reviews
  <1>r. rec \in Records /\ Rest
    BY Running
  <1>v. tree.head \in Version /\ tree.head # 0
    BY <1>r DEF Rest, Version
  <1>1. CASE ReviewSkipped
    <2>1. /\ job.at = "review" /\ tree.exists /\ Proceed(rec)
          /\ UNCHANGED <<passing, checked, pushed, clean>>
          /\ Review => rec.code_review_sha = tree.head
      BY <1>1 DEF ReviewSkipped
    <2>2. Review => rec.code_review_sha = tree.head /\ tree.head \in clean'
      BY <1>v, <2>1 DEF Evidence
    <2> QED
      BY <1>r, <2>1, <2>2, EvidenceProceed
  <1>2. CASE ReviewPasses
    <2> DEFINE r == [rec EXCEPT !.code_review_sha = tree.head]
    <2>1. /\ job.at = "review" /\ tree.exists /\ Proceed(r) /\ Review
          /\ UNCHANGED <<passing, checked, pushed>> /\ clean' = clean \union {tree.head}
      BY <1>2 DEF ReviewPasses
    <2>2. /\ r \in Records /\ r.state = rec.state /\ r.pr = rec.pr
          /\ r.pr_head_sha = rec.pr_head_sha /\ r.code_review_sha = tree.head
      BY <1>r, <1>v DEF Records
    <2> HIDE DEF r
    <2> QED
      BY <2>1, <2>2, EvidenceProceed
  <1> QED
    BY <1>1, <1>2

\* Steps that start a run, and what happens to the task from outside.
LEMMA EvidenceOutside ==
  ASSUME Review' = Review, Core, Evidence,
         \/ StartTriage \/ StartAssessment \/ StartIntake \/ StartSession
         \/ StartVerification \/ Cancel \/ ReleaseTriage \/ Merged
         \/ \E c \in Comment : CommentArrives(c)
         \/ \E v \in Version : DeploymentArrives(v)
  PROVE  Evidence'
  <1> USE DEF evidence, published, reviews
  <1>r. rec \in Records /\ Rest
    BY DEF Core, TypeOK, Sound, Rest
  <1>s. {"triaging", "blocked", "cancelled", "completed"} \subseteq TaskStates
    BY DEF TaskStates
  <1>c. /\ \A s \in TaskStates : SameCommits(Moved(s)) /\ Moved(s).state = s
        /\ SameCommits(rec)
    BY <1>r, CommitsKept DEF SameCommits
  <1>1. CASE StartTriage
    BY <1>1, <1>c, <1>s, QuietOutside DEF StartTriage
  <1>2. CASE StartAssessment
    <2>1. job'.at = "assess" /\ job'.task = rec
      BY <1>2 DEF StartAssessment, Loaded
    <2> QED
      BY <1>2, <1>c, <2>1, QuietOutside DEF StartAssessment, Releasing
  <1>3. CASE StartIntake
    <2>1. CASE rec' = Moved("blocked") /\ UNCHANGED job
      BY <1>3, <1>c, <1>s, <2>1, QuietOutside DEF StartIntake
    <2>2. CASE UNCHANGED rec /\ Loaded(IF tree.exists THEN "context" ELSE "clone")
      <3>1. job'.at \in {"context", "clone"} /\ job'.task = rec
        BY <2>2 DEF Loaded
      <3> QED
        BY <1>3, <1>c, <2>2, <3>1, QuietOutside DEF StartIntake, Releasing
    <2> QED
      BY <1>3, <2>1, <2>2 DEF StartIntake
  <1>4. CASE StartSession
    <2>1. job'.at = "refresh" /\ job'.task = rec
      BY <1>4 DEF StartSession, Loaded
    <2>2. SameCommits(rec') /\ rec'.state = rec.state
      BY <1>4, <1>r DEF StartSession, Records, SameCommits
    <2> QED
      BY <1>4, <2>1, <2>2, QuietOutside DEF StartSession, Releasing
  <1>5. CASE StartVerification
    <2>1. CASE Loaded("verify") /\ UNCHANGED rec
      <3>1. job'.at = "verify" /\ job'.task = rec
        BY <2>1 DEF Loaded
      <3> QED
        BY <1>5, <1>c, <2>1, <3>1, QuietOutside DEF StartVerification, Releasing
    <2>2. CASE /\ job' = [at |-> "review", task |-> rec, then |-> "verify",
                          input |-> tree.head, ok |-> FALSE, comments |-> {}]
               /\ UNCHANGED rec
      <3>1. job'.at = "review" /\ job'.task = rec /\ job'.then = "verify"
        BY <2>2
      <3> QED
        BY <1>5, <1>c, <2>2, <3>1, QuietOutside DEF StartVerification, Releasing
    <2>3. CASE rec' = [rec EXCEPT !.state = "blocked", !.code_review_sha = 0] /\ UNCHANGED job
      <3>1. rec'.code_review_sha = 0 /\ rec'.state # "completed"
        BY <1>r, <2>3 DEF Records
      <3>2. Quiet
        BY <1>5, <2>3, <3>1 DEF StartVerification, Quiet, Releasing
      <3> QED
        BY <3>2, QuietKeeps
    <2> QED
      BY <1>5, <2>1, <2>2, <2>3 DEF StartVerification
  <1>6. CASE Cancel
    BY <1>6, <1>c, <1>s, QuietOutside DEF Cancel
  <1>7. CASE ReleaseTriage
    <2>1. SameCommits(rec') /\ rec'.state = "received"
      BY <1>7, <1>r DEF ReleaseTriage, Records, SameCommits
    <2> QED
      BY <1>7, <2>1, QuietOutside DEF ReleaseTriage
  <1>8. CASE Merged
    <2>1. tree'.content = tree.content /\ tree'.head = tree.head
      BY <1>8, <1>r DEF Merged, Rest
    <2> QED
      BY <1>8, <1>c, <1>s, <2>1, QuietOutside DEF Merged
  <1>9. ASSUME NEW c \in Comment, CommentArrives(c) PROVE Evidence'
    <2>1. SameCommits(rec') /\ rec'.state = rec.state
      BY <1>9, <1>r DEF CommentArrives, Records, SameCommits
    <2> QED
      BY <1>9, <2>1, QuietOutside DEF CommentArrives
  <1>10. ASSUME NEW v \in Version, DeploymentArrives(v) PROVE Evidence'
    <2>1. SameCommits(rec') /\ rec'.state = "testing_deployment"
      BY <1>10, <1>r DEF DeploymentArrives, Records, SameCommits
    <2> QED
      BY <1>10, <2>1, QuietOutside DEF DeploymentArrives
  <1> QED
    BY <1>1, <1>2, <1>3, <1>4, <1>5, <1>6, <1>7, <1>8, <1>9, <1>10

LEMMA EvidenceInit == Init => Evidence
  BY DEF Init, Evidence, Received, Releasing, Idle

LEMMA EvidenceStep == Core /\ Evidence /\ [Next]_vars => Evidence'
  <1> SUFFICES ASSUME Core, Evidence, [Next]_vars PROVE Evidence'
    OBVIOUS
  <1>1. CASE UNCHANGED vars
    BY <1>1 DEF vars, Evidence, Releasing, Review
  <1>0. Next => Review' = Review
    BY DEF Next, Review
  <1>2. CASE Next /\ job = Idle
    BY <1>0, <1>2, EvidenceOutside
       DEF Next, Step, CrashAfterAssessment, AssessmentArrives, CheckoutMade, RepositoryBusy,
           CheckoutSaved, ContextCollected, BaseMerged, BaseConflicts, AgentEdits,
           SessionEnds, InvestigationMarked, ReproductionEnds, ToolRaises, TestsRun,
           PlaywrightRun, TestEnds, OpenPr, Push, Publish, ReviewSkipped, ReviewPasses,
           ReviewFinds, ReviewFails, VerifierReports, VerificationEnds, RunRaises, Crash
  <1>3. CASE Next /\ job # Idle
    BY <1>0, <1>3, EvidenceOutside, EvidenceQuiet, EvidenceTest, EvidenceOpen, EvidencePush,
       EvidenceReview DEF Next, Step
  <1> QED
    BY <1>1, <1>2, <1>3

\* Every version that is ever pushed, and the commit of a task published
\* locally, passed its checks on stable inputs, and its review when there is
\* one: what was checked is what the push takes, because nothing between the
\* check of open_pr and the push changes the checkout.
THEOREM OnlyCheckedPublished == Spec => []PublishedIsChecked
  <1>1. Spec => []Evidence
    BY EvidenceInit, EvidenceStep, WorkflowInvariant, PTL DEF Spec
  <1>2. Evidence => PublishedIsChecked
    BY DEF Evidence, PublishedIsChecked
  <1> QED
    BY <1>1, <1>2, PTL

-----------------------------------------------------------------------------
(* Closed tasks stay closed.                                               *)

\* What a step may make of the record.
Later(r) ==
  /\ r.attempts >= rec.attempts
  /\ Over => \/ r.state = rec.state
             \/ rec.triage = "operator_review" /\ r.triage = "released"

LEMMA LaterKept ==
  ASSUME rec \in Records
  PROVE  /\ Later(rec) /\ Later(Handled(rec))
         /\ \A r : r.attempts = rec.attempts /\ r.state = rec.state => Later(r)
         /\ ~Over => /\ \A s : Later(Moved(s))
                     /\ \A b : Later(Charged(b, "blocked"))
                     /\ \A r : r.attempts = rec.attempts => Later(r)
  <1>1. rec.attempts \in Nat
    BY DEF Records
  <1>2. Later(rec)
    BY <1>1 DEF Later
  <1>3. Later(Handled(rec))
    BY <1>1 DEF Later, Handled, Over, Records
  <1>4. ASSUME ~Over PROVE \A s : Later(Moved(s))
    BY <1>1, <1>4 DEF Later, Moved, Records
  <1>5. ASSUME ~Over PROVE \A b : Later(Charged(b, "blocked"))
    BY <1>1, <1>5 DEF Later, Charged, Records
  <1>6. /\ \A r : r.attempts = rec.attempts /\ r.state = rec.state => Later(r)
        /\ ~Over => \A r : r.attempts = rec.attempts => Later(r)
    BY <1>1 DEF Later
  <1> QED
    BY <1>2, <1>3, <1>4, <1>5, <1>6

\* A version may be reviewed of a closed task, but only an open one moves.
LEMMA LaterProceed ==
  ASSUME rec \in Records, NEW r \in Records, r.attempts = rec.attempts,
         r.state = rec.state, Proceed(r), job.then \in {"test", "publish", "verify"}
  PROVE  Later(rec')
  <1>1. CASE rec' = r
    BY <1>1, LaterKept
  <1>2. CASE rec' # r
    <2>1. \/ rec' = [r EXCEPT !.state = "implementing"]
          \/ rec' = [r EXCEPT !.state = "publishing_pr"]
          \/ rec' = [r EXCEPT !.state = "completed", !.pr_head_sha = tree.content]
      BY <1>2 DEF Proceed, PublicationStarts
    <2>2. /\ {"implementing", "publishing_pr"} \subseteq TaskStates \ TerminalStates
          /\ "implementing" \notin TerminalStates
      BY DEF TaskStates, TerminalStates
    <2>3. \/ ValidTransition(r.state, "implementing", FALSE) \/ r.state = "implementing"
          \/ ValidTransition(r.state, "publishing_pr", FALSE)
      BY <1>2 DEF Proceed, PublicationStarts
    <2>4. ~Over
      BY <2>2, <2>3, OpenBefore DEF Over
    <2>5. rec'.attempts = rec.attempts
      BY <2>1 DEF Records
    <2> QED
      BY <2>4, <2>5, LaterKept
  <1> QED
    BY <1>1, <1>2

LEMMA LaterRun ==
  ASSUME Core, job # Idle, Step, job.at # "cloned",
         ~(Cancel \/ ReleaseTriage \/ Merged),
         ~(\E c \in Comment : CommentArrives(c)), ~(\E v \in Version : DeploymentArrives(v))
  PROVE  Later(rec')
  <1>r. rec \in Records /\ job \in Jobs
    BY Running DEF Core, TypeOK
  <1>k. /\ Later(rec) /\ Later(Handled(rec))
        /\ ~Over => /\ \A s : Later(Moved(s))
                    /\ \A b : Later(Charged(b, "blocked"))
                    /\ \A r : r.attempts = rec.attempts => Later(r)
    BY <1>r, LaterKept
  <1>o. \A s \in TaskStates \ TerminalStates : Can(s) => ~Over
    BY OpenBefore DEF Can, Over
  <1>s. {"collecting_context", "reproducing", "waiting_for_deployment"}
          \subseteq TaskStates \ TerminalStates
    BY DEF TaskStates, TerminalStates
  <1>1. CASE UNCHANGED rec
    BY <1>1, <1>k
  <1>2. CASE AssessmentArrives \/ CrashAfterAssessment
    <2>1. CASE Over
      BY <1>2, <1>k, <2>1 DEF AssessmentArrives, CrashAfterAssessment
    <2>2. CASE ~Over
      <3>1. rec'.attempts = rec.attempts
        BY <1>2, <1>r, <2>2 DEF AssessmentArrives, CrashAfterAssessment, Records
      <3> QED
        BY <1>k, <2>2, <3>1
    <2> QED
      BY <2>1, <2>2
  <1>3. CASE ContextCollected
    <2>1. CASE Can("collecting_context")
      BY <1>3, <1>k, <1>o, <1>s, <2>1 DEF ContextCollected, TransitionOrRaise, Moved
    <2>2. CASE ~Can("collecting_context")
      BY <1>3, <1>k, <2>2 DEF ContextCollected, TransitionOrRaise
    <2> QED
      BY <2>1, <2>2
  <1>4. CASE BaseConflicts \/ RunRaises
    BY <1>4, <1>k DEF BaseConflicts, RunRaises
  <1>5. ASSUME NEW blocked \in BOOLEAN, SessionEnds(blocked) PROVE Later(rec')
    <2>1. rec.state \in ActiveStates => ~Over
      BY DEF ActiveStates, TerminalStates, Over
    <2> QED
      BY <1>5, <1>k, <2>1 DEF SessionEnds
  <1>6. CASE InvestigationMarked \/ ReproductionEnds
    BY <1>6, <1>k, <1>o, <1>s DEF InvestigationMarked, ReproductionEnds, Over, TerminalStates
  <1>7. CASE TestsRun
    BY <1>7, <1>k DEF TestsRun, CommandStarts, Testable, Over, TerminalStates
  <1>8. ASSUME NEW passed \in BOOLEAN, NEW stable \in BOOLEAN, TestEnds(passed, stable)
        PROVE  Later(rec')
    BY <1>8, <1>k DEF TestEnds
  <1>9. CASE Publish
    <2>1. CASE Can("waiting_for_deployment")
      <3>1. rec'.attempts = rec.attempts
        BY <1>9, <1>r, <2>1 DEF Publish, Records
      <3> QED
        BY <1>k, <1>o, <1>s, <2>1, <3>1
    <2>2. CASE ~Can("waiting_for_deployment")
      BY <1>9, <1>k, <2>2 DEF Publish
    <2> QED
      BY <2>1, <2>2
  <1>10. CASE ReviewSkipped \/ ReviewPasses
    <2>1. job.then \in {"test", "publish", "verify"}
      BY <1>10, <1>r DEF ReviewSkipped, ReviewPasses, Core, Jobs
    <2>2. CASE ReviewSkipped
      BY <1>r, <2>1, <2>2, LaterProceed DEF ReviewSkipped
    <2>3. CASE ReviewPasses
      <3> DEFINE r == [rec EXCEPT !.code_review_sha = tree.head]
      <3>1. tree.head \in Version
        BY Running DEF Rest, Version
      <3>2. r \in Records /\ r.attempts = rec.attempts /\ r.state = rec.state
        BY <1>r, <3>1 DEF Records
      <3>3. Proceed(r)
        BY <2>3 DEF ReviewPasses
      <3> HIDE DEF r
      <3> QED
        BY <1>r, <2>1, <3>2, <3>3, LaterProceed
    <2> QED
      BY <1>10, <2>2, <2>3
  <1>11. CASE ReviewFinds \/ ReviewFails
    <2>1. CASE Over
      BY <1>11, <1>k, <2>1 DEF ReviewFinds, ReviewFails
    <2>2. CASE ~Over /\ ReviewFinds
      <3>1. rec'.attempts = rec.attempts + 1 /\ rec.attempts \in Nat
        BY <1>r, <2>2 DEF ReviewFinds, Charged, Records
      <3> QED
        BY <2>2, <3>1 DEF Later
    <2>3. CASE ~Over /\ ReviewFails
      <3>1. rec'.attempts = rec.attempts
        BY <1>r, <2>3 DEF ReviewFails, Records
      <3> QED
        BY <1>k, <2>3, <3>1
    <2> QED
      BY <1>11, <2>1, <2>2, <2>3
  <1>12. CASE VerificationEnds
    <2>1. CASE Over
      BY <1>12, <1>k, <2>1 DEF VerificationEnds, Conclude
    <2>2. CASE ~Over /\ job.ok
      <3>1. rec'.attempts = rec.attempts
        BY <1>12, <1>r, <2>2 DEF VerificationEnds, Conclude, Records
      <3> QED
        BY <1>k, <2>2, <3>1
    <2>3. CASE ~Over /\ ~job.ok
      <3>1. rec'.attempts = rec.attempts + 1 /\ rec.attempts \in Nat
        BY <1>12, <1>r, <2>3 DEF VerificationEnds, Conclude, Charged, Records
      <3> QED
        BY <2>3, <3>1 DEF Later
    <2> QED
      BY <2>1, <2>2, <2>3
  <1>13. /\ ~StartTriage /\ ~StartAssessment /\ ~StartIntake /\ ~StartSession
         /\ ~StartVerification
    BY Zenon DEF StartTriage, StartAssessment, StartIntake, StartSession, StartVerification
  <1>14. CASE \/ CheckoutMade \/ RepositoryBusy \/ BaseMerged \/ AgentEdits \/ ToolRaises
              \/ PlaywrightRun \/ OpenPr \/ Push \/ Crash
    <2>1. UNCHANGED rec
      BY <1>14, Zenon DEF CheckoutMade, RepositoryBusy, BaseMerged, AgentEdits, ToolRaises,
         PlaywrightRun, OpenPr, Push, Crash
    <2> QED
      BY <1>1, <2>1
  <1>16. ASSUME NEW ok \in BOOLEAN, VerifierReports(ok) PROVE Later(rec')
    BY <1>1, <1>16, Zenon DEF VerifierReports
  <1>15. ~CheckoutSaved
    BY DEF CheckoutSaved
  <1> QED
    BY <1>2, <1>3, <1>4, <1>5, <1>6, <1>7, <1>8, <1>9, <1>10, <1>11, <1>12, <1>13, <1>14,
       <1>15, <1>16 DEF Step

LEMMA LaterOutside ==
  ASSUME Core,
         \/ StartTriage \/ StartAssessment \/ StartIntake \/ StartSession
         \/ StartVerification \/ Cancel \/ ReleaseTriage \/ Merged
         \/ \E c \in Comment : CommentArrives(c)
         \/ \E v \in Version : DeploymentArrives(v)
  PROVE  Later(rec')
  <1>r. rec \in Records
    BY DEF Core, TypeOK
  <1>k. /\ Later(rec)
        /\ \A r : r.attempts = rec.attempts /\ r.state = rec.state => Later(r)
        /\ ~Over => (\A s : Later(Moved(s))) /\ \A r : r.attempts = rec.attempts => Later(r)
    BY <1>r, LaterKept
  <1>1. CASE StartTriage
    BY <1>1, <1>k DEF StartTriage, Over, TerminalStates
  <1>2. CASE StartIntake
    BY <1>2, <1>k DEF StartIntake, Over, TerminalStates
  <1>3. CASE StartSession
    <2>1. rec'.attempts = rec.attempts /\ rec'.state = rec.state
      BY <1>3, <1>r DEF StartSession, Records
    <2> QED
      BY <1>k, <2>1
  <1>4. CASE StartVerification
    <2>1. ~Over
      BY <1>4 DEF StartVerification, Over, TerminalStates
    <2>2. rec' = rec \/ rec' = [rec EXCEPT !.state = "blocked", !.code_review_sha = 0]
      BY <1>4, Zenon DEF StartVerification
    <2>3. rec'.attempts = rec.attempts
      BY <1>r, <2>2 DEF Records
    <2> QED
      BY <1>k, <2>1, <2>3
  <1>5. CASE Cancel \/ Merged
    BY <1>5, <1>k DEF Cancel, Merged
  <1>6. CASE ReleaseTriage
    <2>1. /\ rec'.attempts = rec.attempts /\ rec.attempts \in Nat
          /\ rec.triage = "operator_review" /\ rec'.triage = "released"
      BY <1>6, <1>r DEF ReleaseTriage, Hold, Records
    <2> QED
      BY <2>1 DEF Later
  <1>7. ASSUME NEW c \in Comment, CommentArrives(c) PROVE Later(rec')
    <2>1. rec'.attempts = rec.attempts /\ rec'.state = rec.state
      BY <1>7, <1>r DEF CommentArrives, Records
    <2> QED
      BY <1>k, <2>1
  <1>8. ASSUME NEW v \in Version, DeploymentArrives(v) PROVE Later(rec')
    <2>0. /\ rec.state = "waiting_for_deployment"
          /\ rec' = [rec EXCEPT !.state = "testing_deployment", !.deployment_sha = v]
      BY <1>8, Zenon DEF DeploymentArrives
    <2>1. ~Over
      BY <2>0 DEF Over, TerminalStates
    <2>2. rec'.attempts = rec.attempts
      BY <2>0, <1>r DEF Records
    <2> QED
      BY <1>k, <2>1, <2>2
  <1>9. CASE StartAssessment
    BY <1>9, <1>k DEF StartAssessment
  <1> QED
    BY <1>1, <1>2, <1>3, <1>4, <1>5, <1>6, <1>7, <1>8, <1>9

LEMMA StepOutside ==
  ASSUME Next, job = Idle
  PROVE  \/ StartTriage \/ StartAssessment \/ StartIntake \/ StartSession
         \/ StartVerification \/ Cancel \/ ReleaseTriage \/ Merged
         \/ \E c \in Comment : CommentArrives(c)
         \/ \E v \in Version : DeploymentArrives(v)
  BY DEF Next, Step, CrashAfterAssessment, AssessmentArrives, CheckoutMade, RepositoryBusy,
         CheckoutSaved, ContextCollected, BaseMerged, BaseConflicts, AgentEdits,
         SessionEnds, InvestigationMarked, ReproductionEnds, ToolRaises, TestsRun,
         PlaywrightRun, TestEnds, OpenPr, Push, Publish, ReviewSkipped, ReviewPasses,
         ReviewFinds, ReviewFails, VerifierReports, VerificationEnds, RunRaises, Crash

\* For any settings, budgets and versions: no step but the end of the checkout
\* thread reopens a closed task or takes an attempt back, although runs,
\* webhooks and tools write the record over one another.
THEOREM ClosedStays == Spec => ClosedStaysClosed
  <1> DEFINE Keeps == \/ job.at = "cloned"
                      \/ /\ rec'.attempts >= rec.attempts
                         /\ Over => \/ rec'.state = rec.state
                                    \/ rec.triage = "operator_review" /\ rec'.triage = "released"
  <1>1. ASSUME Core, [Next]_vars PROVE [Keeps]_vars
    <2>1. CASE UNCHANGED vars
      BY <2>1
    <2>2. CASE Next /\ job = Idle
      BY <1>1, <2>2, StepOutside, LaterOutside DEF Later
    <2>3. CASE Next /\ job # Idle
      BY <1>1, <2>3, LaterRun, LaterOutside DEF Later, Next
    <2> QED
      BY <1>1, <2>1, <2>2, <2>3
  <1> QED
    BY <1>1, WorkflowInvariant, PTL DEF Spec, ClosedStaysClosed, Keeps
-----------------------------------------------------------------------------
(* What a reviewer is shown.                                               *)

Shown == {"waiting_for_deployment", "testing_deployment", "waiting_for_review"}

\* From its publication to its review a task names the head on GitHub, and
\* from its deployment on the version that was deployed.
Agrees ==
  /\ rec.state \in Shown => rec.pr_head_sha = remote
  /\ rec.state \in {"testing_deployment", "waiting_for_review"} =>
       rec.deployment_sha = rec.pr_head_sha
  /\ rec.state = "waiting_for_review" => rec.playwright = "passed"

ReviewingFor(then) == job.at = "review" /\ job.then = then

\* The state a run goes by, unless the task was closed meanwhile: it publishes
\* a task that is not shown yet, and concludes on one in verification.
Following ==
  job # Idle =>
    /\ job.at \in {"clone", "cloned"} => job.task.state \in {"received", "triaging"}
    /\ job.at \in {"publish", "pushed"} \/ ReviewingFor("publish") =>
         rec.state \in {"testing_local", "publishing_pr"} \union TerminalStates
    /\ job.at = "pushed" => job.input = remote
    /\ job.at \in {"verify", "report"} \/ ReviewingFor("verify") =>
         rec.state \in {"testing_deployment"} \union TerminalStates

Standing == Agrees /\ Following

\* A record that shows what it showed before, or nothing.
Consistent(r) ==
  \/ r.state \notin Shown
  \/ /\ r.state = rec.state /\ r.pr_head_sha = rec.pr_head_sha
     /\ r.deployment_sha = rec.deployment_sha /\ r.playwright = rec.playwright

\* A run that is over, or waits where nothing is concluded from the state.
Open ==
  \/ job' = Idle
  \/ job'.at \in {"assess", "context", "refresh", "session", "reproduce", "test"}

LEMMA StandsOpen ==
  ASSUME Standing, Consistent(rec'), UNCHANGED remote, Open
  PROVE  Standing'
  BY DEF Standing, Agrees, Following, ReviewingFor, Consistent, Open, Shown

LEMMA StandsWhere ==
  ASSUME Standing, Consistent(rec'), UNCHANGED remote, job # Idle, UNCHANGED job,
         rec'.state = rec.state \/ rec'.state \in TerminalStates
         \/ rec.state = "waiting_for_deployment"
  PROVE  Standing'
  BY DEF Standing, Agrees, Following, ReviewingFor, Consistent, Shown, TerminalStates

LEMMA ConsistentKept ==
  ASSUME rec \in Records
  PROVE  /\ Consistent(rec) /\ Consistent(Handled(rec))
         /\ \A s : s \notin Shown => Consistent(Moved(s))
         /\ \A b : b \notin Shown \/ b = rec.state => Consistent(Charged(b, "blocked"))
  <1>1. Consistent(rec)
    BY DEF Consistent
  <1>2. Consistent(Handled(rec))
    BY DEF Consistent, Handled, Records, Shown
  <1>3. ASSUME NEW s, s \notin Shown PROVE Consistent(Moved(s))
    BY <1>3 DEF Consistent, Moved, Records
  <1>4. ASSUME NEW b, b \notin Shown \/ b = rec.state PROVE Consistent(Charged(b, "blocked"))
    BY <1>4 DEF Consistent, Charged, Records, Shown
  <1> QED
    BY <1>1, <1>2, <1>3, <1>4

\* The steps of a run up to its publication and after its verdict.
LEMMA StandsRun ==
  ASSUME Core, Standing, job # Idle,
         \/ AssessmentArrives \/ CrashAfterAssessment \/ CheckoutMade \/ RepositoryBusy
         \/ CheckoutSaved \/ ContextCollected \/ BaseMerged \/ BaseConflicts \/ AgentEdits
         \/ \E blocked \in BOOLEAN : SessionEnds(blocked)
         \/ InvestigationMarked \/ ReproductionEnds \/ ToolRaises \/ TestsRun
         \/ \E passed, stable \in BOOLEAN : TestEnds(passed, stable)
         \/ ReviewFinds \/ ReviewFails \/ RunRaises \/ Crash
  PROVE  Standing'
  <1>r. rec \in Records /\ job \in Jobs /\ job.task \in Records
    BY Running DEF Loadable
  <1>k. /\ Consistent(rec) /\ Consistent(Handled(rec))
        /\ \A s : s \notin Shown => Consistent(Moved(s))
        /\ \A b : b \notin Shown \/ b = rec.state => Consistent(Charged(b, "blocked"))
    BY <1>r, ConsistentKept
  <1>j. /\ \A at : Wait(at) => job'.at = at /\ job'.task = job.task
        /\ BackToAgent => job'.at = "session"
        /\ \A at, then, input : Await(at, then, input) => job'.at = at
    BY <1>r, JobsKept
  <1>u. UNCHANGED remote
    BY Zenon DEF AssessmentArrives, CrashAfterAssessment, CheckoutMade, RepositoryBusy,
       CheckoutSaved, ContextCollected, BaseMerged, BaseConflicts, AgentEdits, SessionEnds,
       InvestigationMarked, ReproductionEnds, ToolRaises, TestsRun, TestEnds, ReviewFinds,
       ReviewFails, RunRaises, Crash, published
  <1>n. {"received", "triaging", "collecting_context", "investigating", "reproducing",
         "implementing", "testing_local", "blocked"} \cap Shown = {}
    BY DEF Shown
  <1>1. CASE AssessmentArrives
    <2>1. CASE Over
      <3>1. UNCHANGED rec /\ job' = Idle
        BY <1>1, <2>1, Zenon DEF AssessmentArrives, RunEnds
      <3> QED
        BY <1>k, <1>u, <3>1, StandsOpen DEF Open
    <2>2. CASE ~Over /\ rec' = [rec EXCEPT !.triage = "operator_review", !.state = "blocked"]
               /\ RunEnds
      <3>1. rec'.state = "blocked" /\ job' = Idle
        BY <1>r, <2>2 DEF RunEnds, Records
      <3> QED
        BY <1>n, <1>u, <3>1, StandsOpen DEF Open, Consistent
    <2>3. CASE /\ ~Over /\ rec' = [rec EXCEPT !.triage = "agent"]
               /\ job' = [job EXCEPT !.at = IF tree.exists THEN "context" ELSE "clone",
                                     !.task = [rec EXCEPT !.triage = "agent"]]
      <3>1. rec.state = "triaging"
        BY <1>1, <2>3 DEF Core, AssessmentArrives
      <3>2. rec'.state = "triaging"
        BY <1>r, <2>3, <3>1 DEF Records
      <3>3. job' # Idle => job'.at \in {"context", "clone"} /\ job'.task = rec'
        BY <1>r, <2>3 DEF Jobs
      <3> QED
        BY <1>n, <3>2, <3>3 DEF Standing, Agrees, Following, ReviewingFor, Shown
    <2> QED
      BY <1>1, <2>1, <2>2, <2>3, Zenon DEF AssessmentArrives
  <1>2. CASE CrashAfterAssessment
    <2>1. rec' = [rec EXCEPT !.triage = "operator_review"] /\ job' = Idle
      BY <1>2, Zenon DEF CrashAfterAssessment, RunEnds
    <2>2. Consistent(rec')
      BY <1>r, <2>1 DEF Consistent, Records
    <2> QED
      BY <1>u, <2>1, <2>2, StandsOpen DEF Open
  <1>3. CASE CheckoutMade
    <2>1. rec' = rec /\ job.at = "clone" /\ job'.at = "cloned" /\ job'.task = job.task
      BY <1>3, <1>j DEF CheckoutMade
    <2> QED
      BY <1>u, <2>1 DEF Standing, Agrees, Following, ReviewingFor
  <1>4. CASE CheckoutSaved
    <2>1. job.at = "cloned" /\ rec' = [job.task EXCEPT !.branch = TRUE] /\ job'.at = "context"
      BY <1>4, <1>j DEF CheckoutSaved
    <2>2. rec'.state \in {"received", "triaging"}
      BY <1>r, <2>1 DEF Standing, Following, Records
    <2> QED
      BY <1>n, <1>u, <2>1, <2>2, StandsOpen DEF Open, Consistent
  <1>5. CASE ContextCollected
    <2>1. rec' = Moved("collecting_context") \/ rec' = Handled(rec)
      BY <1>5 DEF ContextCollected, TransitionOrRaise, Moved
    <2>2. job' = Idle
      BY <1>5 DEF ContextCollected, RunEnds
    <2> QED
      BY <1>k, <1>n, <1>u, <2>1, <2>2, StandsOpen DEF Open
  <1>6. CASE BaseConflicts \/ RunRaises \/ RepositoryBusy \/ Crash
    <2>1. job' = Idle /\ (rec' = Handled(rec) \/ rec' = rec)
      BY <1>6, Zenon DEF BaseConflicts, RunRaises, RepositoryBusy, Crash, RunEnds
    <2> QED
      BY <1>k, <1>u, <2>1, StandsOpen DEF Open
  <1>7. CASE BaseMerged \/ ToolRaises
    <2>1. rec' = rec /\ job'.at = "session"
      BY <1>7, <1>j DEF BaseMerged, ToolRaises
    <2> QED
      BY <1>k, <1>u, <2>1, StandsOpen DEF Open
  <1>8. CASE AgentEdits
    <2>1. rec' = rec /\ job' = job
      BY <1>8, Zenon DEF AgentEdits
    <2> QED
      BY <1>k, <1>u, <2>1, StandsWhere
  <1>9. ASSUME NEW blocked \in BOOLEAN, SessionEnds(blocked) PROVE Standing'
    <2>1. job' = Idle
      BY <1>9, Zenon DEF SessionEnds, RunEnds
    <2>2. rec' = Moved("blocked") \/ rec' = Charged(rec.state, "blocked") \/ rec' = rec
      BY <1>9 DEF SessionEnds
    <2>3. Consistent(rec')
      BY <1>k, <1>n, <2>2
    <2> QED
      BY <1>u, <2>1, <2>3, StandsOpen DEF Open
  <1>10. CASE InvestigationMarked \/ ReproductionEnds
    <2>1. rec' \in {Moved("investigating"), Moved("reproducing"), rec}
      BY <1>10 DEF InvestigationMarked, ReproductionEnds
    <2>2. job'.at \in {"reproduce", "session"}
      BY <1>10, <1>j DEF InvestigationMarked, ReproductionEnds
    <2> QED
      BY <1>k, <1>n, <1>u, <2>1, <2>2, StandsOpen DEF Open
  <1>11. CASE TestsRun
    <2>1. rec' \in {Moved("implementing"), Moved("testing_local")}
      BY <1>11 DEF TestsRun, CommandStarts
    <2>2. job'.at \in {"test", "session"}
      BY <1>11, <1>j DEF TestsRun, CommandStarts
    <2> QED
      BY <1>k, <1>n, <1>u, <2>1, <2>2, StandsOpen DEF Open
  <1>12. ASSUME NEW passed \in BOOLEAN, NEW stable \in BOOLEAN, TestEnds(passed, stable)
         PROVE  Standing'
    <2>1. rec' \in {rec, Moved("testing_local"), Charged("reproducing", "blocked")}
      BY <1>12 DEF TestEnds
    <2>2. BackToAgent
      BY <1>12, Zenon DEF TestEnds
    <2> QED
      BY <1>j, <1>k, <1>n, <1>u, <2>1, <2>2, StandsOpen DEF Open
  <1>13. CASE ReviewFinds \/ ReviewFails
    <2>1. HandBack
      BY <1>13, Zenon DEF ReviewFinds, ReviewFails
    <2>2. Open
      BY <1>j, <2>1 DEF Open, HandBack, RunEnds
    <2>3. CASE rec' = rec
      BY <1>k, <1>u, <2>2, <2>3, StandsOpen
    <2>4. CASE rec' = [Charged("reproducing", "blocked")
                         EXCEPT !.code_review_sha = 0, !.playwright = "none"]
      <3>1. rec'.state \in {"reproducing", "blocked"}
        BY <1>r, <2>4 DEF Charged, Records
      <3> QED
        BY <1>n, <1>u, <2>2, <3>1, StandsOpen DEF Consistent
    <2>5. CASE rec' = [rec EXCEPT !.state = "blocked", !.code_review_sha = 0]
      <3>1. rec'.state = "blocked"
        BY <1>r, <2>5 DEF Records
      <3> QED
        BY <1>n, <1>u, <2>2, <3>1, StandsOpen DEF Consistent
    <2> QED
      BY <1>13, <2>3, <2>4, <2>5 DEF ReviewFinds, ReviewFails
  <1> QED
    BY <1>1, <1>2, <1>3, <1>4, <1>5, <1>6, <1>7, <1>8, <1>9, <1>10, <1>11, <1>12, <1>13

\* The steps that publish, ask for a review and conclude on a deployment.
LEMMA StandsReview ==
  ASSUME Core, Standing, job # Idle, job.at = "review", UNCHANGED remote,
         NEW r \in Records, r.state = rec.state, r.pr_head_sha = rec.pr_head_sha,
         r.deployment_sha = rec.deployment_sha, r.playwright = rec.playwright, Proceed(r)
  PROVE  Standing'
  <1>j. job \in Jobs /\ job.then \in {"test", "publish", "verify"}
    BY Running DEF Core, Jobs
  <1>a. /\ BackToAgent => job'.at = "session"
        /\ \A at, then, input : Await(at, then, input) => job'.at = at
    BY <1>j, JobsKept
  <1>1. CASE rec' = r /\ Open
    BY <1>1, StandsOpen DEF Consistent
  <1>2. CASE job.then = "test"
    <2>1. Open
      BY <1>2, <1>a DEF Proceed, Open
    <2>2. rec' = r \/ rec' = [r EXCEPT !.state = "implementing"]
      BY <1>2 DEF Proceed
    <2>3. Consistent(rec')
      BY <2>2 DEF Consistent, Records, Shown
    <2> QED
      BY <2>1, <2>3, StandsOpen
  <1>3. CASE job.then = "publish"
    <2>0. PublicationStarts(r)
      BY <1>3 DEF Proceed
    <2>1. rec.state \in {"testing_local", "publishing_pr"} \union TerminalStates
      BY <1>3 DEF Standing, Following, ReviewingFor
    <2>2. CASE rec' = r /\ job'.at = "publish"
      BY <2>1, <2>2 DEF Standing, Agrees, Following, ReviewingFor, Shown, TerminalStates
    <2>3. CASE rec' = [r EXCEPT !.state = "completed", !.pr_head_sha = tree.content]
               /\ job'.at = "session"
      <3>1. rec'.state = "completed"
        BY <2>3 DEF Records
      <3> QED
        BY <2>3, <3>1, StandsOpen DEF Open, Consistent, Shown
    <2>4. CASE rec' = [r EXCEPT !.state = "publishing_pr"] /\ job'.at = "publish"
      <3>1. rec'.state = "publishing_pr"
        BY <2>4 DEF Records
      <3> QED
        BY <2>4, <3>1 DEF Standing, Agrees, Following, ReviewingFor, Shown
    <2>5. CASE rec' = r /\ job'.at = "session"
      BY <1>1, <2>5 DEF Open
    <2> QED
      BY <1>a, <2>0, <2>2, <2>3, <2>4, <2>5 DEF PublicationStarts
  <1>4. CASE job.then = "verify"
    <2>1. rec' = r /\ job'.at = "verify"
      BY <1>4, <1>a DEF Proceed
    <2>2. rec.state \in {"testing_deployment"} \union TerminalStates
      BY <1>4 DEF Standing, Following, ReviewingFor
    <2> QED
      BY <2>1, <2>2 DEF Standing, Agrees, Following, ReviewingFor, Shown, TerminalStates
  <1> QED
    BY <1>j, <1>2, <1>3, <1>4

LEMMA StandsPublish ==
  ASSUME Core, Standing, job # Idle,
         \/ PlaywrightRun \/ OpenPr \/ Push \/ Publish \/ ReviewSkipped \/ ReviewPasses
         \/ \E ok \in BOOLEAN : VerifierReports(ok)
         \/ VerificationEnds
  PROVE  Standing'
  <1>r. rec \in Records /\ job \in Jobs /\ Rest
    BY Running
  <1>j. /\ BackToAgent => job'.at = "session"
        /\ \A at, then, input :
             Await(at, then, input) => job'.at = at /\ job'.then = then /\ job'.input = input
    <2>1. ASSUME NEW at, NEW then, NEW input, Await(at, then, input)
          PROVE  job'.input = input
      BY <1>r, <2>1 DEF Jobs, Await
    <2> QED
      BY <1>r, <2>1, JobsKept
  <1>1. CASE PlaywrightRun
    <2>1. rec' = rec /\ remote' = remote /\ job'.at = "review" /\ job'.then = "test"
      BY <1>1, <1>j DEF PlaywrightRun, published
    <2> QED
      BY <2>1 DEF Standing, Agrees, Following, ReviewingFor
  <1>2. CASE OpenPr
    <2>1. /\ rec' = rec /\ remote' = remote /\ job'.at = "review" /\ job'.then = "publish"
          /\ rec.state \in {"testing_local", "publishing_pr"}
      BY <1>2, <1>j DEF OpenPr, published
    <2> QED
      BY <2>1 DEF Standing, Agrees, Following, ReviewingFor, TerminalStates
  <1>3. CASE Push
    <2>1. /\ rec' = rec /\ job.at = "publish" /\ job'.at = "pushed" /\ job'.input = remote'
      BY <1>3, <1>j DEF Push
    <2>2. rec.state \in {"testing_local", "publishing_pr"} \union TerminalStates
      BY <2>1 DEF Standing, Following
    <2> QED
      BY <2>1, <2>2 DEF Standing, Agrees, Following, ReviewingFor, Shown, TerminalStates
  <1>4. CASE Publish
    <2>1. job.at = "pushed" /\ job'.at = "session" /\ remote' = remote /\ job.input = remote
      BY <1>4, <1>j DEF Publish, published, Standing, Following
    <2>2. CASE rec' = [rec EXCEPT !.state = "waiting_for_deployment", !.pr = TRUE,
                                  !.pr_head_sha = job.input]
      <3>1. rec'.state = "waiting_for_deployment" /\ rec'.pr_head_sha = job.input
        BY <1>r, <2>2 DEF Records
      <3> QED
        BY <2>1, <3>1 DEF Standing, Agrees, Following, ReviewingFor
    <2>3. CASE rec' = rec
      BY <2>1, <2>3, StandsOpen DEF Open, Consistent
    <2> QED
      BY <1>4, <2>2, <2>3 DEF Publish, ConfirmedHead
  <1>5. CASE ReviewSkipped
    BY <1>5, <1>r, StandsReview DEF ReviewSkipped, published
  <1>6. CASE ReviewPasses
    <2> DEFINE r == [rec EXCEPT !.code_review_sha = tree.head]
    <2>1. /\ r \in Records /\ r.state = rec.state /\ r.pr_head_sha = rec.pr_head_sha
          /\ r.deployment_sha = rec.deployment_sha /\ r.playwright = rec.playwright
      BY <1>r DEF Records, Rest, Version
    <2>2. Proceed(r) /\ remote' = remote /\ job.at = "review"
      BY <1>6 DEF ReviewPasses, published
    <2> HIDE DEF r
    <2> QED
      BY <2>1, <2>2, StandsReview
  <1>7. ASSUME NEW ok \in BOOLEAN, VerifierReports(ok) PROVE Standing'
    <2>1. /\ rec' = rec /\ remote' = remote /\ job.at = "verify"
          /\ job' = [job EXCEPT !.at = "report", !.ok = ok]
      BY <1>7, Zenon DEF VerifierReports, published
    <2>2. job'.at = "report"
      BY <1>r, <2>1 DEF Jobs
    <2> QED
      BY <2>1, <2>2 DEF Standing, Agrees, Following, ReviewingFor
  <1>8. CASE VerificationEnds
    <2>1. job' = Idle /\ remote' = remote /\ job.at = "report" /\ rec' = Conclude(job.ok)
      BY <1>8, Zenon DEF VerificationEnds, RunEnds, published
    <2>2. CASE Over
      BY <2>1, <2>2, StandsOpen DEF Open, Consistent, Conclude
    <2>3. CASE ~Over /\ job.ok
      <3>1. rec.state = "testing_deployment"
        BY <2>1, <2>3 DEF Standing, Following, Over
      <3>2. rec' = [rec EXCEPT !.state = "waiting_for_review", !.playwright = "passed"]
        BY <2>1, <2>3 DEF Conclude
      <3>3. /\ rec'.playwright = "passed" /\ rec'.deployment_sha = rec.deployment_sha
            /\ rec'.pr_head_sha = rec.pr_head_sha
        BY <1>r, <3>2 DEF Records
      <3> QED
        BY <2>1, <3>1, <3>3 DEF Standing, Agrees, Following, Shown
    <2>4. CASE ~Over /\ ~job.ok
      <3>1. rec'.state \in {"reproducing", "blocked"}
        BY <1>r, <2>1, <2>4 DEF Conclude, Charged, Records
      <3> QED
        BY <2>1, <3>1, StandsOpen DEF Open, Consistent, Shown
    <2> QED
      BY <2>2, <2>3, <2>4
  <1> QED
    BY <1>1, <1>2, <1>3, <1>4, <1>5, <1>6, <1>7, <1>8

\* Runs that start, and what happens to the task from outside.
LEMMA StandsOutside ==
  ASSUME Core, Standing,
         \/ StartTriage \/ StartAssessment \/ StartIntake \/ StartSession
         \/ StartVerification \/ Cancel \/ ReleaseTriage \/ Merged
         \/ \E c \in Comment : CommentArrives(c)
         \/ \E v \in Version : DeploymentArrives(v)
  PROVE  Standing'
  <1>r. rec \in Records
    BY DEF Core, TypeOK
  <1>k. /\ Consistent(rec)
        /\ \A s : s \notin Shown => Consistent(Moved(s))
    BY <1>r, ConsistentKept
  <1>u. UNCHANGED remote
    BY Zenon DEF StartTriage, StartAssessment, StartIntake, StartSession, StartVerification,
       Cancel, ReleaseTriage, Merged, CommentArrives, DeploymentArrives, published
  <1>n. {"received", "triaging", "blocked", "cancelled", "completed"} \cap Shown = {}
    BY DEF Shown
  <1>m. \A s \in TaskStates : Moved(s).state = s
    BY <1>r DEF Moved, Records
  <1>1. CASE StartTriage
    BY <1>1, <1>k, <1>n, <1>u, StandsOpen DEF StartTriage, Open
  <1>2. CASE StartAssessment
    <2>1. rec' = rec /\ job'.at = "assess"
      BY <1>2 DEF StartAssessment, Loaded
    <2> QED
      BY <1>k, <1>u, <2>1, StandsOpen DEF Open
  <1>3. CASE StartIntake
    <2>1. CASE rec' = Moved("blocked") /\ job' = job
      BY <1>3, <1>k, <1>n, <1>u, <2>1, StandsOpen DEF StartIntake, Open
    <2>2. CASE rec' = rec /\ Loaded(IF tree.exists THEN "context" ELSE "clone")
      <3>1. job'.at \in {"context", "clone"} /\ job'.task = rec
        BY <2>2 DEF Loaded
      <3>2. rec.state \in {"received", "triaging"}
        BY <1>3 DEF StartIntake
      <3> QED
        BY <1>u, <2>2, <3>1, <3>2 DEF Standing, Agrees, Following, ReviewingFor, Shown
    <2> QED
      BY <1>3, <2>1, <2>2 DEF StartIntake
  <1>4. CASE StartSession
    <2>1. job'.at = "refresh"
      BY <1>4 DEF StartSession, Loaded
    <2>2. rec' = rec \/ rec' = [rec EXCEPT !.comments = {}]
      BY <1>4, Zenon DEF StartSession
    <2>3. Consistent(rec')
      BY <1>r, <2>2 DEF Consistent, Records
    <2> QED
      BY <1>u, <2>1, <2>3, StandsOpen DEF Open
  <1>5. CASE StartVerification
    <2>0. rec.state = "testing_deployment" /\ job = Idle
      BY <1>5 DEF StartVerification
    <2>1. CASE Loaded("verify") /\ UNCHANGED rec
      <3>1. job'.at = "verify"
        BY <2>1 DEF Loaded
      <3> QED
        BY <1>u, <2>0, <2>1, <3>1 DEF Standing, Agrees, Following, ReviewingFor
    <2>2. CASE /\ job' = [at |-> "review", task |-> rec, then |-> "verify",
                          input |-> tree.head, ok |-> FALSE, comments |-> {}]
               /\ UNCHANGED rec
      <3>1. job'.at = "review" /\ job'.then = "verify"
        BY <2>2
      <3> QED
        BY <1>u, <2>0, <2>2, <3>1 DEF Standing, Agrees, Following, ReviewingFor
    <2>3. CASE rec' = [rec EXCEPT !.state = "blocked", !.code_review_sha = 0] /\ UNCHANGED job
      <3>1. rec'.state = "blocked"
        BY <1>r, <2>3 DEF Records
      <3> QED
        BY <1>n, <1>u, <2>0, <2>3, <3>1, StandsOpen DEF Open, Consistent
    <2> QED
      BY <1>5, <2>1, <2>2, <2>3 DEF StartVerification
  <1>6. CASE Cancel \/ Merged
    <2>1. rec'.state \in TerminalStates /\ Consistent(rec') /\ job' = job
      BY <1>6, <1>k, <1>m, <1>n DEF Cancel, Merged, TerminalStates, TaskStates
    <2> QED
      BY <1>u, <2>1, StandsOpen, StandsWhere DEF Open
  <1>7. CASE ReleaseTriage
    <2>1. job' = Idle /\ rec' = [rec EXCEPT !.state = "received", !.triage = "released"]
      BY <1>7 DEF ReleaseTriage
    <2>2. rec'.state = "received"
      BY <1>r, <2>1 DEF Records
    <2> QED
      BY <1>n, <1>u, <2>1, <2>2, StandsOpen DEF Open, Consistent
  <1>8. ASSUME NEW c \in Comment, CommentArrives(c) PROVE Standing'
    <2>1. rec' = [rec EXCEPT !.comments = @ \union {c}] /\ job' = job
      BY <1>8, Zenon DEF CommentArrives
    <2>2. Consistent(rec') /\ rec'.state = rec.state
      BY <1>r, <2>1 DEF Consistent, Records
    <2> QED
      BY <1>u, <2>1, <2>2, StandsOpen, StandsWhere DEF Open
  <1>9. ASSUME NEW v \in Version, DeploymentArrives(v) PROVE Standing'
    <2>1. /\ rec.state = "waiting_for_deployment" /\ v = rec.pr_head_sha /\ job' = job
          /\ rec' = [rec EXCEPT !.state = "testing_deployment", !.deployment_sha = v]
      BY <1>9, Zenon DEF DeploymentArrives, Accepts
    <2>2. /\ rec'.state = "testing_deployment" /\ rec'.deployment_sha = rec.pr_head_sha
          /\ rec'.pr_head_sha = rec.pr_head_sha
      BY <1>r, <2>1 DEF Records
    <2> QED
      BY <1>u, <2>1, <2>2 DEF Standing, Agrees, Following, ReviewingFor, Shown, TerminalStates
  <1> QED
    BY <1>1, <1>2, <1>3, <1>4, <1>5, <1>6, <1>7, <1>8, <1>9

LEMMA StandingStep == Core /\ Standing /\ [Next]_vars => Standing'
  <1> SUFFICES ASSUME Core, Standing, [Next]_vars PROVE Standing'
    OBVIOUS
  <1>1. CASE UNCHANGED vars
    BY <1>1 DEF vars, Standing, Agrees, Following, ReviewingFor
  <1>2. CASE Next /\ job = Idle
    BY <1>2, StepOutside, StandsOutside
  <1>3. CASE Next /\ job # Idle
    BY <1>3, StandsOutside, StandsRun, StandsPublish DEF Next, Step
  <1> QED
    BY <1>1, <1>2, <1>3

\* For any settings, budgets and versions: a task that asks for review shows
\* one version as recorded head, as verified deployment and on GitHub.  A run
\* publishes only a task that is not shown yet, and a verdict counts only for
\* the task in verification that its run started from.
THEOREM ReviewedStaysVerified == Spec => []ReviewedIsVerified
  <1>1. Init => Standing
    BY DEF Init, Received, Standing, Agrees, Following, Shown, Idle
  <1>2. Standing => ReviewedIsVerified
    BY DEF Standing, Agrees, ReviewedIsVerified, Shown
  <1> QED
    BY <1>1, <1>2, StandingStep, WorkflowInvariant, PTL DEF Spec
=============================================================================
