---------------------- MODULE ConflictRecovery_proofs ----------------------
(***************************************************************************)
(* Proofs about the recovery of conflicted pull requests, for any limits   *)
(* and any number of base versions, commits, crashes and failures.         *)
(***************************************************************************)
EXTENDS ConflictRecovery, TLAPS

USE ConflictAssumption

RecoveryJobs ==
  [kind : {"recovery"}, by : Callers, at : {"local", "fetch", "intent", "merge", "final"},
   resuming : BOOLEAN, whead : Commit, expected : Commit,
   tries : 0..MaxTries, fetched : Base, failed : BOOLEAN]
SessionJobs == [kind : {"session"}, at : {"refresh", "agent", "confirm"}, told : BOOLEAN]

\* What a recovery has been charged is in the record once it is under way.
Accounts ==
  /\ done + (IF rec.merging THEN 1 ELSE 0) <= rec.tries
  /\ job.kind = "recovery" =>
       /\ ~rec.pending
       /\ IF job.at \in {"merge", "final"}
          THEN rec.merging /\ job.tries = rec.tries
          ELSE /\ job.resuming = rec.merging
               /\ job.tries = IF rec.merging THEN rec.tries ELSE rec.tries + 1

\* Merges only go forward: in the checkout, in the record, on the base branch.
Forward ==
  /\ tree.unmerged => tree.merge # 0
  /\ tree.merge # 0 => tree.head.base < tree.merge
  /\ rec.head.base <= tree.head.base
  /\ rec.pending => rec.based
  /\ owed <= base
  /\ job.kind = "recovery" => job.fetched <= base
  /\ (job.kind = "session" /\ job.at = "confirm") =>
       gh = tree.head /\ (rec.pending => owed <= gh.base)

\* From its check on, a recovery works on the recorded head.
OnRecordedHead ==
  job.kind = "recovery" =>
    /\ job.expected = rec.head
    /\ job.resuming => job.at # "local"
    /\ ~job.resuming =>
         /\ job.at = "local" => job.whead = rec.head
         /\ job.at \in {"fetch", "intent", "merge"} => tree.head = rec.head
    /\ (job.resuming /\ job.at = "merge") =>
         tree.merge # 0 \/ job.fetched <= tree.head.base \/ tree.head = rec.head

IInv == TypeOK /\ Accounts /\ Forward /\ OnRecordedHead /\ ConflictIsTold /\ RecoveredIsContained

LEMMA JobShapes ==
  ASSUME TypeOK
  PROVE  /\ job.kind = "recovery" => job \in RecoveryJobs
         /\ job.kind = "session" => job \in SessionJobs
  BY DEF TypeOK, Jobs, RecoveryJobs, SessionJobs

LEMMA TypesStart == Init => TypeOK
  BY DEF Init, TypeOK, States, Commit, Base, Jobs, Idle, Loops, AtRest

LEMMA TypesStep == TypeOK /\ [Next]_vars => TypeOK'
<1> SUFFICES ASSUME TypeOK, [Next]_vars PROVE TypeOK'
  OBVIOUS
<1> USE DEF TypeOK, Commit, Base, github, ghosts
<1>s. "blocked" \in States /\ "failed" \in States /\ "cancelled" \in States
      /\ "completed" \in States
  BY DEF States, TerminalStates
<1>t. /\ {"reproducing", "waiting_for_deployment", "testing_deployment",
          "waiting_for_review"} \subseteq States
  BY DEF States
<1>i. Idle \in Jobs /\ [kind |-> "dead"] \in Jobs
  BY DEF Jobs, Idle
<1>l. AtRest \in Loops /\ Failed \in Loops
  BY DEF Loops, AtRest, Failed
<1>x. ASSUME Raised PROVE job' \in Jobs /\ loop' \in Loops
  BY <1>x, <1>i, <1>l DEF Raised
<1>r. RecoveryJobs \subseteq Jobs /\ SessionJobs \subseteq Jobs
  BY DEF Jobs, RecoveryJobs, SessionJobs
<1>j. /\ job.kind = "recovery" => job \in RecoveryJobs
      /\ job.kind = "session" => job \in SessionJobs
  BY JobShapes
<1>b. ASSUME BlockedFor
      PROVE  /\ job' \in Jobs /\ loop' \in Loops
             /\ rec' \in [state : States, tries : 0..MaxTries, pending : BOOLEAN,
                          merging : BOOLEAN, based : BOOLEAN, head : Commit]
  BY <1>b, <1>i, <1>s, <1>x DEF BlockedFor
<1>e. ASSUME Ends
      PROVE  /\ job' \in Jobs
             /\ rec' \in [state : States, tries : 0..MaxTries, pending : BOOLEAN,
                          merging : BOOLEAN, based : BOOLEAN, head : Commit]
  BY <1>e, <1>i, <1>s DEF Ends
<1>m. ASSUME NEW b \in Base, UpToDate(b) \/ MergeCommits(b) \/ MergeConflicts(b)
      PROVE  /\ tree' \in [exists : BOOLEAN, head : Commit, merge : Base, unmerged : BOOLEAN]
             /\ made' \in 1..Commits
  <2>1. CASE UpToDate(b)
    BY <2>1 DEF UpToDate
  <2>2. CASE MergeCommits(b)
    <3>1. made + 1 \in 1..Commits /\ b \in 1..Bases
      BY <2>2 DEF MergeCommits
    <3>2. [n |-> made + 1, base |-> b] \in Commit
      BY <3>1
    <3> QED
      BY <2>2, <3>1, <3>2 DEF MergeCommits
  <2>3. CASE MergeConflicts(b)
    BY <2>3 DEF MergeConflicts
  <2> QED
    BY <1>m, <2>1, <2>2, <2>3
<1>c. ASSUME AllCommitted
      PROVE  /\ tree' \in [exists : BOOLEAN, head : Commit, merge : Base, unmerged : BOOLEAN]
             /\ made' \in 1..Commits
  <2>1. made + 1 \in 1..Commits
    BY <1>c DEF AllCommitted
  <2>2. tree.merge = 0 \/ tree.merge \in 1..Bases
    OBVIOUS
  <2>3. Committed \in Commit
    BY <2>1, <2>2 DEF Committed
  <2>4. tree' = [exists |-> tree.exists, head |-> Committed, merge |-> 0, unmerged |-> FALSE]
    BY <1>c DEF AllCommitted
  <2> QED
    <3> HIDE DEF Commit
    <3>1. made' = made + 1
      BY <1>c DEF AllCommitted
    <3> QED
      BY <2>1, <2>3, <2>4, <3>1
<1>1. CASE BaseMoves
  BY <1>1 DEF BaseMoves
<1>2. CASE GitHubReports
  BY <1>2 DEF GitHubReports
<1>k. ASSUME NEW h \in Commit
      PROVE  [at |-> "handles", head |-> h] \in Loops
  BY <1>k DEF Loops
<1>u. ASSUME NEW h \in Commit, NEW caller \in Callers,
             RecoveryStarts(h, caller) \/ RecoveryExhausted(h)
      PROVE  /\ job' \in Jobs
             /\ rec' \in [state : States, tries : 0..MaxTries, pending : BOOLEAN,
                          merging : BOOLEAN, based : BOOLEAN, head : Commit]
  <2>1. CASE RecoveryStarts(h, caller)
    <3>1. job' \in RecoveryJobs
      BY <2>1 DEF RecoveryStarts, RecoveryJobs, Resuming, Charge, Affordable
    <3> QED
      BY <2>1, <3>1, <1>r DEF RecoveryStarts
  <2>2. CASE RecoveryExhausted(h)
    BY <2>2, <1>s DEF RecoveryExhausted
  <2> QED
    BY <1>u, <2>1, <2>2
<1>3. CASE RecoverLists \/ LoopPolls
  <2> HIDE DEF Commit
  <2>1. rec.head \in Commit /\ gh \in Commit
    OBVIOUS
  <2> QED
    BY <1>3, <2>1, <1>k DEF RecoverLists, LoopPolls
<1>4. ASSUME NEW h \in deliveries, WebhookArrives(h) PROVE TypeOK'
  <2>1. h \in Commit /\ "webhook" \in Callers
    BY DEF Callers
  <2> HIDE DEF Commit
  <2> QED
    BY <1>4, <2>1, <1>u DEF WebhookArrives
<1>5. CASE LoopHandles
  <2>1. loop.head \in Commit /\ "loop" \in Callers
    BY <1>5 DEF LoopHandles, Loops, Callers
  <2> HIDE DEF Commit
  <2> QED
    BY <1>5, <2>1, <1>l, <1>u DEF LoopHandles
<1>27. CASE LoopFails
  BY <1>27, <1>i, <1>l DEF LoopFails
<1>6. CASE LocalHead
  <2>1. job' \in Jobs
    BY <1>6, <1>i, <1>j, <1>r DEF LocalHead, Recovers, Goes, RecoveryJobs
  <2> QED
    BY <1>6, <2>1 DEF LocalHead
<1>7. CASE Fetch
  <2>1. CASE BlockedFor
    BY <1>7, <2>1, <1>b DEF Fetch
  <2>2. CASE job' = [job EXCEPT !.at = "intent", !.fetched = base] /\ UNCHANGED <<rec, loop>>
    <3>1. job' \in RecoveryJobs
      <4>1. job \in RecoveryJobs /\ base \in Base
        BY <1>7, <1>j DEF Fetch, Recovers
      <4> QED
        BY <2>2, <4>1 DEF RecoveryJobs
    <3> QED
      BY <1>7, <2>2, <3>1, <1>r DEF Fetch
  <2> QED
    BY <1>7, <2>1, <2>2 DEF Fetch
<1>8. CASE Intent
  <2>1. CASE Mismatch
    BY <1>8, <2>1, <1>b DEF Intent
  <2>2. CASE ~Mismatch
    <3>1. job' \in RecoveryJobs /\ job.tries \in 0..MaxTries
      BY <1>8, <2>2, <1>j DEF Intent, Recovers, Goes, RecoveryJobs
    <3> QED
      BY <1>8, <2>2, <3>1, <1>r DEF Intent
  <2> QED
    BY <2>1, <2>2
<1>9. CASE Merge
  <2>1. PICK failed \in BOOLEAN :
          /\ IF failed THEN Refused ELSE Merged
          /\ job' = [job EXCEPT !.at = "final", !.failed = failed]
    BY <1>9 DEF Merge
  <2>2. job' \in RecoveryJobs /\ job.fetched \in Base
    BY <1>9, <2>1, <1>j DEF Merge, Recovers, RecoveryJobs
  <2>3. /\ tree' \in [exists : BOOLEAN, head : Commit, merge : Base, unmerged : BOOLEAN]
        /\ made' \in 1..Commits
    BY <2>1, <2>2, <1>m DEF Merged, Refused
  <2> QED
    BY <1>9, <2>2, <2>3, <1>r DEF Merge
<1>10. CASE Final
  <2>1. CASE job.failed /\ ~tree.unmerged
    BY <1>10, <2>1, <1>b DEF Final
  <2>2. CASE ~(job.failed /\ ~tree.unmerged)
    <3>1. job.fetched \in Base /\ job.tries \in 0..MaxTries
      BY <1>10, <1>j DEF Final, Recovers, RecoveryJobs
    <3> QED
      <4>1. CASE Open(rec.state)
        <5>1. rec' = [state |-> "reproducing", tries |-> job.tries, pending |-> TRUE,
                      merging |-> FALSE, based |-> TRUE, head |-> rec.head]
          BY <1>10, <2>2, <4>1 DEF Final
        <5> QED
          BY <1>10, <2>2, <4>1, <3>1, <5>1, <1>i, <1>t DEF Final
      <4>2. CASE ~Open(rec.state)
        BY <1>10, <2>2, <4>2, <1>x DEF Final
      <4> QED
        BY <4>1, <4>2
  <2> QED
    BY <2>1, <2>2
<1>11. CASE RecoveryRaises
  BY <1>11, <1>x DEF RecoveryRaises
<1>12. CASE SessionStarts
  <2>1. job' \in SessionJobs
    BY <1>12 DEF SessionStarts, SessionJobs
  <2> QED
    BY <1>12, <2>1, <1>r DEF SessionStarts
<1>13. CASE Refresh
  <2>1. job' \in SessionJobs
    BY <1>13, <1>j DEF Refresh, Works, Goes, SessionJobs
  <2> QED
    BY <1>13, <2>1, <1>r, <1>m DEF Refresh
<1>14. CASE RefreshConflicts
  BY <1>14, <1>m, <1>e DEF RefreshConflicts
<1>15. CASE SessionEnds
  BY <1>15, <1>e DEF SessionEnds
<1>16. CASE AgentActs
  <2>1. /\ tree' \in [exists : BOOLEAN, head : Commit, merge : Base, unmerged : BOOLEAN]
        /\ made' \in 1..Commits
    <3>1. CASE AllCommitted
      BY <3>1, <1>c
    <3>2. CASE MergeCommits(base)
      BY <3>2, <1>m
    <3>3. CASE UNCHANGED made /\ ~AllCommitted /\ ~MergeCommits(base)
      <4>1. \E m \in Base, u \in BOOLEAN :
              tree' = [exists |-> tree.exists, head |-> tree.head, merge |-> m, unmerged |-> u]
        <5>1. CASE tree' = [tree EXCEPT !.unmerged = FALSE]
          BY <5>1
        <5>2. CASE tree' = [tree EXCEPT !.merge = 0, !.unmerged = FALSE]
          <6>1. tree' = [exists |-> tree.exists, head |-> tree.head, merge |-> 0, unmerged |-> FALSE]
            BY <5>2
          <6>2. 0 \in Base /\ FALSE \in BOOLEAN
            OBVIOUS
          <6> QED
            BY <6>1, <6>2
        <5>3. \/ tree' = [tree EXCEPT !.unmerged = FALSE]
              \/ tree' = [tree EXCEPT !.merge = 0, !.unmerged = FALSE]
          BY <1>16, <3>3 DEF AgentActs
        <5> QED
          BY <5>1, <5>2, <5>3
      <4> QED
        BY <3>3, <4>1
    <3> QED
      BY <1>16, <3>1, <3>2, <3>3 DEF AgentActs
  <2> QED
    BY <1>16, <2>1 DEF AgentActs
<1>17. CASE AgentReopens
  BY <1>17, <1>t DEF AgentReopens
<1>18. CASE Push
  <2>1. /\ tree' \in [exists : BOOLEAN, head : Commit, merge : Base, unmerged : BOOLEAN]
        /\ made' \in 1..Commits
    BY <1>18, <1>c DEF Push
  <2>2. job' \in Jobs
    BY <1>18, <1>j, <1>r DEF Push, Works, Goes, SessionJobs
  <2> QED
    BY <1>18, <2>1, <2>2 DEF Push
<1>19. CASE Confirm
  <2>1. job' \in Jobs
    BY <1>19, <1>j, <1>r DEF Confirm, Goes, SessionJobs
  <2> QED
    BY <1>19, <2>1, <1>t DEF Confirm, Published
<1>20. CASE Verified
  BY <1>20, <1>s, <1>t DEF Verified
<1>21. CASE DeploymentArrives
  BY <1>21, <1>t DEF DeploymentArrives
<1>22. CASE Cancel
  BY <1>22, <1>s DEF Cancel
<1>23. CASE PullRequestMerged
  BY <1>23, <1>s DEF PullRequestMerged
<1>24. CASE Crash \/ Restart
  BY <1>24, <1>i, <1>l DEF Crash, Restart, Dies
<1>25. CASE LeaseExpires
  BY <1>25, <1>i DEF LeaseExpires
<1>26. CASE UNCHANGED vars
  BY <1>26 DEF vars
<1> QED
  BY <1>1, <1>2, <1>3, <1>4, <1>5, <1>6, <1>7, <1>8, <1>9, <1>10, <1>11, <1>12,
     <1>13, <1>14, <1>15, <1>16, <1>17, <1>18, <1>19, <1>20, <1>21, <1>22, <1>23,
     <1>24, <1>25, <1>26, <1>27 DEF Next, Recovery, Session

LEMMA InitIInv == Init => IInv
<1> SUFFICES ASSUME Init PROVE IInv
  OBVIOUS
<1>1. TypeOK
  BY TypesStart
<1> QED
  BY <1>1 DEF Init, IInv, Accounts, Forward, OnRecordedHead, ConflictIsTold,
              RecoveredIsContained, Idle

LEMMA StepIInv == IInv /\ [Next]_vars => IInv'
<1> SUFFICES ASSUME IInv, [Next]_vars PROVE IInv'
  OBVIOUS
<1>t. TypeOK'
  BY TypesStep DEF IInv
<1>n. /\ rec.tries \in Nat /\ done \in Nat /\ owed \in Nat /\ base \in Nat
      /\ tree.merge \in Nat /\ tree.head.base \in Nat /\ tree.head.n \in Nat
      /\ rec.head.base \in Nat /\ gh.base \in Nat /\ made \in Nat
      /\ rec.merging \in BOOLEAN /\ rec.pending \in BOOLEAN /\ rec.based \in BOOLEAN
      /\ tree.unmerged \in BOOLEAN
  BY DEF IInv, TypeOK, Commit, Base
<1>j. /\ job.kind = "recovery" => job \in RecoveryJobs
      /\ job.kind = "session" => job \in SessionJobs
      /\ job.kind = "recovery" => job.fetched \in Nat /\ job.tries \in Nat
  BY JobShapes DEF IInv, RecoveryJobs, Base
<1> USE DEF github, ghosts
<1>g. ASSUME NEW x, job \in RecoveryJobs, Goes(x)
      PROVE  /\ job'.kind = "recovery" /\ job'.at = x /\ job'.resuming = job.resuming
             /\ job'.whead = job.whead /\ job'.expected = job.expected
             /\ job'.tries = job.tries /\ job'.fetched = job.fetched
             /\ job'.failed = job.failed
  BY <1>g DEF Goes, RecoveryJobs
<1>h. ASSUME NEW x, job \in SessionJobs, Goes(x)
      PROVE  job'.kind = "session" /\ job'.at = x /\ job'.told = job.told
  BY <1>h DEF Goes, SessionJobs
<1>c. ASSUME AllCommitted
      PROVE  /\ tree'.merge = 0 /\ ~tree'.unmerged
             /\ tree'.head.base = IF tree.merge = 0 THEN tree.head.base ELSE tree.merge
  BY <1>c DEF AllCommitted, Committed, IInv, TypeOK
<1>m. ASSUME NEW b, MergeCommits(b)
      PROVE  /\ tree'.merge = tree.merge /\ tree'.unmerged = tree.unmerged
             /\ tree'.head.base = b /\ tree.head.base < b
  BY <1>m DEF MergeCommits, IInv, TypeOK
<1>f. ASSUME NEW b, MergeConflicts(b)
      PROVE  /\ tree'.merge = b /\ tree'.unmerged = TRUE
             /\ tree'.head = tree.head /\ tree.head.base < b
  BY <1>f DEF MergeConflicts, IInv, TypeOK
<1> DEFINE Parts == Accounts /\ Forward /\ OnRecordedHead /\ ConflictIsTold
                    /\ RecoveredIsContained
<1>p. Parts
  BY DEF IInv
<1>a. SUFFICES Parts'
  BY <1>t DEF IInv
<1>b. ASSUME BlockedFor, UNCHANGED <<tree, base, gh, done, owed>>
      PROVE  Parts'
  <2>1. job'.kind = "none"
    BY <1>b DEF BlockedFor, Raised, Idle
  <2>2. /\ rec'.pending = rec.pending /\ rec'.based = rec.based
        /\ rec'.tries = rec.tries /\ rec'.head = rec.head
        /\ rec'.merging => rec.merging
    <3>1. CASE Open(rec.state)
      BY <1>b, <3>1 DEF BlockedFor, IInv, TypeOK
    <3>2. CASE ~Open(rec.state)
      BY <1>b, <3>2 DEF BlockedFor
    <3> QED
      BY <3>1, <3>2
  <2>3. done' = done /\ owed' = owed /\ base' = base /\ tree' = tree
    BY <1>b
  <2>4. Accounts'
    <3>1. done + (IF rec.merging THEN 1 ELSE 0) <= rec.tries
      BY <1>p DEF Accounts
    <3> QED
      BY <2>1, <2>2, <2>3, <3>1, <1>n DEF Accounts
  <2>5. (Forward /\ OnRecordedHead /\ ConflictIsTold /\ RecoveredIsContained)'
    BY <2>1, <2>2, <2>3, <1>p DEF Forward, OnRecordedHead, ConflictIsTold,
       RecoveredIsContained
  <2> QED
    BY <2>4, <2>5
<1>1. CASE BaseMoves
  BY <1>1, <1>p, <1>n, <1>j DEF BaseMoves, Accounts, Forward, OnRecordedHead,
     ConflictIsTold, RecoveredIsContained
<1>2. CASE GitHubReports
  BY <1>2, <1>p, <1>n, <1>j DEF GitHubReports, Accounts, Forward, OnRecordedHead,
     ConflictIsTold, RecoveredIsContained
<1>3. CASE RecoverLists \/ LoopPolls
  BY <1>3, <1>p, <1>n, <1>j DEF RecoverLists, LoopPolls, Accounts, Forward, OnRecordedHead,
     ConflictIsTold, RecoveredIsContained
<1>u. ASSUME NEW h, NEW caller, RecoveryStarts(h, caller), UNCHANGED <<tree, base, gh, done, owed>>
      PROVE  Parts'
  BY <1>u, <1>p, <1>n, <1>j DEF RecoveryStarts, Accepts, Resuming, Charge, Affordable, Accounts,
     Forward, OnRecordedHead, ConflictIsTold, RecoveredIsContained
<1>v. ASSUME NEW h, RecoveryExhausted(h), UNCHANGED <<tree, base, gh, done, owed>>
      PROVE  Parts'
  BY <1>v, <1>p, <1>n, <1>j DEF RecoveryExhausted, Accepts, Free, Accounts, Forward, OnRecordedHead,
     ConflictIsTold, RecoveredIsContained
<1>4. ASSUME NEW h \in deliveries, WebhookArrives(h) PROVE Parts'
  BY <1>4, <1>u, <1>v DEF WebhookArrives
<1>5. CASE LoopHandles
  <2>1. CASE ~Accepts(loop.head) /\ UNCHANGED <<rec, job>>
    BY <1>5, <2>1, <1>p DEF LoopHandles, Accounts, Forward, OnRecordedHead, ConflictIsTold,
       RecoveredIsContained
  <2> QED
    BY <1>5, <2>1, <1>u, <1>v DEF LoopHandles
<1>27. CASE LoopFails
  BY <1>27, <1>p, <1>n, <1>j DEF LoopFails, Idle, Accounts, Forward, OnRecordedHead,
     ConflictIsTold, RecoveredIsContained
<1>6. CASE LocalHead
  BY <1>6, <1>p, <1>n, <1>j DEF LocalHead, Recovers, Goes, IsStale, Idle, RecoveryJobs, Accounts, Forward, OnRecordedHead,
     ConflictIsTold, RecoveredIsContained
<1>7. CASE Fetch
  <2>1. CASE BlockedFor
    BY <1>7, <2>1, <1>b DEF Fetch
  <2>2. CASE job' = [job EXCEPT !.at = "intent", !.fetched = base] /\ UNCHANGED <<rec, loop>>
    <3>1. job.kind = "recovery" /\ job.at = "fetch" /\ job \in RecoveryJobs
      BY <1>7, <1>j DEF Fetch, Recovers
    <3>2. /\ job'.kind = "recovery" /\ job'.at = "intent" /\ job'.resuming = job.resuming
          /\ job'.whead = job.whead /\ job'.expected = job.expected
          /\ job'.tries = job.tries /\ job'.fetched = base
      BY <2>2, <3>1 DEF RecoveryJobs
    <3> QED
      BY <1>7, <2>2, <3>1, <3>2, <1>p, <1>n DEF Fetch, Accounts, Forward, OnRecordedHead,
         ConflictIsTold, RecoveredIsContained
  <2> QED
    BY <1>7, <2>1, <2>2 DEF Fetch
<1>8. CASE Intent
  <2>1. CASE Mismatch
    BY <1>8, <2>1, <1>b DEF Intent
  <2>2. CASE ~Mismatch
    <3>1. job.kind = "recovery" /\ job.at = "intent" /\ job \in RecoveryJobs
      BY <1>8, <1>j DEF Intent, Recovers
    <3>2. /\ rec'.merging /\ rec'.based /\ rec'.tries = job.tries
          /\ rec'.pending = rec.pending /\ rec'.head = rec.head
      BY <1>8, <2>2 DEF Intent, IInv, TypeOK
    <3>3. Goes("merge")
      BY <1>8, <2>2 DEF Intent
    <3>4. OnRecordedHead'
      BY <1>8, <2>2, <3>1, <3>2, <3>3, <1>g, <1>p, <1>n, <1>j
         DEF Intent, Mismatch, OnRecordedHead
    <3>5. Accounts'
      <4>1. /\ job'.kind = "recovery" /\ job'.at = "merge" /\ job'.tries = job.tries
            /\ done' = done
        BY <1>8, <3>1, <3>3, <1>g DEF Intent
      <4>2. /\ done + (IF rec.merging THEN 1 ELSE 0) <= rec.tries /\ ~rec.pending
            /\ job.tries = IF rec.merging THEN rec.tries ELSE rec.tries + 1
        BY <3>1, <1>p DEF Accounts
      <4>3. done + 1 <= job.tries
        BY <4>2, <1>n
      <4> QED
        BY <4>1, <4>2, <4>3, <3>2 DEF Accounts
    <3>6. (Forward /\ ConflictIsTold /\ RecoveredIsContained)'
      BY <1>8, <3>1, <3>2, <3>3, <1>g, <1>p DEF Intent, Forward, ConflictIsTold,
         RecoveredIsContained
    <3> QED
      BY <3>4, <3>5, <3>6
  <2> QED
    BY <2>1, <2>2
<1>9. CASE Merge
  <2>1. job.kind = "recovery" /\ job.at = "merge" /\ job \in RecoveryJobs
    BY <1>9, <1>j DEF Merge, Recovers
  <2>2. /\ job'.kind = "recovery" /\ job'.at = "final" /\ job'.resuming = job.resuming
        /\ job'.expected = job.expected /\ job'.tries = job.tries
        /\ job'.fetched = job.fetched
    BY <1>9, <2>1 DEF Merge, RecoveryJobs
  <2>3. (Accounts /\ OnRecordedHead /\ ConflictIsTold /\ RecoveredIsContained)'
    BY <1>9, <2>1, <2>2, <1>p, <1>n DEF Merge, Accounts, OnRecordedHead, ConflictIsTold,
       RecoveredIsContained
  <2>4. \/ UNCHANGED tree
        \/ tree.merge = 0 /\ (MergeCommits(job.fetched) \/ MergeConflicts(job.fetched))
    BY <1>9 DEF Merge, Merged, Refused, UpToDate
  <2>5. Forward'
    <3>1. CASE UNCHANGED tree
      BY <1>9, <2>1, <2>2, <3>1, <1>p DEF Merge, Forward
    <3>2. CASE tree.merge = 0 /\ MergeCommits(job.fetched)
      BY <1>9, <2>1, <2>2, <3>2, <1>m, <1>p, <1>n, <1>j DEF Merge, Forward
    <3>3. CASE tree.merge = 0 /\ MergeConflicts(job.fetched)
      <4>1. /\ tree'.merge = job.fetched /\ tree'.head = tree.head
            /\ tree.head.base < job.fetched
        BY <3>3, <1>f
      <4>2. job.fetched \in Nat /\ job.fetched # 0
        BY <4>1, <2>1, <1>j, <1>n
      <4>3. /\ rec' = rec /\ base' = base /\ owed' = owed
        BY <1>9 DEF Merge
      <4> QED
        BY <2>1, <2>2, <4>1, <4>2, <4>3, <1>p DEF Forward
    <3> QED
      BY <2>4, <3>1, <3>2, <3>3
  <2> QED
    BY <2>3, <2>5
<1>10. CASE Final
  <2>1. job.kind = "recovery" /\ job.at = "final" /\ job \in RecoveryJobs
    BY <1>10, <1>j DEF Final, Recovers
  <2>2. CASE job.failed /\ ~tree.unmerged
    BY <1>10, <2>2, <1>b DEF Final
  <2>3. CASE ~(job.failed /\ ~tree.unmerged) /\ Open(rec.state)
    <3>1. /\ rec'.pending /\ rec'.based /\ ~rec'.merging /\ rec'.tries = job.tries
          /\ rec'.head = rec.head
      BY <1>10, <2>3 DEF Final, IInv, TypeOK
    <3>2. job' = Idle /\ done' = done + 1 /\ owed' = job.fetched
      BY <1>10, <2>3 DEF Final
    <3> QED
      BY <1>10, <2>1, <3>1, <3>2, <1>p, <1>n, <1>j DEF Final, Idle, Accounts, Forward,
         OnRecordedHead, ConflictIsTold, RecoveredIsContained
  <2>4. CASE ~(job.failed /\ ~tree.unmerged) /\ ~Open(rec.state)
    BY <1>10, <2>4, <1>p DEF Final, Raised, Idle, Accounts, Forward, OnRecordedHead,
       ConflictIsTold, RecoveredIsContained
  <2> QED
    BY <2>2, <2>3, <2>4
<1>11. CASE RecoveryRaises
  BY <1>11, <1>p, <1>n, <1>j DEF RecoveryRaises, Raised, Idle, Accounts, Forward, OnRecordedHead,
     ConflictIsTold, RecoveredIsContained
<1>12. CASE SessionStarts
  BY <1>12, <1>p, <1>n, <1>j DEF SessionStarts, Accounts, Forward, OnRecordedHead,
     ConflictIsTold, RecoveredIsContained
<1>13. CASE Refresh
  <2>1. job.kind = "session" /\ job.at = "refresh" /\ job \in SessionJobs
    BY <1>13, <1>j DEF Refresh, Works
  <2>2. job'.kind = "session" /\ job'.at = "agent" /\ job'.told = job.told
    BY <1>13, <2>1, <1>h DEF Refresh
  <2>3. UNCHANGED tree \/ (tree.merge = 0 /\ MergeCommits(base))
    BY <1>13 DEF Refresh, UpToDate, Refreshable
  <2>4. tree.merge = 0
    BY <1>13 DEF Refresh, Refreshable
  <2>5. CASE UNCHANGED tree
    BY <1>13, <2>2, <2>4, <2>5, <1>p DEF Refresh, Accounts, Forward, OnRecordedHead,
       ConflictIsTold, RecoveredIsContained
  <2>6. CASE MergeCommits(base)
    BY <1>13, <2>2, <2>4, <2>6, <1>m, <1>p, <1>n DEF Refresh, Accounts, Forward,
       OnRecordedHead, ConflictIsTold, RecoveredIsContained
  <2> QED
    BY <2>3, <2>5, <2>6
<1>14. CASE RefreshConflicts
  BY <1>14, <1>p, <1>n, <1>j DEF RefreshConflicts, Works, MergeConflicts, Ends, Idle, Accounts, Forward, OnRecordedHead,
     ConflictIsTold, RecoveredIsContained
<1>15. CASE SessionEnds
  BY <1>15, <1>p, <1>n, <1>j DEF SessionEnds, Ends, Idle, Accounts, Forward, OnRecordedHead,
     ConflictIsTold, RecoveredIsContained
<1>16. CASE AgentActs
  <2>1. job.kind = "session" /\ job.at = "agent"
    BY <1>16 DEF AgentActs, Works
  <2>2. /\ rec.head.base <= tree'.head.base
        /\ tree'.unmerged => tree'.merge # 0 /\ tree.unmerged
        /\ tree'.merge # 0 => tree'.head.base < tree'.merge
    <3>1. CASE AllCommitted
      BY <3>1, <1>c, <1>p, <1>n DEF Forward
    <3>2. CASE tree.merge = 0 /\ MergeCommits(base)
      BY <3>2, <1>m, <1>p, <1>n DEF Forward
    <3>3. CASE tree' = [tree EXCEPT !.unmerged = FALSE]
      BY <3>3, <1>p, <1>n DEF Forward, IInv, TypeOK
    <3>4. CASE tree' = [tree EXCEPT !.merge = 0, !.unmerged = FALSE]
      BY <3>4, <1>p, <1>n DEF Forward, IInv, TypeOK
    <3>5. \/ AllCommitted \/ (tree.merge = 0 /\ MergeCommits(base))
          \/ tree' = [tree EXCEPT !.unmerged = FALSE]
          \/ tree' = [tree EXCEPT !.merge = 0, !.unmerged = FALSE]
      BY <1>16 DEF AgentActs
    <3> QED
      BY <3>1, <3>2, <3>3, <3>4, <3>5
  <2> QED
    BY <1>16, <2>1, <2>2, <1>p DEF AgentActs, Accounts, Forward, OnRecordedHead,
       ConflictIsTold, RecoveredIsContained
<1>17. CASE AgentReopens
  BY <1>17, <1>p, <1>n, <1>j DEF AgentReopens, Works, Accounts, Forward, OnRecordedHead,
     ConflictIsTold, RecoveredIsContained
<1>18. CASE Push
  <2>1. job.kind = "session" /\ job.at = "agent" /\ job \in SessionJobs
    BY <1>18, <1>j DEF Push, Works
  <2>2. /\ tree'.merge = 0 /\ ~tree'.unmerged
        /\ rec.head.base <= tree'.head.base
    BY <1>18, <1>c, <1>p, <1>n DEF Push, Forward
  <2>3. CASE Pushable(tree'.head)
    <3>1. gh' = tree'.head /\ Goes("confirm")
      BY <1>18, <2>3 DEF Push
    <3>2. job'.kind = "session" /\ job'.at = "confirm" /\ job'.told = job.told
      BY <2>1, <3>1, <1>h
    <3>3. rec.pending => owed <= gh'.base
      BY <2>3, <3>1, <1>p, <1>n, <1>t DEF Pushable, Forward, TypeOK, Commit
    <3> QED
      BY <1>18, <2>2, <3>1, <3>2, <3>3, <1>p DEF Push, Accounts, Forward, OnRecordedHead,
         ConflictIsTold, RecoveredIsContained
  <2>4. CASE ~Pushable(tree'.head)
    BY <1>18, <2>1, <2>2, <2>4, <1>p DEF Push, Accounts, Forward, OnRecordedHead,
       ConflictIsTold, RecoveredIsContained
  <2> QED
    BY <2>3, <2>4
<1>19. CASE Confirm
  <2>1. job.kind = "session" /\ job.at = "confirm" /\ job \in SessionJobs
    BY <1>19, <1>j DEF Confirm
  <2>2. job'.kind = "session" /\ job'.at = "agent" /\ job'.told = job.told
    BY <1>19, <2>1, <1>h DEF Confirm
  <2>3. CASE UNCHANGED rec
    BY <1>19, <2>1, <2>2, <2>3, <1>p DEF Confirm, Accounts, Forward, OnRecordedHead,
       ConflictIsTold, RecoveredIsContained
  <2>4. CASE rec' = Published(rec)
    <3>1. /\ ~rec'.pending /\ ~rec'.merging /\ rec'.tries = rec.tries /\ rec'.head = gh
      BY <2>4 DEF Published, IInv, TypeOK
    <3>2. gh = tree.head /\ owed <= gh.base
      BY <2>1, <1>p, <1>n DEF Forward, RecoveredIsContained
    <3> QED
      BY <1>19, <2>1, <2>2, <3>1, <3>2, <1>p, <1>n DEF Confirm, Accounts, Forward,
         OnRecordedHead, ConflictIsTold, RecoveredIsContained
  <2> QED
    BY <1>19, <2>3, <2>4 DEF Confirm
<1>20. CASE Verified
  BY <1>20, <1>p, <1>n, <1>j DEF Verified, Free, Accounts, Forward, OnRecordedHead,
     ConflictIsTold, RecoveredIsContained
<1>21. CASE DeploymentArrives
  BY <1>21, <1>p, <1>n, <1>j DEF DeploymentArrives, Accounts, Forward, OnRecordedHead,
     ConflictIsTold, RecoveredIsContained
<1>22. CASE Cancel
  BY <1>22, <1>p, <1>n, <1>j DEF Cancel, Accounts, Forward, OnRecordedHead,
     ConflictIsTold, RecoveredIsContained
<1>23. CASE PullRequestMerged
  BY <1>23, <1>p, <1>n, <1>j DEF PullRequestMerged, Accounts, Forward, OnRecordedHead,
     ConflictIsTold, RecoveredIsContained
<1>24. CASE Crash \/ Restart
  BY <1>24, <1>p, <1>n, <1>j DEF Crash, Restart, Dies, Accounts, Forward, OnRecordedHead,
     ConflictIsTold, RecoveredIsContained
<1>25. CASE LeaseExpires
  BY <1>25, <1>p, <1>n, <1>j DEF LeaseExpires, Idle, Accounts, Forward, OnRecordedHead,
     ConflictIsTold, RecoveredIsContained
<1>26. CASE UNCHANGED vars
  BY <1>26, <1>p DEF vars, Accounts, Forward, OnRecordedHead, ConflictIsTold,
     RecoveredIsContained
<1> QED
  BY <1>1, <1>2, <1>3, <1>4, <1>5, <1>6, <1>7, <1>8, <1>9, <1>10, <1>11, <1>12,
     <1>13, <1>14, <1>15, <1>16, <1>17, <1>18, <1>19, <1>20, <1>21, <1>22, <1>23,
     <1>24, <1>25, <1>26, <1>27 DEF Next, Recovery, Session

-----------------------------------------------------------------------------
\* The record, the checkout, the pull request and the lease holder stay
\* consistent whatever sessions, crashes and operators do in between.
THEOREM ConflictInvariant == Spec => []IInv
<1>1. Init => IInv
  BY InitIInv
<1>2. IInv /\ [Next]_vars => IInv'
  BY StepIInv
<1> QED
  BY <1>1, <1>2, PTL DEF Spec

\* Every variable keeps its type: in particular the recovery attempts stay
\* within max_task_iterations.
THEOREM ConflictTypes == Spec => []TypeOK
<1>1. IInv => TypeOK
  BY DEF IInv
<1> QED
  BY <1>1, ConflictInvariant, PTL

\* The agent is never woken in a checkout with an unresolved merge that no
\* recovery has told it about.
THEOREM ConflictTold == Spec => []ConflictIsTold
<1>1. IInv => ConflictIsTold
  BY DEF IInv
<1> QED
  BY <1>1, ConflictInvariant, PTL

\* A task whose recovery is over has published the base that was merged.
THEOREM RecoveredContained == Spec => []RecoveredIsContained
<1>1. IInv => RecoveredIsContained
  BY DEF IInv
<1> QED
  BY <1>1, ConflictInvariant, PTL

\* Every recovery handed to the agent was charged before it began.
THEOREM RecoveriesAreCharged == Spec => []RecoveriesCharged
<1>1. IInv => RecoveriesCharged
  <2> SUFFICES ASSUME IInv PROVE RecoveriesCharged
    OBVIOUS
  <2>1. rec.tries \in Nat /\ done \in Nat
    BY DEF IInv, TypeOK
  <2>2. done + (IF rec.merging THEN 1 ELSE 0) <= rec.tries
    BY DEF IInv, Accounts
  <2> QED
    BY <2>1, <2>2 DEF RecoveriesCharged
<1> QED
  BY <1>1, ConflictInvariant, PTL

\* A recovery changes the checkout at the recorded head only: its steps that
\* change it are merges, and a merge is reached through the checks of
\* LocalHead or of Intent.
THEOREM OnlyRecordedHeadMerged == Spec => MergesRecordedHead
<1> DEFINE Moves == <<tree.head, tree.merge>>' # <<tree.head, tree.merge>>
           AtHead == (job.kind = "recovery" /\ Moves) => tree.head = rec.head
<1>1. IInv /\ [Next]_vars => [AtHead]_vars
  <2> SUFFICES ASSUME IInv, Next, job.kind = "recovery", Moves
               PROVE  tree.head = rec.head
    BY DEF vars
  <2>1. CASE Merge
    <3>1. /\ job.at = "merge" /\ job \in RecoveryJobs
      BY <2>1, JobShapes DEF Merge, Recovers, IInv
    <3>2. job.fetched \in Nat /\ tree.head.base \in Nat /\ job.resuming \in BOOLEAN
      BY <3>1 DEF RecoveryJobs, Base, IInv, TypeOK, Commit
    <3>3. tree.merge = 0 /\ tree.head.base < job.fetched
      BY <2>1 DEF Merge, Merged, Refused, UpToDate, MergeCommits, MergeConflicts
    <3>4. /\ ~job.resuming => tree.head = rec.head
          /\ job.resuming => tree.merge # 0 \/ job.fetched <= tree.head.base
                               \/ tree.head = rec.head
      BY <3>1 DEF IInv, OnRecordedHead
    <3> QED
      BY <3>2, <3>3, <3>4
  <2>2. CASE PullRequestMerged
    BY <2>2 DEF PullRequestMerged, IInv, TypeOK
  <2>3. CASE UNCHANGED tree
    BY <2>3
  <2>4. CASE Session \/ Verified
    BY <2>4 DEF Session, Verified, Free, SessionStarts,
       Refresh, RefreshConflicts, SessionEnds, AgentActs, AgentReopens, Push, Works, Confirm
  <2> QED
    BY <2>1, <2>2, <2>3, <2>4 DEF Next, Recovery, BaseMoves, GitHubReports, RecoverLists,
       LoopPolls, LoopHandles, LoopFails, WebhookArrives, LocalHead, Fetch, Intent, Final,
       RecoveryRaises, DeploymentArrives, Cancel, Crash, Restart, Dies, LeaseExpires
<1> QED
  BY <1>1, ConflictInvariant, PTL DEF Spec, MergesRecordedHead
=============================================================================
