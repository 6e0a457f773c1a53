---------------------- MODULE ApplicationWorkflow_proofs ----------------------
(***************************************************************************)
(* Proofs about an incident of an application with several repositories,   *)
(* for any repositories, versions, comments and attempts and every         *)
(* setting: types and the retry budget, that a Playwright result stays     *)
(* with the head it is about, that the task completes only with the        *)
(* evidence for what was published, and that it waits for deployments of   *)
(* what every repository holds.                                            *)
(*                                                                         *)
(* The commits of a checkout are numbered as they are made, so what is     *)
(* published never runs ahead of the branch, and the branch never ahead    *)
(* of the checkout: most of the invariant is that order, kept by the       *)
(* records that a run holds in its memory while webhooks write.            *)
(***************************************************************************)
EXTENDS ApplicationWorkflow, TLAPS

Member ==
  [changed : BOOLEAN, pr : BOOLEAN, merged : BOOLEAN, verified : BOOLEAN,
   pr_head_sha : Nat, deployment_sha : Nat, verification_sha : Nat,
   code_review_sha : Nat, playwright : {"none", "passed"}, comments : SUBSET Comment]

Task ==
  [state : TaskStates, attempts : 0..MaxAttempts, comments : SUBSET Comment,
   member : [Repo -> Member]]

Checkout == [content : Nat, head : Nat]
Revisions == {NoRevision} \union [Repo -> Checkout \X Nat]

Jobs ==
  [at : Waits \union {"idle"}, from : {"tool", "process"}, repo : Repo \union {Nobody},
   todo : SUBSET Repo, task : Task, ok : BOOLEAN, revision : Revisions,
   seen : [Repo -> SUBSET Comment]]

\* What the record of a member may claim, given the head of its checkout, the
\* head of its branch, and the versions that passed their checks and Playwright.
MemberGood(m, r, S, head, branch, checks, deploys) ==
  /\ m \in Member
  /\ m.pr_head_sha <= head /\ m.verification_sha <= head /\ m.code_review_sha <= head
  /\ m.deployment_sha <= branch
  /\ m.deployment_sha # 0 => m.deployment_sha \in checks
  /\ m.verification_sha # 0 => m.verification_sha \in checks
  /\ m.changed \/ m.pr => m.pr_head_sha # 0
  /\ m.playwright = "passed" => m.deployment_sha \in deploys
  /\ m.playwright = "passed" /\ m.pr_head_sha = branch => m.deployment_sha = branch
  /\ ~S.review => /\ m.deployment_sha \in {0, m.pr_head_sha}
                  /\ r \notin S.local => m.pr_head_sha <= branch

Good(t, S, T, B, C, D) ==
  /\ t \in Task
  /\ t.state \notin TerminalStates => t.attempts < MaxAttempts
  /\ \A r \in Repo : MemberGood(t.member[r], r, S, T[r].head, B[r], C[r], D[r])

Sound(t) == Good(t, setting, tree, remote, checked, deployed)

\* The revisions an integration command started on.
RevisionGood(x, S, C, D) ==
  \A r \in Repo :
    LET checkout == x[r][1]  v == x[r][2] IN
    IF v = 0 THEN checkout.content = 1
    ELSE /\ checkout.content = v /\ checkout.head = v
         /\ v \in C[r]
         /\ r \notin S.local => v \in D[r]

World ==
  /\ setting \in Settings
  /\ tree \in [Repo -> Checkout]
  /\ ledger \in [Repo -> Nat] /\ remote \in [Repo -> Nat]
  /\ checked \in [Repo -> SUBSET Nat] /\ deployed \in [Repo -> SUBSET Nat]
  /\ \A r \in Repo :
       /\ 1 <= tree[r].head /\ tree[r].head <= tree[r].content
       /\ tree[r].content <= setting.versions[r]
       /\ ledger[r] <= tree[r].content \/ ledger[r] = Failed(r)
       /\ ledger[r] # 0 /\ ledger[r] <= tree[r].content => ledger[r] \in checked[r]
       /\ remote[r] <= tree[r].head /\ (remote[r] # 0 => remote[r] \in checked[r])
       /\ checked[r] \subseteq 1..tree[r].content
       /\ deployed[r] \subseteq 1..remote[r]

\* The record a run holds is about the heads that are published now.
SameHeads(t, q) == \A r \in Repo : t.member[r].pr_head_sha = q.member[r].pr_head_sha

\* While ~Review, what the publication is done with holds what was published.
PublishedSoFar(t, todo) ==
  \A r \in Changed(t) \ todo : t.member[r].pr_head_sha = tree[r].content

\* What a run waiting at one of its awaits may count on, webhooks or not.
Linked ==
  LET r == job.repo IN
  /\ job.at \in {"test", "commit", "review", "push", "pushed", "report"} => r \in Repo
  /\ job.at \in {"commit", "review"} => Review /\ SameHeads(job.task, rec)
  /\ job.at = "commit" => job.task.state \notin TerminalStates
  /\ job.at = "review" => ~Dirty(r)
  /\ job.at \in {"push", "pushed"} => ~Local(r) /\ job.task = Idle.task
  /\ job.at = "push" => /\ rec.member[r].pr_head_sha # tree[r].content
                        /\ tree[r].content \in checked[r]
  /\ job.at = "pushed" => /\ rec.member[r].pr_head_sha # tree[r].head
                          /\ remote[r] = tree[r].head /\ ~Dirty(r)
  /\ job.at \in {"publishing", "push", "pushed"} /\ ~Review => PublishedSoFar(rec, job.todo)
  /\ job.at = "sync" /\ ~Review => PublishedSoFar(rec, {})
  /\ job.at \in {"deploying", "report"} =>
       /\ SameHeads(job.task, rec)
       /\ \A q \in Repo : rec.member[q].deployment_sha \in
                            {job.task.member[q].deployment_sha, rec.member[q].pr_head_sha}
       /\ "waiting_for_deployment" \notin {rec.state, job.task.state}
  /\ job.at = "report" => (job.task.state = "completed" => rec.state = "completed")
  /\ job.at = "integrate" =>
       job.revision # NoRevision /\ RevisionGood(job.revision, setting, checked, deployed)

Hooked ==
  /\ hook \in Revisions
  /\ hook # NoRevision => RevisionGood(hook, setting, checked, deployed)

Inv ==
  /\ World /\ Sound(rec)
  /\ job \in Jobs /\ Sound(job.task)
  /\ Linked /\ Hooked
  /\ integrated \in Revisions

-----------------------------------------------------------------------------
(* What updates of a record keep.                                          *)

LEMMA GoodFields ==
  ASSUME NEW t, NEW S, NEW T, NEW B, NEW C, NEW D, Good(t, S, T, B, C, D)
  PROVE  /\ t \in Task
         /\ t.state \in TaskStates /\ t.attempts \in 0..MaxAttempts
         /\ t.comments \in SUBSET Comment
         /\ t.member \in [Repo -> Member]
         /\ \A r \in Repo : t.member[r] \in Member
         /\ t.state \notin TerminalStates => t.attempts < MaxAttempts
         /\ \A r \in Repo : MemberGood(t.member[r], r, S, T[r].head, B[r], C[r], D[r])
  BY DEF Good, Task

LEMMA MovedGood ==
  ASSUME NEW t, NEW S, NEW T, NEW B, NEW C, NEW D, Good(t, S, T, B, C, D),
         NEW s \in TaskStates, s \in TerminalStates \/ t.state \notin TerminalStates
  PROVE  /\ Good(Moved(t, s), S, T, B, C, D)
         /\ Moved(t, s).member = t.member /\ Moved(t, s).state = s
  <1>1. Moved(t, s) \in Task
    BY GoodFields DEF Moved, Task
  <1>2. /\ Moved(t, s).member = t.member /\ Moved(t, s).state = s
        /\ Moved(t, s).attempts = t.attempts
    BY GoodFields DEF Moved, Task
  <1> QED
    BY <1>1, <1>2, GoodFields DEF Good

LEMMA ChargedGood ==
  ASSUME NEW t, NEW S, NEW T, NEW B, NEW C, NEW D, Good(t, S, T, B, C, D),
         t.state \notin TerminalStates,
         NEW back \in TaskStates, NEW spent \in TerminalStates
  PROVE  /\ Good(Charged(t, back, spent), S, T, B, C, D)
         /\ Charged(t, back, spent).member = t.member
         /\ Charged(t, back, spent).state \in {back, spent}
  <1> DEFINE n == t.attempts + 1
             s == IF n >= MaxAttempts THEN spent ELSE back
             q == [t EXCEPT !.attempts = n, !.state = s]
  <1>1. t \in Task /\ t.attempts \in 0..MaxAttempts /\ t.attempts < MaxAttempts
    BY GoodFields
  <1>2. n \in 0..MaxAttempts /\ s \in TaskStates
    BY <1>1, ApplicationAssumption DEF TaskStates, TerminalStates
  <1>3. q \in Task /\ q.member = t.member /\ q.state = s /\ q.attempts = n
    BY <1>1, <1>2 DEF Task
  <1>4. q.state \notin TerminalStates => q.attempts < MaxAttempts
    BY <1>1, <1>3, ApplicationAssumption
  <1>5. Good(q, S, T, B, C, D)
    BY <1>3, <1>4, GoodFields DEF Good
  <1>6. Charged(t, back, spent) = q
    BY DEF Charged
  <1> QED
    BY <1>3, <1>5, <1>6

LEMMA HandledGood ==
  ASSUME NEW t, NEW S, NEW T, NEW B, NEW C, NEW D, Good(t, S, T, B, C, D)
  PROVE  /\ Good(Handled(t), S, T, B, C, D)
         /\ Handled(t).member = t.member
         /\ Handled(t).state \in {t.state, "failed"}
  <1>1. CASE t.state \in TerminalStates
    BY <1>1 DEF Handled
  <1>2. CASE t.state \notin TerminalStates
    <2>1. Handled(t) = Charged(t, t.state, "failed")
      BY <1>2 DEF Handled
    <2>2. "failed" \in TerminalStates /\ t.state \in TaskStates
      BY GoodFields DEF TerminalStates
    <2> QED
      BY <1>2, <2>1, <2>2, ChargedGood
  <1> QED
    BY <1>1, <1>2

\* A record with the member r replaced.
With(t, r, m) == [t EXCEPT !.member[r] = m]

LEMMA WithGood ==
  ASSUME NEW t, NEW S, NEW T, NEW B, NEW C, NEW D, Good(t, S, T, B, C, D),
         NEW r \in Repo, NEW m, MemberGood(m, r, S, T[r].head, B[r], C[r], D[r])
  PROVE  /\ Good(With(t, r, m), S, T, B, C, D)
         /\ With(t, r, m).state = t.state /\ With(t, r, m).member[r] = m
         /\ \A q \in Repo \ {r} : With(t, r, m).member[q] = t.member[q]
  <1> DEFINE u == With(t, r, m)
  <1>1. m \in Member
    BY DEF MemberGood
  <1>2. t.member \in [Repo -> Member]
    BY GoodFields DEF Task
  <1>3. u = [t EXCEPT !.member = [t.member EXCEPT ![r] = m]]
    BY DEF With
  <1> HIDE DEF u
  <1>4. [t.member EXCEPT ![r] = m] \in [Repo -> Member]
    BY <1>1, <1>2
  <1>5. /\ u \in Task /\ u.state = t.state /\ u.attempts = t.attempts
        /\ u.member = [t.member EXCEPT ![r] = m]
    BY <1>3, <1>4, GoodFields DEF Task
  <1>6. u.member[r] = m /\ \A q \in Repo \ {r} : u.member[q] = t.member[q]
    BY <1>2, <1>5
  <1>7. \A q \in Repo : MemberGood(u.member[q], q, S, T[q].head, B[q], C[q], D[q])
    BY <1>6, GoodFields
  <1>8. Good(u, S, T, B, C, D)
    BY <1>5, <1>7, GoodFields DEF Good
  <1> QED
    BY <1>5, <1>6, <1>8 DEF u

\* Heads, checks and deployments only grow, under a record that is held.
LEMMA Grown ==
  ASSUME NEW t, NEW S, NEW T, NEW B, NEW C, NEW D, NEW T2, NEW C2, NEW D2,
         Good(t, S, T, B, C, D),
         \A r \in Repo : /\ T[r].head \in Nat /\ T2[r].head \in Nat
                         /\ T[r].head <= T2[r].head
                         /\ C[r] \subseteq C2[r] /\ D[r] \subseteq D2[r]
  PROVE  Good(t, S, T2, B, C2, D2)
  <1>1. ASSUME NEW r \in Repo
        PROVE  MemberGood(t.member[r], r, S, T2[r].head, B[r], C2[r], D2[r])
    <2>1. /\ T[r].head \in Nat /\ T2[r].head \in Nat /\ T[r].head <= T2[r].head
          /\ C[r] \subseteq C2[r] /\ D[r] \subseteq D2[r]
      OBVIOUS
    <2>2. MemberGood(t.member[r], r, S, T[r].head, B[r], C[r], D[r])
      BY DEF Good
    <2>3. /\ t.member[r].pr_head_sha \in Nat /\ t.member[r].verification_sha \in Nat
          /\ t.member[r].code_review_sha \in Nat
      BY <2>2 DEF MemberGood, Member
    <2> QED
      BY <2>1, <2>2, <2>3 DEF MemberGood
  <1> QED
    BY <1>1 DEF Good

LEMMA IdleGood ==
  ASSUME NEW S, NEW T, NEW B, NEW C, NEW D, NEW s \in TaskStates,
         \A r \in Repo : T[r].head \in Nat /\ B[r] \in Nat
  PROVE  Good(Moved(Reproduced, s), S, T, B, C, D) /\ Good(Reproduced, S, T, B, C, D)
  <1>1. Reproduced \in Task /\ Reproduced.attempts = 0
        /\ Reproduced.member = [r \in Repo |-> NewMember]
    BY ApplicationAssumption DEF Reproduced, Task, NewMember, Member, TaskStates
  <1>2. ASSUME NEW r \in Repo
        PROVE  MemberGood(NewMember, r, S, T[r].head, B[r], C[r], D[r])
    BY DEF MemberGood, NewMember, Member
  <1>3. Good(Reproduced, S, T, B, C, D)
    BY <1>1, <1>2, ApplicationAssumption DEF Good
  <1>4. Reproduced.state \notin TerminalStates
    BY DEF Reproduced, TerminalStates
  <1> QED
    BY <1>3, <1>4, MovedGood

\* A terminal state is left by no edge.
LEMMA OpenBefore ==
  ASSUME NEW from, NEW to, ValidTransition(from, to, FALSE)
  PROVE  from \notin TerminalStates
  <1>1. StopEdge(from, to) => from \notin TerminalStates
    BY DEF StopEdge
  <1>2. \A s \in TerminalStates : <<s, to>> \notin Transitions
    BY DEF Transitions, MergeableStates, TerminalStates
  <1> QED
    BY <1>1, <1>2 DEF ValidTransition

\* An update of a member that claims nothing new about its head.
Alike(q, m, head) ==
  /\ q \in Member
  /\ q.pr_head_sha = m.pr_head_sha /\ q.changed = m.changed /\ q.pr = m.pr
  /\ q.verification_sha = m.verification_sha
  /\ q.code_review_sha <= head
  /\ q.playwright \in {m.playwright, "none"}

LEMMA AlikeGood ==
  ASSUME NEW m, NEW r, NEW S, NEW head \in Nat, NEW branch \in Nat,
         NEW C, NEW D, MemberGood(m, r, S, head, branch, C, D),
         NEW q, Alike(q, m, head),
         \/ q.deployment_sha = m.deployment_sha
         \/ q.deployment_sha = branch /\ m.pr_head_sha = branch /\ branch # 0 /\ branch \in C
  PROVE  MemberGood(q, r, S, head, branch, C, D)
  BY DEF MemberGood, Member, Alike

\* A head that is published takes the evidence of another one with it.
LEMMA InvalidatedGood ==
  ASSUME NEW m, NEW r, NEW S, NEW head \in Nat, NEW branch \in Nat,
         NEW C, NEW D, MemberGood(m, r, S, head, branch, C, D)
  PROVE  LET q == Invalidated(m, head) IN
         /\ q \in Member
         /\ q.pr_head_sha = m.pr_head_sha /\ q.pr = m.pr /\ q.changed = m.changed
         /\ MemberGood(q, r, S, head, branch, C, D)
         /\ m.pr_head_sha # head => q.playwright = "none" /\ q.deployment_sha = 0
         /\ m.pr_head_sha = head => q = m
  <1>1. CASE m.pr_head_sha = head
    BY <1>1 DEF Invalidated, MemberGood
  <1>2. CASE m.pr_head_sha # head
    <2> DEFINE v == IF m.verification_sha = head THEN head ELSE 0
               c == IF m.code_review_sha = head THEN head ELSE 0
               b == m.verified /\ m.verification_sha = head
               q == [m EXCEPT !.deployment_sha = 0, !.playwright = "none", !.merged = FALSE,
                              !.verification_sha = v, !.verified = b, !.code_review_sha = c]
    <2>1. Invalidated(m, head) = q
      BY <1>2 DEF Invalidated
    <2>2. m \in Member /\ v \in {m.verification_sha, 0} /\ c \in {m.code_review_sha, 0}
      BY DEF MemberGood
    <2>3. b \in BOOLEAN
      OBVIOUS
    <2> HIDE DEF v, c, b
    <2>4. /\ q \in Member
          /\ q.pr_head_sha = m.pr_head_sha /\ q.pr = m.pr /\ q.changed = m.changed
          /\ q.playwright = "none" /\ q.deployment_sha = 0
          /\ q.verification_sha = v /\ q.code_review_sha = c
      <3> DEFINE q1 == [m EXCEPT !.deployment_sha = 0, !.playwright = "none"]
                 q2 == [q1 EXCEPT !.merged = FALSE, !.verification_sha = v]
      <3>1. /\ q1 \in Member
            /\ q1.pr_head_sha = m.pr_head_sha /\ q1.pr = m.pr /\ q1.changed = m.changed
            /\ q1.playwright = "none" /\ q1.deployment_sha = 0
            /\ q1.code_review_sha = m.code_review_sha
        BY <2>2 DEF Member
      <3> HIDE DEF q1
      <3>2. v \in Nat /\ c \in Nat
        BY <2>2 DEF Member
      <3>3. /\ q2 \in Member
            /\ q2.pr_head_sha = m.pr_head_sha /\ q2.pr = m.pr /\ q2.changed = m.changed
            /\ q2.playwright = "none" /\ q2.deployment_sha = 0
            /\ q2.verification_sha = v
        BY <3>1, <3>2 DEF Member
      <3> HIDE DEF q2
      <3> DEFINE q3 == [q2 EXCEPT !.verified = b, !.code_review_sha = c]
      <3>4. /\ q3 \in Member
            /\ q3.pr_head_sha = m.pr_head_sha /\ q3.pr = m.pr /\ q3.changed = m.changed
            /\ q3.playwright = "none" /\ q3.deployment_sha = 0
            /\ q3.verification_sha = v /\ q3.code_review_sha = c
        BY <2>3, <3>2, <3>3 DEF Member
      <3>5. q = q3
        BY DEF q1, q2
      <3> QED
        BY <3>4, <3>5
    <2>5. MemberGood(q, r, S, head, branch, C, D)
      BY <2>2, <2>4 DEF MemberGood, Member
    <2> QED
      BY <1>2, <2>1, <2>4, <2>5
  <1> QED
    BY <1>1, <1>2

\* The member that is published at this head: checked, and pushed or local.
LEMMA PublishedMember ==
  ASSUME NEW m, NEW r, NEW head \in Nat, NEW branch \in Nat,
         NEW C, NEW D, MemberGood(m, r, setting, head, branch, C, D), head # 0,
         Local(r) => head \in C,
         ~Local(r) => head = branch /\ m.pr_head_sha # head
  PROVE  /\ MemberGood(PublishedAt(m, r, head), r, setting, head, branch, C, D)
         /\ PublishedAt(m, r, head).pr_head_sha = head
  <1> DEFINE q == Invalidated(m, head)
             l == [q EXCEPT !.changed = TRUE, !.pr_head_sha = head,
                            !.verification_sha = head, !.verified = TRUE]
             g == [q EXCEPT !.changed = TRUE, !.pr_head_sha = head, !.pr = TRUE]
  <1>1. /\ q \in Member
        /\ q.pr_head_sha = m.pr_head_sha
        /\ MemberGood(q, r, setting, head, branch, C, D)
        /\ m.pr_head_sha # head => q.playwright = "none" /\ q.deployment_sha = 0
    BY InvalidatedGood
  <1> HIDE DEF q
  <1>2. CASE Local(r)
    <2>1. /\ l \in Member /\ l.changed = TRUE /\ l.pr_head_sha = head
          /\ l.verification_sha = head /\ l.code_review_sha = q.code_review_sha
          /\ l.playwright = q.playwright /\ l.deployment_sha = q.deployment_sha
      BY <1>1 DEF Member
    <2>2. MemberGood(l, r, setting, head, branch, C, D)
      <3>1. CASE q.pr_head_sha = head
        BY <1>1, <1>2, <2>1, <3>1 DEF MemberGood, Member, Local
      <3>2. CASE q.pr_head_sha # head
        BY <1>1, <1>2, <2>1, <3>2 DEF MemberGood, Member, Local
      <3> QED
        BY <3>1, <3>2
    <2>3. PublishedAt(m, r, head) = l
      BY <1>2 DEF PublishedAt, q
    <2> QED
      BY <2>1, <2>2, <2>3
  <1>3. CASE ~Local(r)
    <2>1. /\ g \in Member /\ g.changed = TRUE /\ g.pr_head_sha = head
          /\ g.verification_sha = q.verification_sha /\ g.code_review_sha = q.code_review_sha
          /\ g.playwright = q.playwright /\ g.deployment_sha = q.deployment_sha
      BY <1>1 DEF Member
    <2>2. MemberGood(g, r, setting, head, branch, C, D)
      BY <1>1, <1>3, <2>1 DEF MemberGood, Member
    <2>3. PublishedAt(m, r, head) = g
      BY <1>3 DEF PublishedAt, q
    <2> QED
      BY <2>1, <2>2, <2>3
  <1> QED
    BY <1>2, <1>3

-----------------------------------------------------------------------------
(* What the ways on of a run keep.                                         *)

LEMMA WorldFields ==
  ASSUME World, NEW r \in Repo
  PROVE  /\ setting \in Settings /\ Review \in BOOLEAN /\ Local(r) \in BOOLEAN
         /\ setting.versions[r] \in Nat
         /\ tree[r] \in Checkout /\ tree[r].head \in Nat /\ tree[r].content \in Nat
         /\ 1 <= tree[r].head /\ tree[r].head <= tree[r].content
         /\ tree[r].content <= setting.versions[r]
         /\ ledger[r] \in Nat /\ remote[r] \in Nat
         /\ remote[r] <= tree[r].head /\ (remote[r] # 0 => remote[r] \in checked[r])
  <1>1. /\ setting \in [review : BOOLEAN, integration : BOOLEAN, local : SUBSET Repo,
                        versions : Versions]
        /\ Versions \subseteq [Repo -> Nat \ {0}]
    BY ApplicationAssumption DEF World
  <1>2. Review \in BOOLEAN /\ Local(r) \in BOOLEAN /\ setting.versions \in [Repo -> Nat \ {0}]
    BY <1>1 DEF Review, Local
  <1> QED
    BY <1>2 DEF World, Checkout

LEMMA MemberOf ==
  ASSUME World, NEW t, Sound(t), NEW r \in Repo
  PROVE  /\ MemberGood(t.member[r], r, setting, tree[r].head, remote[r],
                       checked[r], deployed[r])
         /\ t.member[r] \in Member
  BY GoodFields DEF Sound, Local, Review

\* A run that has ended, or has handed back to the agent.
LEMMA Rested ==
  ASSUME Inv, World', Return \/ BackToAgent \/ job' = Idle
  PROVE  /\ job' \in Jobs /\ job'.at \in {"idle", "session"}
         /\ Sound(job.task)' /\ Linked'
  <1>1. job \in Jobs /\ job.task \in Task /\ job.task.state \in TaskStates
        /\ job.seen \in [Repo -> SUBSET Comment]
    BY DEF Inv, Jobs, Task
  <1>2. \A r \in Repo : tree'[r].head \in Nat /\ remote'[r] \in Nat
    BY DEF World, Checkout
  <1>3. /\ Good(Moved(Reproduced, job.task.state), setting', tree', remote', checked', deployed')
        /\ Good(Reproduced, setting', tree', remote', checked', deployed')
    BY <1>1, <1>2, IdleGood
  <1>4. Reproduced \in Task /\ Moved(Reproduced, job.task.state) \in Task
    BY <1>3 DEF Good
  <1>5. Idle \in Jobs /\ Idle.at = "idle" /\ Idle.task = Reproduced
    BY <1>4 DEF Idle, Jobs, Revisions
  <1>6. CASE job' = Idle
    BY <1>3, <1>5, <1>6 DEF Sound, Linked
  <1>7. CASE BackToAgent
    <2>1. job' = [Idle EXCEPT !.at = "session", !.from = "tool", !.seen = job.seen,
                              !.task = Moved(Reproduced, job.task.state)]
      BY <1>7 DEF BackToAgent
    <2>2. "session" \in Waits
      BY DEF Waits
    <2>3. /\ job' \in Jobs /\ job'.at = "session"
          /\ job'.task = Moved(Reproduced, job.task.state)
      BY <1>1, <1>4, <1>5, <2>1, <2>2 DEF Jobs
    <2> QED
      BY <1>3, <2>3 DEF Sound, Linked
  <1> QED
    BY <1>6, <1>7 DEF Return

\* Results are not lost while a merge webhook waits for the command.
LEMMA HookKept ==
  ASSUME Inv, UNCHANGED <<setting, hook>>,
         \A r \in Repo : checked[r] \subseteq checked'[r] /\ deployed[r] \subseteq deployed'[r]
  PROVE  Hooked'
  BY DEF Inv, Hooked, RevisionGood

-----------------------------------------------------------------------------
(* What every step shows, and the ways on from an await.                   *)

Later(t) == Good(t, setting', tree', remote', checked', deployed')
Still == UNCHANGED <<setting, tree, ledger, remote, checked, deployed>>
JobKept == job' \in Jobs /\ Sound(job.task)' /\ Linked'

Quiet == rec'.state \in {"completed", "waiting_for_deployment"} => rec'.state = rec.state

Kept ==
  /\ Inv'
  /\ rec.state # "completed" /\ rec'.state = "completed" => CompletionEvidence'
  /\ ~Review => WaitsForAll

LEMMA QuietKept ==
  ASSUME World', Sound(rec)', JobKept, Hooked', integrated' \in Revisions, Quiet
  PROVE  Kept
  <1>1. Inv'
    BY DEF Inv, JobKept
  <1>2. ~(rec.state # "completed" /\ rec'.state = "completed")
    BY DEF Quiet
  <1>3. WaitsForAll
    BY DEF WaitsForAll, Quiet
  <1> QED
    BY <1>1, <1>2, <1>3 DEF Kept

LEMMA StillKeeps ==
  ASSUME Inv, Still
  PROVE  /\ World'
         /\ \A t : Sound(t) => Later(t)
         /\ Sound(job.task) /\ Sound(rec) /\ Later(rec)
         /\ hook' = hook => Hooked'
  <1>1. World'
    BY DEF Inv, World, Still, Failed
  <1>2. \A t : Sound(t) => Later(t)
    BY DEF Sound, Later, Still
  <1>3. Sound(job.task) /\ Sound(rec)
    BY DEF Inv
  <1>4. hook' = hook => Hooked'
    BY HookKept DEF Still
  <1> QED
    BY <1>1, <1>2, <1>3, <1>4

LEMMA RaiseKeeps ==
  ASSUME Inv, World', NEW t, Later(t), Raise(t)
  PROVE  /\ Sound(rec)' /\ JobKept
         /\ rec'.member = t.member /\ rec'.state \in {t.state, "failed"}
  <1>1. JobKept
    BY Rested DEF Raise, JobKept
  <1>2. CASE job.from = "tool"
    BY <1>1, <1>2 DEF Raise, Later, Sound
  <1>3. CASE job.from # "tool"
    <2>1. rec' = Handled(t)
      BY <1>3 DEF Raise
    <2> QED
      BY <1>1, <2>1, HandledGood DEF Later, Sound
  <1> QED
    BY <1>2, <1>3

LEMMA ReturnInKeeps ==
  ASSUME Inv, World', NEW t, Later(t), NEW s \in TaskStates, ReturnIn(t, s)
  PROVE  /\ Sound(rec)' /\ JobKept
         /\ rec'.member = t.member /\ rec'.state \in {s, t.state, "failed"}
  <1>1. CASE Can(t, s)
    <2>1. rec' = Moved(t, s) /\ Return
      BY <1>1 DEF ReturnIn
    <2>2. t.state \notin TerminalStates
      BY <1>1, OpenBefore DEF Can
    <2>3. /\ Good(Moved(t, s), setting', tree', remote', checked', deployed')
          /\ Moved(t, s).member = t.member /\ Moved(t, s).state = s
      BY <2>2, MovedGood DEF Later
    <2> QED
      BY <2>1, <2>3, Rested DEF Sound, JobKept
  <1>2. CASE ~Can(t, s)
    BY <1>2, RaiseKeeps DEF ReturnIn
  <1> QED
    BY <1>1, <1>2

LEMMA RevisionOfVerified ==
  ASSUME World, NEW t, Sound(t), AllDeploymentsVerified(t)
  PROVE  /\ Revision(t) \in Revisions /\ Revision(t) # NoRevision
         /\ RevisionGood(Revision(t), setting, checked, deployed)
  <1>1. ASSUME NEW r \in Repo
        PROVE  /\ tree[r] \in Checkout /\ t.member[r].pr_head_sha \in Nat
    BY WorldFields, MemberOf DEF Member
  <1>2. Revision(t) \in [Repo -> Checkout \X Nat]
    BY <1>1 DEF Revision
  <1>3. PICK q \in Repo : q \in Changed(t)
    BY DEF AllDeploymentsVerified, Changed
  <1>4. Revision(t) # NoRevision
    <2>1. DOMAIN Revision(t) = Repo
      BY DEF Revision
    <2>2. DOMAIN NoRevision = {}
      BY DEF NoRevision
    <2> QED
      BY <1>3, <2>1, <2>2
  <1>5. ASSUME NEW r \in Repo
        PROVE  LET checkout == Revision(t)[r][1]  v == Revision(t)[r][2] IN
               IF v = 0 THEN checkout.content = 1
               ELSE /\ checkout.content = v /\ checkout.head = v
                    /\ v \in checked[r]
                    /\ r \notin setting.local => v \in deployed[r]
    <2> DEFINE m == t.member[r]  v == Revision(t)[r][2]
    <2>1. Revision(t)[r][1] = tree[r]
          /\ v = IF r \in Changed(t) THEN m.pr_head_sha ELSE 0
      BY DEF Revision
    <2>2. CASE r \notin Changed(t)
      BY <2>1, <2>2 DEF Changed
    <2>3. CASE r \in Changed(t)
      <3>1. MemberVerified(t, r)
        BY <2>3 DEF AllDeploymentsVerified
      <3>2. /\ v = m.pr_head_sha /\ v # 0 /\ tree[r].head = v /\ tree[r].content = v
        BY <2>1, <2>3, <3>1 DEF MemberVerified, Dirty
      <3>3. MemberGood(m, r, setting, tree[r].head, remote[r], checked[r], deployed[r])
        BY MemberOf
      <3>4. v \in checked[r] /\ (~Local(r) => v \in deployed[r])
        BY <3>1, <3>2, <3>3 DEF MemberVerified, MemberGood
      <3> HIDE DEF v
      <3> QED
        BY <2>1, <3>2, <3>4 DEF Local, v
    <2> QED
      BY <2>2, <2>3
  <1>6. RevisionGood(Revision(t), setting, checked, deployed)
    BY <1>5 DEF RevisionGood
  <1> QED
    BY <1>2, <1>4, <1>6 DEF Revisions

LEMMA SameRevision ==
  ASSUME NEW t, rec'.member = t.member, UNCHANGED tree
  PROVE  Revision(rec)' = Revision(t) /\ Changed(rec)' = Changed(t)
  <1>1. Changed(rec)' = Changed(t)
    BY DEF Changed
  <1> QED
    BY <1>1 DEF Revision

\* A revision an integration command may have passed on is the evidence.
LEMMA Evident ==
  ASSUME World', Sound(rec)', NEW x, x = Revision(rec)',
         RevisionGood(x, setting', checked', deployed'),
         setting'.integration => integrated' = x
  PROVE  CompletionEvidence'
  <1>1. ASSUME NEW r \in Changed(rec)'
        PROVE  LET v == rec'.member[r].pr_head_sha IN
               /\ tree'[r].content = v /\ tree'[r].head = v
               /\ v \in checked'[r]
               /\ ~Local(r)' => v \in deployed'[r] /\ remote'[r] = v
    <2> DEFINE v == rec'.member[r].pr_head_sha
    <2>1. r \in Repo
      BY DEF Changed
    <2>2. x[r][1] = tree'[r] /\ x[r][2] = v
      BY <2>1 DEF Revision
    <2>3. /\ MemberGood(rec'.member[r], r, setting', tree'[r].head,
                        remote'[r], checked'[r], deployed'[r])
      BY <2>1 DEF Sound, Good
    <2>4. /\ tree'[r].head \in Nat /\ tree'[r].content \in Nat /\ remote'[r] \in Nat
          /\ remote'[r] <= tree'[r].head /\ deployed'[r] \subseteq 1..remote'[r]
      BY <2>1 DEF World, Checkout
    <2>5. v # 0
      <3>1. SUFFICES ASSUME v = 0 PROVE FALSE
        OBVIOUS
      <3>2. tree'[r].content = 1
        BY <2>1, <2>2, <3>1 DEF RevisionGood
      <3>3. ~rec'.member[r].changed /\ ~rec'.member[r].pr
        BY <2>3, <3>1 DEF MemberGood
      <3> QED
        BY <3>2, <3>3 DEF Changed
    <2>6. /\ tree'[r].content = v /\ tree'[r].head = v /\ v \in checked'[r]
          /\ r \notin setting'.local => v \in deployed'[r]
      BY <2>1, <2>2, <2>5 DEF RevisionGood
    <2>7. v \in deployed'[r] => remote'[r] = v
      BY <2>4, <2>6
    <2> QED
      BY <2>6, <2>7 DEF Local
  <1> QED
    BY <1>1 DEF CompletionEvidence

\* The state a record is about to be saved with is not a new outcome.
OldOutcome(t) ==
  t.state \in {"completed", "waiting_for_deployment"} => t.state = rec.state

Aside == UNCHANGED <<integrated, hook>>

LEMMA MaybeCompleteKeeps ==
  ASSUME Inv, Still, Aside, NEW t, Sound(t), OldOutcome(t), MaybeComplete(t)
  PROVE  Kept
  <1>0. /\ World /\ World' /\ Later(t) /\ Hooked' /\ integrated' \in Revisions
        /\ UNCHANGED tree /\ job \in Jobs /\ Sound(job.task)
    BY StillKeeps DEF Aside, Inv, Still
  <1>1. CASE Completion(t) = "wait"
    <2>1. rec' = t /\ Return
      BY <1>1 DEF MaybeComplete
    <2>2. Sound(rec)' /\ JobKept /\ Quiet
      BY <1>0, <2>1, Rested DEF Sound, Later, JobKept, Quiet, OldOutcome
    <2> QED
      BY <1>0, <2>2, QuietKept
  <1>2. CASE Completion(t) = "complete"
    <2>1. ReturnIn(t, "completed")
      BY <1>2 DEF MaybeComplete
    <2>2. AllDeploymentsVerified(t) /\ (setting.integration => integrated = Revision(t))
      BY <1>2 DEF Completion
    <2>3. "completed" \in TaskStates
      BY DEF TaskStates
    <2>4. /\ Sound(rec)' /\ JobKept
          /\ rec'.member = t.member /\ rec'.state \in {"completed", t.state, "failed"}
      BY <1>0, <2>1, <2>3, ReturnInKeeps
    <2>5. Revision(rec)' = Revision(t)
      BY <1>0, <2>4, SameRevision
    <2>6. RevisionGood(Revision(t), setting', checked', deployed')
      BY <1>0, <2>2, RevisionOfVerified DEF Still
    <2>7. setting'.integration => integrated' = Revision(t)
      BY <2>2 DEF Still, Aside
    <2>8. CompletionEvidence'
      BY <1>0, <2>4, <2>5, <2>6, <2>7, Evident
    <2>9. WaitsForAll
      BY <2>4 DEF WaitsForAll, OldOutcome
    <2>10. Inv'
      BY <1>0, <2>4 DEF Inv, JobKept
    <2> QED
      BY <2>8, <2>9, <2>10 DEF Kept
  <1>3. CASE Completion(t) = "integrate"
    <2>1. rec' = t /\ job' = [job EXCEPT !.at = "integrate", !.revision = Revision(t)]
      BY <1>3 DEF MaybeComplete
    <2>2. AllDeploymentsVerified(t)
      BY <1>3 DEF Completion
    <2>3. /\ Revision(t) \in Revisions /\ Revision(t) # NoRevision
          /\ RevisionGood(Revision(t), setting', checked', deployed')
      BY <1>0, <2>2, RevisionOfVerified DEF Still
    <2>4. "integrate" \in Waits
      BY DEF Waits
    <2>5. /\ job' \in Jobs /\ job'.at = "integrate" /\ job'.task = job.task
          /\ job'.revision = Revision(t)
      BY <1>0, <2>1, <2>3, <2>4 DEF Jobs
    <2>6. Sound(job.task)'
      BY <1>0, <2>5 DEF Sound, Still
    <2>7. Linked'
      BY <2>3, <2>5 DEF Linked
    <2>8. Sound(rec)' /\ Quiet
      BY <1>0, <2>1 DEF Sound, Later, Quiet, OldOutcome
    <2> QED
      BY <1>0, <2>5, <2>6, <2>7, <2>8, QuietKept DEF JobKept
  <1> QED
    BY <1>1, <1>2, <1>3 DEF Completion

\* When publish() returns, all that changed is published, unless it is reviewed.
LEMMA AfterPublishKeeps ==
  ASSUME Inv, Still, Aside, NEW t, Sound(t), OldOutcome(t), AfterPublish(t),
         ~Review => PublishedSoFar(t, {})
  PROVE  Kept
  <1>0. /\ World /\ World' /\ Later(t) /\ Hooked' /\ integrated' \in Revisions
        /\ UNCHANGED tree
    BY StillKeeps DEF Aside, Inv, Still
  <1>1. CASE rec' = t /\ BackToAgent
    <2>1. Sound(rec)' /\ JobKept /\ Quiet
      BY <1>0, <1>1, Rested DEF Sound, Later, JobKept, Quiet, OldOutcome
    <2> QED
      BY <1>0, <2>1, QuietKept
  <1>2. CASE MaybeComplete(t)
    BY <1>2, MaybeCompleteKeeps
  <1>3. CASE ReturnIn(t, "waiting_for_deployment")
    <2>1. "waiting_for_deployment" \in TaskStates
      BY DEF TaskStates
    <2>2. /\ Sound(rec)' /\ JobKept
          /\ rec'.member = t.member
          /\ rec'.state \in {"waiting_for_deployment", t.state, "failed"}
      BY <1>0, <1>3, <2>1, ReturnInKeeps
    <2>3. Inv' /\ (rec'.state = "completed" => rec.state = "completed")
      BY <1>0, <2>2 DEF Inv, JobKept, OldOutcome
    <2>4. ASSUME ~Review PROVE WaitsForAll
      <3>1. ASSUME NEW r \in Changed(rec')
            PROVE  /\ rec'.member[r].pr_head_sha = tree'[r].content
                   /\ ~Local(r) => remote'[r] = rec'.member[r].pr_head_sha
        <4>1. r \in Changed(t) /\ r \in Repo
          BY <2>2 DEF Changed
        <4>2. t.member[r].pr_head_sha = tree[r].content
          BY <2>4, <4>1 DEF PublishedSoFar
        <4>3. ~Local(r) => t.member[r].pr_head_sha <= remote[r]
          <5>1. MemberGood(t.member[r], r, setting, tree[r].head, remote[r],
                           checked[r], deployed[r])
            BY <1>0, <4>1, MemberOf
          <5> QED
            BY <2>4, <5>1 DEF MemberGood, Review, Local
        <4>4. /\ remote[r] \in Nat /\ tree[r].head \in Nat /\ tree[r].content \in Nat
              /\ remote[r] <= tree[r].head /\ tree[r].head <= tree[r].content
          BY <1>0, <4>1, WorldFields
        <4>5. UNCHANGED <<tree, remote>>
          BY DEF Still
        <4> QED
          BY <2>2, <4>2, <4>3, <4>4, <4>5
      <3> QED
        BY <3>1 DEF WaitsForAll
    <2> QED
      BY <2>3, <2>4 DEF Kept
  <1> QED
    BY <1>1, <1>2, <1>3 DEF AfterPublish

-----------------------------------------------------------------------------
(* Steps that move a checkout or a branch.                                 *)

LEMMA CommittedWorld ==
  ASSUME Inv, NEW r \in Repo, tree' = Committed(r),
         UNCHANGED <<setting, ledger, remote, checked, deployed>>
  PROVE  /\ World' /\ \A t : Sound(t) => Later(t)
         /\ tree'[r].head = tree[r].content /\ tree'[r].content = tree[r].content
         /\ \A q \in Repo \ {r} : tree'[q] = tree[q]
  <1>1. /\ tree \in [Repo -> Checkout] /\ World
    BY DEF Inv, World
  <1>2. /\ tree' \in [Repo -> Checkout]
        /\ tree'[r].head = tree[r].content /\ tree'[r].content = tree[r].content
        /\ \A q \in Repo \ {r} : tree'[q] = tree[q]
    BY <1>1 DEF Committed, Checkout
  <1>3. ASSUME NEW q \in Repo
        PROVE  /\ tree'[q].content = tree[q].content
               /\ tree[q].head \in Nat /\ tree'[q].head \in Nat /\ tree[q].content \in Nat
               /\ tree[q].head <= tree'[q].head /\ tree'[q].head <= tree[q].content
               /\ 1 <= tree[q].head
    BY <1>1, <1>2, WorldFields
  <1>4. World'
    BY <1>1, <1>2, <1>3, WorldFields DEF World, Failed
  <1>5. \A t : Sound(t) => Later(t)
    BY <1>3, Grown DEF Sound, Later
  <1> QED
    BY <1>2, <1>4, <1>5

LEMMA NewContentGrows ==
  ASSUME Inv, NEW r \in Repo, NEW committed \in BOOLEAN, NewContent(r, committed),
         UNCHANGED setting
  PROVE  /\ tree' \in [Repo -> Checkout]
         /\ tree[r].content < setting.versions[r]
         /\ tree'[r].content = tree[r].content + 1
         /\ tree'[r].head \in {tree[r].head, tree[r].content + 1}
         /\ \A q \in Repo \ {r} : tree'[q] = tree[q]
         /\ \A q \in Repo : tree[q].head \in Nat /\ tree'[q].head \in Nat
                            /\ tree[q].head <= tree'[q].head
  <1>1. tree \in [Repo -> Checkout] /\ World
    BY DEF Inv, World
  <1>2. tree[r].content \in Nat /\ tree[r].head \in Nat /\ tree[r].head <= tree[r].content
    BY <1>1, WorldFields
  <1> DEFINE n == tree[r].content + 1
             h == IF committed THEN n ELSE tree[r].head
             c == [tree[r] EXCEPT !.content = n, !.head = h]
  <1>3. tree' = [tree EXCEPT ![r] = c]
    BY <1>1 DEF NewContent, Checkout
  <1>4. c \in Checkout /\ c.content = n /\ c.head = h
    <2>1. n \in Nat /\ h \in Nat /\ tree[r] \in Checkout
      BY <1>1, <1>2
    <2> HIDE DEF n, h
    <2> QED
      BY <2>1 DEF Checkout
  <1>5. tree' \in [Repo -> Checkout] /\ tree'[r] = c /\ \A q \in Repo \ {r} : tree'[q] = tree[q]
    BY <1>1, <1>3, <1>4
  <1>6. h \in Nat /\ h \in {tree[r].head, n} /\ tree[r].head <= h
    BY <1>2
  <1>7. \A q \in Repo : tree[q].head \in Nat
    BY <1>1, WorldFields
  <1> HIDE DEF n, h, c
  <1>8. \A q \in Repo : tree'[q].head \in Nat /\ tree[q].head <= tree'[q].head
    BY <1>4, <1>5, <1>6, <1>7
  <1> QED
    BY <1>4, <1>5, <1>6, <1>7, <1>8 DEF NewContent, n

\* The member r published at the head its checkout has after the step.
LEMMA PublishedGood ==
  ASSUME World', UNCHANGED setting, NEW t, Later(t), NEW r \in Repo,
         Local(r) => tree'[r].head \in checked'[r],
         ~Local(r) => /\ tree'[r].head = remote'[r]
                      /\ t.member[r].pr_head_sha # tree'[r].head
  PROVE  /\ Later(Published(t, r)) /\ Published(t, r).state = t.state
         /\ Published(t, r).member[r].pr_head_sha = tree'[r].head
         /\ \A q \in Repo \ {r} : Published(t, r).member[q] = t.member[q]
  <1> DEFINE m == PublishedAt(t.member[r], r, tree'[r].head)
  <1>1. tree'[r].head \in Nat /\ remote'[r] \in Nat /\ tree'[r].head # 0
    BY DEF World, Checkout
  <1>2. MemberGood(t.member[r], r, setting, tree'[r].head, remote'[r], checked'[r], deployed'[r])
    BY DEF Later, Good
  <1>3. /\ MemberGood(m, r, setting', tree'[r].head, remote'[r], checked'[r], deployed'[r])
        /\ m.pr_head_sha = tree'[r].head
    BY <1>1, <1>2, PublishedMember
  <1>4. Published(t, r) = With(t, r, m)
    BY DEF Published, With
  <1> HIDE DEF m
  <1>5. Good(t, setting', tree', remote', checked', deployed')
    BY DEF Later
  <1> QED
    BY <1>3, <1>4, <1>5, WithGood DEF Later

\* The loop goes on with the next member.
LEMMA DoneKeeps ==
  ASSUME Inv, World', UNCHANGED setting, NEW r, Done(r),
         ~Review => PublishedSoFar(rec, job.todo)'
  PROVE  JobKept
  <1>1. job \in Jobs /\ Idle.task = Reproduced /\ "publishing" \in Waits
    BY DEF Inv, Idle, Waits
  <1>2. Good(Reproduced, setting', tree', remote', checked', deployed')
    BY IdleGood DEF World, Checkout, TaskStates
  <1>3. /\ job' \in Jobs /\ job'.at = "publishing" /\ job'.task = Reproduced
        /\ job'.todo = job.todo \ {r}
    BY <1>1, <1>2 DEF Done, Jobs, Good
  <1>4. Linked'
    BY <1>3 DEF Linked, Review, PublishedSoFar, Changed
  <1> QED
    BY <1>2, <1>3, <1>4 DEF JobKept, Sound

\* A run goes on after a webhook: no head, and no change, is taken back.
LEMMA Nudged ==
  ASSUME Inv, Still, UNCHANGED job,
         \A r \in Repo :
           /\ rec'.member[r].pr_head_sha = rec.member[r].pr_head_sha
           /\ rec'.member[r].changed = rec.member[r].changed
           /\ rec'.member[r].pr = rec.member[r].pr
           /\ rec'.member[r].deployment_sha \in
                {rec.member[r].deployment_sha, rec.member[r].pr_head_sha},
         rec'.state = "waiting_for_deployment" => rec.state = "waiting_for_deployment",
         rec.state = "completed" => rec'.state = "completed"
  PROVE  JobKept
  <1>1. Linked /\ job \in Jobs /\ Sound(job.task)
    BY DEF Inv
  <1>2. Sound(job.task)'
    BY <1>1 DEF Sound, Still
  <1>3. Changed(rec)' = Changed(rec)
    BY DEF Changed, Still
  <1>4. SameHeads(job.task, rec) => SameHeads(job.task, rec)'
    BY DEF SameHeads
  <1>5. Linked'
    <2> DEFINE r == job.repo
    <2>1. job.at \in {"commit", "review"} => Review' /\ SameHeads(job.task, rec)'
      BY <1>1, <1>4 DEF Linked, Review, Still
    <2>2. job.at = "review" => ~Dirty(r)'
      BY <1>1 DEF Linked, Dirty, Still
    <2>3. job.at \in {"push", "pushed"} => ~Local(r)' /\ job.task = Idle.task
      BY <1>1 DEF Linked, Local, Still
    <2>4. job.at = "push" => /\ rec'.member[r].pr_head_sha # tree'[r].content
                             /\ tree'[r].content \in checked'[r]
      BY <1>1 DEF Linked, Still
    <2>5. job.at = "pushed" => /\ rec'.member[r].pr_head_sha # tree'[r].head
                               /\ remote'[r] = tree'[r].head /\ ~Dirty(r)'
      BY <1>1 DEF Linked, Still, Dirty
    <2>6. /\ job.at \in {"publishing", "push", "pushed"} /\ ~Review' => PublishedSoFar(rec, job.todo)'
          /\ job.at = "sync" /\ ~Review' => PublishedSoFar(rec, {})'
      <3>1. Review' = Review
        BY DEF Review, Still
      <3>2. job.at \in {"publishing", "push", "pushed"} /\ ~Review => PublishedSoFar(rec, job.todo)
        BY <1>1 DEF Linked
      <3>3. job.at = "sync" /\ ~Review => PublishedSoFar(rec, {})
        BY <1>1 DEF Linked
      <3>4. PublishedSoFar(rec, job.todo) => PublishedSoFar(rec, job.todo)'
        BY <1>3 DEF PublishedSoFar, Still, Changed
      <3>5. PublishedSoFar(rec, {}) => PublishedSoFar(rec, {})'
        BY <1>3 DEF PublishedSoFar, Still, Changed
      <3> QED
        BY <3>1, <3>2, <3>3, <3>4, <3>5
    <2>7. job.at \in {"deploying", "report"} =>
            /\ SameHeads(job.task, rec)'
            /\ \A q \in Repo : rec'.member[q].deployment_sha \in
                     {job.task.member[q].deployment_sha, rec'.member[q].pr_head_sha}
            /\ "waiting_for_deployment" \notin {rec'.state, job.task.state}
      BY <1>1, <1>4 DEF Linked, SameHeads
    <2>8. /\ job.at \in {"test", "commit", "review", "push", "pushed", "report"} => r \in Repo
          /\ job.at = "commit" => job.task.state \notin TerminalStates
          /\ job.at = "report" => (job.task.state = "completed" => rec'.state = "completed")
      BY <1>1 DEF Linked
    <2>9. job.at = "integrate" =>
            job.revision # NoRevision /\ RevisionGood(job.revision, setting', checked', deployed')
      BY <1>1 DEF Linked, Still
    <2> HIDE DEF r
    <2>10. job' = job
      OBVIOUS
    <2> QED
      BY <2>1, <2>2, <2>3, <2>4, <2>5, <2>6, <2>7, <2>8, <2>9, <2>10 DEF Linked, r
  <1> QED
    BY <1>1, <1>2, <1>5 DEF JobKept

-----------------------------------------------------------------------------
(* The integration command.                                                *)

\* It has passed on what is published now, or it does not count.
LEMMA IntegrationKeeps ==
  ASSUME Inv, Still, NEW x, NEW ok \in BOOLEAN, x # NoRevision, x \in Revisions,
         RevisionGood(x, setting, checked, deployed),
         integrated' = IF ok THEN IntegratedOn(x) ELSE NoRevision,
         rec'.member = rec.member,
         rec'.state \in {IF integrated' = NoRevision THEN "blocked" ELSE "completed",
                         rec.state, "failed"},
         Sound(rec)', JobKept, Hooked'
  PROVE  Kept
  <1>1. integrated' \in {x, NoRevision} /\ NoRevision \in Revisions
    BY DEF IntegratedOn, Revisions
  <1>2. Inv'
    BY <1>1, StillKeeps DEF Inv, JobKept
  <1>3. ASSUME rec.state # "completed", rec'.state = "completed"
        PROVE  CompletionEvidence'
    <2>1. integrated' # NoRevision
      BY <1>3
    <2>2. ok /\ x = Revision(rec) /\ integrated' = x
      BY <2>1 DEF IntegratedOn
    <2>3. Revision(rec)' = x
      BY <2>2, SameRevision DEF Still
    <2>4. RevisionGood(x, setting', checked', deployed')
      BY DEF Still
    <2> QED
      BY <1>2, <2>2, <2>3, <2>4, Evident DEF Inv
  <1>4. WaitsForAll
    BY DEF WaitsForAll
  <1> QED
    BY <1>2, <1>3, <1>4 DEF Kept

LEMMA IntegrationEndsStep ==
  ASSUME Inv, UNCHANGED setting, NEW ok \in BOOLEAN, IntegrationEnds(ok)
  PROVE  Kept
  <1> DEFINE s == IF integrated' = NoRevision THEN "blocked" ELSE "completed"
  <1>1. /\ job.at = "integrate" /\ Still /\ UNCHANGED hook
        /\ integrated' = IF ok THEN IntegratedOn(job.revision) ELSE NoRevision
        /\ ReturnIn(rec, s)
    BY DEF IntegrationEnds, evidence, Still
  <1>2. /\ job.revision # NoRevision /\ job.revision \in Revisions
        /\ RevisionGood(job.revision, setting, checked, deployed)
    BY <1>1 DEF Inv, Linked, Jobs
  <1>3. World' /\ Later(rec) /\ Hooked'
    BY <1>1, StillKeeps
  <1>4. s \in TaskStates
    BY DEF TaskStates
  <1> HIDE DEF s
  <1>5. /\ Sound(rec)' /\ JobKept
        /\ rec'.member = rec.member /\ rec'.state \in {s, rec.state, "failed"}
    BY <1>1, <1>3, <1>4, ReturnInKeeps
  <1> QED
    BY <1>1, <1>2, <1>3, <1>5, IntegrationKeeps DEF s

LEMMA HookEndsStep ==
  ASSUME Inv, UNCHANGED setting, NEW ok \in BOOLEAN, HookEnds(ok)
  PROVE  Kept
  <1> DEFINE s == IF integrated' = NoRevision THEN "blocked" ELSE "completed"
  <1>1. /\ hook # NoRevision /\ hook' = NoRevision /\ Still /\ UNCHANGED job
        /\ integrated' = IF ok THEN IntegratedOn(hook) ELSE NoRevision
        /\ rec' = IF Can(rec, s) THEN Moved(rec, s) ELSE rec
    BY DEF HookEnds, evidence, Still
  <1>2. /\ hook \in Revisions /\ RevisionGood(hook, setting, checked, deployed)
        /\ NoRevision \in Revisions
    BY <1>1 DEF Inv, Hooked, Revisions
  <1>3. World' /\ Later(rec) /\ Hooked'
    BY <1>1, <1>2, StillKeeps DEF Hooked
  <1>4. s \in TaskStates /\ s \in {"blocked", "completed"}
    BY DEF TaskStates
  <1> HIDE DEF s
  <1>5. Can(rec, s) => rec.state \notin TerminalStates
    BY OpenBefore DEF Can
  <1>6. /\ Sound(rec)' /\ rec'.member = rec.member
        /\ rec'.state \in {s, rec.state}
        /\ rec.state = "completed" => rec'.state = "completed"
    <2>1. CASE Can(rec, s)
      <3>1. /\ Good(Moved(rec, s), setting', tree', remote', checked', deployed')
            /\ Moved(rec, s).member = rec.member /\ Moved(rec, s).state = s
        BY <1>3, <1>4, <1>5, <2>1, MovedGood DEF Later
      <3>2. rec.state # "completed"
        BY <1>5, <2>1 DEF TerminalStates
      <3> QED
        BY <1>1, <2>1, <3>1, <3>2 DEF Sound
    <2>2. CASE ~Can(rec, s)
      BY <1>1, <1>3, <2>2 DEF Sound, Later
    <2> QED
      BY <2>1, <2>2
  <1>7. JobKept
    <2>1. \A r \in Repo : rec'.member[r] = rec.member[r]
      BY <1>6
    <2>2. rec'.state = "waiting_for_deployment" => rec.state = "waiting_for_deployment"
      BY <1>4, <1>6
    <2> QED
      BY <1>1, <1>6, <2>1, <2>2, Nudged
  <1> QED
    BY <1>1, <1>2, <1>3, <1>6, <1>7, IntegrationKeeps DEF s

-----------------------------------------------------------------------------
(* The agent's session and its tests.                                      *)

\* A run that only waits for the agent, or for a test.
LEMMA WaitsKept ==
  ASSUME Inv, World', NEW t, NEW at \in {"session", "test"}, job' \in Jobs,
         job'.at = at, at = "test" => job'.repo \in Repo, job'.task = t, Later(t)
  PROVE  JobKept
  BY DEF JobKept, Linked, Sound, Later

LEMMA StartSessionStep ==
  ASSUME Inv, UNCHANGED setting, StartSession
  PROVE  Kept
  <1> DEFINE seen == IF rec.state = "waiting_for_review"
                     THEN [r \in Repo |-> rec.member[r].comments] ELSE Idle.seen
             t == Moved(Reproduced, rec.state)
  <1>1. /\ Still /\ Aside /\ UNCHANGED rec
        /\ job' = [Idle EXCEPT !.at = "session", !.from = "tool", !.task = t, !.seen = seen]
    BY DEF StartSession, evidence, Still, Aside
  <1>2. World' /\ Later(rec) /\ Hooked' /\ integrated' \in Revisions
    BY <1>1, StillKeeps DEF Aside, Inv
  <1>3. rec.state \in TaskStates /\ \A r \in Repo : rec.member[r].comments \in SUBSET Comment
    BY <1>2, GoodFields DEF Later, Member
  <1>4. Later(t) /\ Later(Reproduced)
    BY <1>2, <1>3, IdleGood DEF Later, World, Checkout
  <1>5. Idle \in Jobs
    BY <1>4 DEF Idle, Jobs, Revisions, Later, Good
  <1>6. seen \in [Repo -> SUBSET Comment] /\ t \in Task /\ "session" \in Waits
    BY <1>3, <1>4 DEF Idle, Later, Good, Waits
  <1> HIDE DEF seen, t
  <1>7. job' \in Jobs /\ job'.at = "session" /\ job'.task = t
    BY <1>1, <1>5, <1>6 DEF Jobs
  <1>8. JobKept
    BY <1>2, <1>4, <1>7, WaitsKept
  <1> QED
    BY <1>1, <1>2, <1>8, QuietKept DEF Sound, Later, Quiet

LEMMA AgentEditsStep ==
  ASSUME Inv, UNCHANGED setting, NEW r \in Repo, NEW committed \in BOOLEAN,
         AgentEdits(r, committed)
  PROVE  Kept
  <1>1. /\ job.at = "session" /\ NewContent(r, committed)
        /\ UNCHANGED <<rec, ledger, checked, remote, integrated, job, hook, deployed>>
    BY DEF AgentEdits, evidence
  <1>2. /\ tree' \in [Repo -> Checkout]
        /\ tree[r].content < setting.versions[r]
        /\ tree'[r].content = tree[r].content + 1
        /\ tree'[r].head \in {tree[r].head, tree[r].content + 1}
        /\ \A q \in Repo \ {r} : tree'[q] = tree[q]
        /\ \A q \in Repo : tree[q].head \in Nat /\ tree'[q].head \in Nat
                           /\ tree[q].head <= tree'[q].head
    BY <1>1, NewContentGrows
  <1>3. World
    BY DEF Inv
  <1>4. World'
    <2>1. ASSUME NEW q \in Repo
          PROVE  /\ 1 <= tree'[q].head /\ tree'[q].head <= tree'[q].content
                 /\ tree'[q].content <= setting.versions[q]
                 /\ ledger[q] <= tree'[q].content \/ ledger[q] = Failed(q)
                 /\ ledger[q] # 0 /\ ledger[q] <= tree'[q].content => ledger[q] \in checked[q]
                 /\ remote[q] <= tree'[q].head /\ (remote[q] # 0 => remote[q] \in checked[q])
                 /\ checked[q] \subseteq 1..tree'[q].content
                 /\ deployed[q] \subseteq 1..remote[q]
      <3>1. CASE q # r
        BY <1>2, <1>3, <3>1 DEF World
      <3>2. CASE q = r
        BY <1>2, <1>3, <3>2, WorldFields DEF World, Failed
      <3> QED
        BY <3>1, <3>2
    <2> QED
      BY <1>1, <1>2, <1>3, <2>1 DEF World, Failed
  <1>5. \A t : Sound(t) => Later(t)
    BY <1>1, <1>2, Grown DEF Sound, Later
  <1>6. Sound(rec)' /\ Later(job.task) /\ job \in Jobs /\ integrated \in Revisions
    BY <1>1, <1>5 DEF Inv, Later, Sound
  <1>7. JobKept /\ Hooked'
    BY <1>1, <1>4, <1>6, WaitsKept, HookKept
  <1> QED
    BY <1>1, <1>4, <1>6, <1>7, QuietKept DEF Quiet

LEMMA AcknowledgedGood ==
  ASSUME World, NEW t, Sound(t), job \in Jobs
  PROVE  /\ Sound(Acknowledged(t)) /\ Acknowledged(t).state = t.state
         /\ Acknowledged(t).attempts = t.attempts
  <1> DEFINE m(r) == [t.member[r] EXCEPT !.comments = t.member[r].comments \ job.seen[r]]
             u == Acknowledged(t)
  <1>1. t \in Task /\ \A r \in Repo : t.member[r] \in Member
    BY GoodFields DEF Sound
  <1>2. ASSUME NEW r \in Repo
        PROVE  MemberGood(m(r), r, setting, tree[r].head, remote[r], checked[r], deployed[r])
    <2>1. t.member[r].comments \ job.seen[r] \in SUBSET Comment
      BY <1>1 DEF Member
    <2>2. /\ tree[r].head \in Nat /\ remote[r] \in Nat
          /\ MemberGood(t.member[r], r, setting, tree[r].head, remote[r], checked[r], deployed[r])
      BY WorldFields, MemberOf
    <2> DEFINE q == t.member[r]  c == q.comments \ job.seen[r]
    <2>3. c \in SUBSET Comment
      BY <2>1
    <2> HIDE DEF c
    <2>4. Alike(m(r), q, tree[r].head) /\ m(r).deployment_sha = q.deployment_sha
      BY <2>2, <2>3 DEF Alike, MemberGood, Member, c
    <2> HIDE DEF m, q
    <2> QED
      BY <2>2, <2>4, AlikeGood DEF q
  <1>3. \A r \in Repo : m(r) \in Member
    BY <1>2 DEF MemberGood
  <1>4. u = [t EXCEPT !.member = [r \in Repo |-> m(r)]]
    BY DEF Acknowledged
  <1> HIDE DEF m, u
  <1>5. /\ u \in Task /\ u.state = t.state /\ u.attempts = t.attempts
        /\ u.member = [r \in Repo |-> m(r)]
    BY <1>1, <1>3, <1>4 DEF Task
  <1>6. Sound(u)
    BY <1>2, <1>5 DEF Sound, Good
  <1> QED
    BY <1>5, <1>6 DEF u

LEMMA SessionOverStep ==
  ASSUME Inv, UNCHANGED setting,
         SessionRaises \/ \E blocked \in BOOLEAN : SessionEnds(blocked)
  PROVE  Kept
  <1>1. Still /\ Aside /\ job' = Idle
    BY DEF SessionRaises, SessionEnds, evidence, Still, Aside
  <1>2. /\ World /\ World' /\ Later(rec) /\ Hooked' /\ integrated' \in Revisions /\ job \in Jobs
    BY <1>1, StillKeeps DEF Aside, Inv
  <1>3. JobKept
    BY <1>1, <1>2, Rested DEF JobKept
  <1>4. CASE SessionRaises
    <2> DEFINE t == Acknowledged(rec)
    <2>1. rec' = Handled(rec) \/ rec' = Handled(t)
      BY <1>4 DEF SessionRaises
    <2>2. Later(t) /\ t.state = rec.state
      BY <1>1, <1>2, AcknowledgedGood, StillKeeps
    <2> HIDE DEF t
    <2>3. Sound(rec)' /\ Quiet
      BY <1>2, <2>1, <2>2, HandledGood DEF Later, Sound, Quiet
    <2> QED
      BY <1>2, <1>3, <2>3, QuietKept
  <1>5. CASE \E blocked \in BOOLEAN : SessionEnds(blocked)
    <2> DEFINE t == Acknowledged(rec)
    <2>1. PICK blocked \in BOOLEAN :
            rec' = IF blocked /\ ~Over THEN Moved(t, "blocked")
                   ELSE IF rec.state = job.task.state /\ rec.state \in ActiveStates
                   THEN Charged(t, rec.state, "blocked")
                   ELSE t
      BY <1>5 DEF SessionEnds
    <2>2. Later(t) /\ t.state = rec.state
      BY <1>1, <1>2, AcknowledgedGood, StillKeeps
    <2>3. rec.state \in TaskStates
      BY <2>2, GoodFields DEF Later
    <2> HIDE DEF t
    <2>4. /\ "blocked" \in TerminalStates /\ "blocked" \in TaskStates
          /\ ActiveStates \cap TerminalStates = {}
      BY DEF TerminalStates, TaskStates, ActiveStates
    <2>5. CASE rec' = Moved(t, "blocked")
      <3>1. Sound(rec)' /\ Quiet
        BY <2>2, <2>4, <2>5, MovedGood DEF Later, Sound, Quiet
      <3> QED
        BY <1>2, <1>3, <3>1, QuietKept
    <2>6. CASE rec.state \in ActiveStates /\ rec' = Charged(t, rec.state, "blocked")
      <3>1. Sound(rec)' /\ rec'.state \in {rec.state, "blocked"}
        BY <2>2, <2>3, <2>4, <2>6, ChargedGood DEF Later, Sound
      <3> QED
        BY <1>2, <1>3, <3>1, QuietKept DEF Quiet
    <2>7. CASE rec' = t
      <3>1. Sound(rec)' /\ Quiet
        BY <2>2, <2>7 DEF Later, Sound, Quiet
      <3> QED
        BY <1>2, <1>3, <3>1, QuietKept
    <2> QED
      BY <2>1, <2>5, <2>6, <2>7
  <1> QED
    BY <1>4, <1>5

LEMMA PassedGood ==
  ASSUME NEW t, NEW S, NEW T, NEW B, NEW C, NEW D, Good(t, S, T, B, C, D),
         NEW r \in Repo, t.state \notin TerminalStates, T[r].head \in Nat, B[r] \in Nat
  PROVE  /\ Good(Passed(t, r), S, T, B, C, D)
         /\ Passed(t, r).state = "testing_local"
  <1> DEFINE u == Moved(t, "testing_local")
             q == u.member[r]
             m == [q EXCEPT !.verified = TRUE]
  <1>1. Good(u, S, T, B, C, D) /\ u.state = "testing_local"
    BY MovedGood DEF TaskStates
  <1>2. Passed(t, r) = With(u, r, m)
    BY DEF Passed, With
  <1> HIDE DEF u
  <1>3. MemberGood(m, r, S, T[r].head, B[r], C[r], D[r])
    <2>1. MemberGood(q, r, S, T[r].head, B[r], C[r], D[r])
      BY <1>1, GoodFields
    <2> HIDE DEF q
    <2>2. Alike(m, q, T[r].head) /\ m.deployment_sha = q.deployment_sha
      BY <2>1 DEF Alike, MemberGood, Member
    <2> HIDE DEF m
    <2> QED
      BY <2>1, <2>2, AlikeGood
  <1> HIDE DEF m
  <1> QED
    BY <1>1, <1>2, <1>3, WithGood

LEMMA RunTestsStep ==
  ASSUME Inv, UNCHANGED setting, NEW r \in Repo, RunTests(r)
  PROVE  Kept
  <1>1. /\ Still /\ Aside /\ job.at = "session" /\ rec.state \in Testable
        /\ rec' = Moved(rec, "implementing")
        /\ job' = [job EXCEPT !.at = "test", !.repo = r]
    BY DEF RunTests, evidence, Still, Aside
  <1>2. /\ World /\ World' /\ Later(rec) /\ Later(job.task) /\ Hooked'
        /\ integrated' \in Revisions /\ job \in Jobs
    BY <1>1, StillKeeps DEF Aside, Inv
  <1>3. rec.state \notin TerminalStates /\ "implementing" \in TaskStates /\ "test" \in Waits
    BY <1>1 DEF Testable, SessionStates, TerminalStates, TaskStates, Waits
  <1>4. Sound(rec)' /\ rec'.state = "implementing"
    BY <1>1, <1>2, <1>3, MovedGood DEF Later, Sound
  <1>5. job' \in Jobs /\ job'.at = "test" /\ job'.repo = r /\ job'.task = job.task
    BY <1>1, <1>2, <1>3 DEF Jobs
  <1>6. JobKept
    BY <1>2, <1>5, WaitsKept
  <1> QED
    BY <1>2, <1>4, <1>6, QuietKept DEF Quiet

LEMMA ReusePassStep ==
  ASSUME Inv, UNCHANGED setting, NEW r \in Repo, ReusePass(r)
  PROVE  Kept
  <1>1. /\ Still /\ Aside /\ job.at = "session" /\ rec.state \in Testable
        /\ rec' = Passed(rec, r) /\ UNCHANGED job
    BY DEF ReusePass, evidence, Still, Aside
  <1>2. /\ World /\ World' /\ Later(rec) /\ Later(job.task) /\ Hooked'
        /\ integrated' \in Revisions /\ job \in Jobs
    BY <1>1, StillKeeps DEF Aside, Inv
  <1>3. rec.state \notin TerminalStates
    BY <1>1 DEF Testable, SessionStates, TerminalStates
  <1>4. Sound(rec)' /\ rec'.state = "testing_local"
    BY <1>1, <1>2, <1>3, PassedGood DEF Later, Sound, World, Checkout
  <1>5. JobKept
    BY <1>1, <1>2, WaitsKept
  <1> QED
    BY <1>2, <1>4, <1>5, QuietKept DEF Quiet

\* A pass is recorded for the version the checkout has held throughout.
LEMMA TestEndsWorld ==
  ASSUME Inv, UNCHANGED setting, NEW passed \in BOOLEAN, NEW stable \in BOOLEAN,
         TestEnds(passed, stable)
  PROVE  /\ World' /\ \A t : Sound(t) => Later(t)
         /\ \A r \in Repo : checked[r] \subseteq checked'[r]
  <1> DEFINE r == job.repo
             v == tree[r].content
             good == passed /\ stable
             n == IF good THEN v ELSE Failed(r)
             c == checked[r] \union (IF good THEN {v} ELSE {})
  <1>1. /\ World /\ r \in Repo
    BY DEF Inv, Linked, TestEnds
  <1>2. /\ IF stable THEN UNCHANGED tree ELSE NewContent(r, FALSE)
        /\ ledger' = [ledger EXCEPT ![r] = n]
        /\ checked' = [checked EXCEPT ![r] = c]
        /\ UNCHANGED <<remote, deployed>>
    BY DEF TestEnds
  <1>3. /\ tree[r].content \in Nat /\ setting.versions[r] \in Nat
        /\ tree[r].content <= setting.versions[r]
        /\ 1 <= tree[r].head /\ tree[r].head \in Nat /\ tree[r].head <= tree[r].content
    BY <1>1, WorldFields
  <1>4. n \in Nat /\ c \in SUBSET Nat /\ c \subseteq 1..tree[r].content /\ checked[r] \subseteq c
    BY <1>1, <1>3 DEF World, Failed
  <1>5. /\ ledger' \in [Repo -> Nat] /\ ledger'[r] = n
        /\ checked' \in [Repo -> SUBSET Nat] /\ checked'[r] = c
        /\ \A q \in Repo \ {r} : ledger'[q] = ledger[q] /\ checked'[q] = checked[q]
    <2> HIDE DEF n, c
    <2> QED
      BY <1>1, <1>2, <1>4 DEF World
  <1>6. /\ tree' \in [Repo -> Checkout]
        /\ \A q \in Repo \ {r} : tree'[q] = tree[q]
        /\ \A q \in Repo : tree[q].head \in Nat /\ tree'[q].head \in Nat
                           /\ tree[q].head <= tree'[q].head
        /\ stable => tree'[r] = tree[r]
        /\ ~stable => /\ tree[r].content < setting.versions[r]
                      /\ tree'[r].content = tree[r].content + 1
                      /\ tree'[r].head \in {tree[r].head, tree[r].content + 1}
    <2>1. CASE stable
      BY <1>1, <1>2, <2>1, WorldFields DEF World
    <2>2. CASE ~stable
      BY <1>1, <1>2, <2>2, NewContentGrows
    <2> QED
      BY <2>1, <2>2
  <1>7. ASSUME NEW q \in Repo
        PROVE  /\ 1 <= tree'[q].head /\ tree'[q].head <= tree'[q].content
               /\ tree'[q].content <= setting.versions[q]
               /\ ledger'[q] <= tree'[q].content \/ ledger'[q] = Failed(q)
               /\ ledger'[q] # 0 /\ ledger'[q] <= tree'[q].content => ledger'[q] \in checked'[q]
               /\ remote[q] <= tree'[q].head /\ (remote[q] # 0 => remote[q] \in checked'[q])
               /\ checked'[q] \subseteq 1..tree'[q].content
               /\ deployed[q] \subseteq 1..remote[q]
    <2>1. CASE q # r
      BY <1>1, <1>5, <1>6, <2>1 DEF World
    <2>2. CASE q = r
      <3>1. ledger'[q] \in {v, setting.versions[q] + 1}
            /\ (good => v \in c) /\ (~good => ledger'[q] = setting.versions[q] + 1)
            /\ (good => stable)
        BY <1>5, <2>2 DEF Failed
      <3> HIDE DEF n, c, good
      <3> QED
        BY <1>1, <1>3, <1>4, <1>5, <1>6, <2>2, <3>1, WorldFields DEF World, Failed
    <2> QED
      BY <2>1, <2>2
  <1>8. World'
    <2> HIDE DEF r, v, n, c
    <2> QED
      BY <1>1, <1>2, <1>5, <1>6, <1>7 DEF World, Failed
  <1>9. \A q \in Repo : checked[q] \subseteq checked'[q]
    <2> HIDE DEF c
    <2> QED
      BY <1>4, <1>5
  <1>10. \A t : Sound(t) => Later(t)
    <2> HIDE DEF r, v, n, c
    <2> QED
      BY <1>2, <1>6, <1>9, Grown DEF Sound, Later
  <1> QED
    BY <1>8, <1>9, <1>10

LEMMA TestEndsStep ==
  ASSUME Inv, UNCHANGED setting, NEW passed \in BOOLEAN, NEW stable \in BOOLEAN,
         TestEnds(passed, stable)
  PROVE  Kept
  <1> DEFINE r == job.repo
  <1>1. /\ rec' = IF Over THEN rec
                  ELSE IF passed THEN Passed(rec, r)
                  ELSE Charged(rec, "reproducing", "blocked")
        /\ BackToAgent /\ Aside /\ UNCHANGED deployed
    BY DEF TestEnds, Aside
  <1>2. World' /\ Later(rec) /\ r \in Repo /\ Hooked' /\ integrated' \in Revisions
    BY <1>1, TestEndsWorld, HookKept DEF Inv, Linked, TestEnds, Aside
  <1>3. JobKept
    BY <1>1, <1>2, Rested DEF JobKept
  <1> HIDE DEF r
  <1>4. Sound(rec)' /\ Quiet
    <2>1. CASE Over
      BY <1>1, <1>2, <2>1 DEF Sound, Later, Quiet
    <2>2. CASE ~Over /\ passed
      BY <1>1, <1>2, <2>2, PassedGood DEF Sound, Later, Quiet, Over, World, Checkout
    <2>3. CASE ~Over /\ ~passed
      <3>1. "reproducing" \in TaskStates /\ "blocked" \in TerminalStates
        BY DEF TaskStates, TerminalStates
      <3> QED
        BY <1>1, <1>2, <2>3, <3>1, ChargedGood DEF Sound, Later, Quiet, Over
    <2> QED
      BY <2>1, <2>2, <2>3
  <1> QED
    BY <1>2, <1>3, <1>4, QuietKept

-----------------------------------------------------------------------------
(* publish()                                                               *)

LEMMA PublishingKeeps ==
  ASSUME Inv, Still, NEW from \in {"tool", "process"}, job' = Publishing(from),
         rec'.member = rec.member
  PROVE  JobKept
  <1>1. job \in Jobs /\ "publishing" \in Waits /\ Changed(rec) \in SUBSET Repo
    BY DEF Inv, Waits, Changed
  <1>2. /\ job' \in Jobs /\ job'.at = "publishing" /\ job'.task = job.task
        /\ job'.todo = Changed(rec)
    BY <1>1 DEF Publishing, Jobs
  <1>3. Changed(rec)' = Changed(rec)
    BY DEF Changed, Still
  <1>4. PublishedSoFar(rec, job.todo)'
    BY <1>2, <1>3 DEF PublishedSoFar, Changed
  <1>5. Linked'
    BY <1>2, <1>4 DEF Linked
  <1> QED
    BY <1>2, <1>5, StillKeeps DEF JobKept, Sound, Later

LEMMA OpenPrStep ==
  ASSUME Inv, UNCHANGED setting, OpenPr
  PROVE  Kept
  <1>1. /\ Still /\ Aside /\ job.at = "session"
        /\ rec.state \in {"testing_local", "publishing_pr"}
        /\ rec' = Moved(rec, "publishing_pr")
        /\ job' = IF Changed(rec) = {} THEN job ELSE Publishing("tool")
    BY DEF OpenPr, evidence, Still, Aside
  <1>2. /\ World' /\ Later(rec) /\ Later(job.task) /\ Hooked'
        /\ integrated' \in Revisions /\ job \in Jobs
    BY <1>1, StillKeeps DEF Aside, Inv
  <1>3. rec.state \notin TerminalStates /\ "publishing_pr" \in TaskStates
    BY <1>1 DEF TerminalStates, TaskStates
  <1>4. Sound(rec)' /\ rec'.state = "publishing_pr" /\ rec'.member = rec.member
    BY <1>1, <1>2, <1>3, MovedGood DEF Later, Sound
  <1>5. JobKept
    <2>1. CASE Changed(rec) = {}
      BY <1>1, <1>2, <2>1, WaitsKept
    <2>2. CASE Changed(rec) # {}
      BY <1>1, <1>4, <2>2, PublishingKeeps
    <2> QED
      BY <2>1, <2>2
  <1> QED
    BY <1>2, <1>4, <1>5, QuietKept DEF Quiet

LEMMA ResumePublishingStep ==
  ASSUME Inv, UNCHANGED setting, ResumePublishing
  PROVE  Kept
  <1>1. Still /\ Aside /\ job = Idle
    BY DEF ResumePublishing, evidence, Still, Aside
  <1>2. /\ World' /\ Later(rec) /\ Hooked' /\ integrated' \in Revisions /\ job \in Jobs
    BY <1>1, StillKeeps DEF Aside, Inv
  <1>3. CASE Changed(rec) = {}
    <2>1. rec' = Handled(rec) /\ job' = Idle
      BY <1>1, <1>3 DEF ResumePublishing
    <2>2. Sound(rec)' /\ Quiet
      BY <1>2, <2>1, HandledGood DEF Later, Sound, Quiet
    <2>3. JobKept
      BY <1>2, <2>1, Rested DEF JobKept
    <2> QED
      BY <1>2, <2>2, <2>3, QuietKept
  <1>4. CASE Changed(rec) # {}
    <2>1. UNCHANGED rec /\ job' = Publishing("process")
      BY <1>4 DEF ResumePublishing
    <2>2. JobKept
      BY <1>1, <2>1, PublishingKeeps
    <2> QED
      BY <1>2, <2>1, <2>2, QuietKept DEF Sound, Later, Quiet
  <1> QED
    BY <1>3, <1>4

LEMMA LoopSoFar ==
  ASSUME Inv, NEW r \in Repo, ~Review, job.at \in {"publishing", "push", "pushed"},
         UNCHANGED setting, Done(r),
         \A q \in Repo \ {r} : rec'.member[q] = rec.member[q],
         \A q \in Repo : tree'[q].content = tree[q].content,
         r \in Changed(rec)' => rec'.member[r].pr_head_sha = tree'[r].content
  PROVE  PublishedSoFar(rec, job.todo)'
  <1>1. PublishedSoFar(rec, job.todo) /\ job \in Jobs
    BY DEF Inv, Linked
  <1>2. job'.todo = job.todo \ {r}
    BY <1>1 DEF Done, Jobs
  <1>3. \A q \in Repo \ {r} : q \in Changed(rec)' => q \in Changed(rec)
    BY DEF Changed
  <1> QED
    BY <1>1, <1>2, <1>3 DEF PublishedSoFar, Changed

\* What becomes of a member whose review, if there is one, is over.
LEMMA PublishMemberKeeps ==
  ASSUME Inv, UNCHANGED <<setting, evidence, remote, integrated, hook, deployed>>,
         NEW r \in Repo, NEW m, NEW t, Sound(t), OldOutcome(t),
         m.pr_head_sha = t.member[r].pr_head_sha, m.pr_head_sha = rec.member[r].pr_head_sha,
         Review => ~Dirty(r),
         ~Review => t = rec /\ job.at = "publishing",
         PublishMember(m, t, r)
  PROVE  Kept
  <1>0. /\ World /\ job \in Jobs /\ Linked /\ UNCHANGED <<ledger, checked>>
        /\ integrated' \in Revisions /\ Hooked'
    BY HookKept DEF Inv, evidence
  <1>1. /\ 1 <= tree[r].head /\ tree[r].head <= tree[r].content
        /\ tree[r].head \in Nat /\ tree[r].content \in Nat
    BY <1>0, WorldFields
  <1>2. CASE AlreadyPublished(m, r)
    <2>1. rec' = t /\ Done(r) /\ UNCHANGED tree
      BY <1>2 DEF PublishMember
    <2>2. Still
      BY <1>0, <2>1 DEF Still
    <2>3. World' /\ Later(t)
      BY <2>2, StillKeeps
    <2>4. ~Review => PublishedSoFar(rec, job.todo)'
      <3>1. rec'.member[r].pr_head_sha = tree'[r].content
        BY <1>2, <2>1 DEF AlreadyPublished, Dirty
      <3> QED
        BY <2>1, <3>1, LoopSoFar
    <2>5. JobKept
      BY <2>1, <2>3, <2>4, DoneKeeps
    <2> QED
      BY <1>0, <2>1, <2>3, <2>5, QuietKept DEF Sound, Later, Quiet, OldOutcome
  <1>3. CASE ~AlreadyPublished(m, r) /\ ~VerificationCurrent(m, r)
    <2>1. Raise(t) /\ UNCHANGED tree
      BY <1>3 DEF PublishMember
    <2>2. Still
      BY <1>0, <2>1 DEF Still
    <2>3. World' /\ Later(t)
      BY <2>2, StillKeeps
    <2>4. Sound(rec)' /\ JobKept /\ rec'.state \in {t.state, "failed"}
      BY <2>1, <2>3, RaiseKeeps
    <2> QED
      BY <1>0, <2>3, <2>4, QuietKept DEF Quiet, OldOutcome
  <1>4. CASE ~AlreadyPublished(m, r) /\ VerificationCurrent(m, r) /\ Local(r)
    <2>1. tree' = Committed(r) /\ rec' = Published(t, r) /\ Done(r)
      BY <1>4 DEF PublishMember
    <2>2. /\ World' /\ Later(t)
          /\ tree'[r].head = tree[r].content /\ tree'[r].content = tree[r].content
          /\ \A q \in Repo \ {r} : tree'[q] = tree[q]
      BY <1>0, <2>1, CommittedWorld
    <2>3. tree[r].content \in checked[r]
      BY <1>0, <1>1, <1>4 DEF VerificationCurrent, World
    <2>4. /\ Later(rec') /\ rec'.state = t.state
          /\ rec'.member[r].pr_head_sha = tree'[r].head
          /\ \A q \in Repo \ {r} : rec'.member[q] = t.member[q]
      BY <1>0, <1>4, <2>1, <2>2, <2>3, PublishedGood
    <2>5. ~Review => PublishedSoFar(rec, job.todo)'
      <3>1. \A q \in Repo : tree'[q].content = tree[q].content
        BY <2>2
      <3> QED
        BY <2>1, <2>2, <2>4, <3>1, LoopSoFar
    <2>6. JobKept
      BY <2>1, <2>2, <2>5, DoneKeeps
    <2> QED
      BY <1>0, <2>2, <2>4, <2>6, QuietKept DEF Sound, Later, Quiet, OldOutcome
  <1>5. CASE ~AlreadyPublished(m, r) /\ VerificationCurrent(m, r) /\ ~Local(r)
    <2>1. /\ rec' = t /\ UNCHANGED tree
          /\ job' = [job EXCEPT !.at = "push", !.repo = r, !.task = Idle.task]
      BY <1>5 DEF PublishMember
    <2>2. Still
      BY <1>0, <2>1 DEF Still
    <2>3. World' /\ Later(t)
      BY <2>2, StillKeeps
    <2>4. tree[r].content \in checked[r]
      BY <1>0, <1>1, <1>5 DEF VerificationCurrent, World
    <2>5. t.member[r].pr_head_sha # tree[r].content
      <3>1. t.member[r].pr_head_sha \in Nat /\ t.member[r].pr_head_sha <= tree[r].head
        BY <1>0, MemberOf DEF MemberGood, Member
      <3> QED
        BY <1>1, <1>5, <3>1 DEF AlreadyPublished, Dirty
    <2>6. Later(Reproduced) /\ Idle.task = Reproduced
      BY <2>3, IdleGood DEF Later, World, Checkout, TaskStates, Idle
    <2>7. "push" \in Waits
      BY DEF Waits
    <2>8. /\ job' \in Jobs /\ job'.at = "push" /\ job'.repo = r
          /\ job'.task = Idle.task /\ job'.todo = job.todo
      BY <1>0, <2>1, <2>6, <2>7 DEF Jobs, Later, Good
    <2>9. ~Review' => PublishedSoFar(rec, job.todo)'
      BY <1>0, <2>1, <2>8 DEF Linked, PublishedSoFar, Changed, Review
    <2>10. Linked'
      BY <1>5, <2>1, <2>2, <2>4, <2>5, <2>8, <2>9 DEF Linked, Local, Still
    <2>11. JobKept
      BY <2>6, <2>8, <2>10 DEF JobKept, Sound, Later
    <2> QED
      BY <1>0, <2>1, <2>3, <2>11, QuietKept DEF Sound, Later, Quiet, OldOutcome
  <1> QED
    BY <1>2, <1>3, <1>4, <1>5

LEMMA NextMemberStep ==
  ASSUME Inv, UNCHANGED setting, NEW r \in Repo, NextMember(r)
  PROVE  Kept
  <1>1. /\ job.at = "publishing" /\ ~Review /\ PublishMember(rec.member[r], rec, r)
        /\ UNCHANGED <<evidence, remote, integrated, hook, deployed>>
    BY DEF NextMember
  <1> QED
    BY <1>1, PublishMemberKeeps DEF Inv, OldOutcome

LEMMA PushStep ==
  ASSUME Inv, UNCHANGED setting, Push
  PROVE  Kept
  <1> DEFINE r == job.repo
  <1>1. /\ job.at = "push" /\ tree' = Committed(r)
        /\ remote' = [remote EXCEPT ![r] = tree'[r].head]
        /\ job' = [job EXCEPT !.at = "pushed"]
        /\ UNCHANGED <<rec, ledger, checked, integrated, hook, deployed>>
    BY DEF Push, evidence
  <1>2. /\ World /\ job \in Jobs /\ Sound(rec) /\ r \in Repo /\ ~Local(r) /\ job.task = Idle.task
        /\ rec.member[r].pr_head_sha # tree[r].content /\ tree[r].content \in checked[r]
        /\ ~Review => PublishedSoFar(rec, job.todo)
        /\ integrated' \in Revisions /\ Hooked'
    BY <1>1, HookKept DEF Inv, Linked
  <1> DEFINE n == tree[r].content
  <1>3. /\ tree \in [Repo -> Checkout] /\ remote \in [Repo -> Nat]
        /\ tree[r].head \in Nat /\ n \in Nat /\ tree[r].head <= n /\ 1 <= n
        /\ remote[r] \in Nat /\ remote[r] <= tree[r].head
    BY <1>2, WorldFields DEF World
  <1>4. /\ tree' \in [Repo -> Checkout]
        /\ tree'[r].head = n /\ tree'[r].content = n
        /\ \A q \in Repo \ {r} : tree'[q] = tree[q]
    BY <1>1, <1>2, <1>3 DEF Committed, Checkout
  <1>5. /\ remote' \in [Repo -> Nat] /\ remote'[r] = n
        /\ \A q \in Repo \ {r} : remote'[q] = remote[q]
    BY <1>1, <1>2, <1>3, <1>4
  <1>6. World'
    <2>1. ASSUME NEW q \in Repo
          PROVE  /\ 1 <= tree'[q].head /\ tree'[q].head <= tree'[q].content
                 /\ tree'[q].content <= setting.versions[q]
                 /\ ledger[q] <= tree'[q].content \/ ledger[q] = Failed(q)
                 /\ ledger[q] # 0 /\ ledger[q] <= tree'[q].content => ledger[q] \in checked[q]
                 /\ remote'[q] <= tree'[q].head /\ (remote'[q] # 0 => remote'[q] \in checked[q])
                 /\ checked[q] \subseteq 1..tree'[q].content
                 /\ deployed[q] \subseteq 1..remote'[q]
      <3>1. CASE q # r
        BY <1>2, <1>4, <1>5, <3>1 DEF World
      <3>2. CASE q = r
        BY <1>2, <1>3, <1>4, <1>5, <3>2 DEF World
      <3> QED
        BY <3>1, <3>2
    <2> HIDE DEF r, n
    <2> QED
      BY <1>1, <1>2, <1>4, <1>5, <2>1 DEF World, Failed
  <1>7. Sound(rec)'
    <2>1. ASSUME NEW q \in Repo
          PROVE  MemberGood(rec.member[q], q, setting, tree'[q].head, remote'[q],
                            checked[q], deployed[q])
      <3>1. MemberGood(rec.member[q], q, setting, tree[q].head, remote[q],
                       checked[q], deployed[q])
        BY <1>2, MemberOf
      <3>2. CASE q # r
        BY <1>4, <1>5, <3>1, <3>2
      <3>3. CASE q = r
        BY <1>2, <1>3, <1>4, <1>5, <3>1, <3>3 DEF MemberGood, Member
      <3> QED
        BY <3>2, <3>3
    <2> HIDE DEF r, n
    <2> QED
      BY <1>1, <1>2, <2>1 DEF Sound, Good
  <1>8. JobKept
    <2>1. "pushed" \in Waits
      BY DEF Waits
    <2>2. /\ job' \in Jobs /\ job'.at = "pushed" /\ job'.repo = r /\ job'.task = Idle.task
          /\ job'.todo = job.todo
      BY <1>1, <1>2, <2>1 DEF Jobs
    <2>3. Sound(job.task)'
      BY <1>6, <2>2, IdleGood DEF Sound, Idle, World, Checkout, TaskStates
    <2>4. ~Review => PublishedSoFar(rec, job.todo)'
      <3>1. \A q \in Repo : tree'[q].content = tree[q].content
        BY <1>4
      <3> HIDE DEF r, n
      <3> QED
        BY <1>1, <1>2, <2>2, <3>1 DEF PublishedSoFar, Changed
    <2>5. ~Dirty(r)' /\ ~Local(r)' /\ Review' = Review
      BY <1>2, <1>4, <2>2 DEF Dirty, Local, Review
    <2>6. rec'.member[r].pr_head_sha # tree'[r].head /\ remote'[r] = tree'[r].head
      BY <1>1, <1>2, <1>4, <1>5
    <2>7. Linked'
      <3> HIDE DEF n
      <3> QED
        BY <1>2, <2>2, <2>4, <2>5, <2>6 DEF Linked, Dirty, Local
    <2> QED
      BY <2>2, <2>3, <2>7 DEF JobKept
  <1> QED
    BY <1>1, <1>2, <1>6, <1>7, <1>8, QuietKept DEF Quiet

\* A run or tool that raises, after an exhausted budget blocked the task or not.
LEMMA RaiseOrBlock ==
  ASSUME Inv, UNCHANGED setting, Still, Aside,
         Raise(rec) \/ (~Over /\ rec' = Moved(rec, "blocked") /\ Return)
  PROVE  Kept
  <1>2. World' /\ Later(rec) /\ Hooked' /\ integrated' \in Revisions
    BY StillKeeps DEF Aside, Inv
  <1>3. CASE Raise(rec)
    <2>1. Sound(rec)' /\ JobKept /\ rec'.state \in {rec.state, "failed"}
      BY <1>2, <1>3, RaiseKeeps
    <2> QED
      BY <1>2, <2>1, QuietKept DEF Quiet
  <1>4. CASE ~Over /\ rec' = Moved(rec, "blocked") /\ Return
    <2>1. Sound(rec)' /\ rec'.state = "blocked"
      BY <1>2, <1>4, MovedGood DEF Sound, Later, TaskStates, TerminalStates
    <2>2. JobKept
      BY <1>2, <1>4, Rested DEF JobKept
    <2> QED
      BY <1>2, <2>1, <2>2, QuietKept DEF Quiet
  <1> QED
    BY <1>3, <1>4

LEMMA PublishRaisesStep ==
  ASSUME Inv, UNCHANGED setting, PublishRaises
  PROVE  Kept
  BY RaiseOrBlock DEF PublishRaises, evidence, Still, Aside

LEMMA CheckpointStep ==
  ASSUME Inv, UNCHANGED setting, Checkpoint
  PROVE  Kept
  <1> DEFINE r == job.repo
  <1>1. /\ job.at = "pushed" /\ rec' = Published(rec, r) /\ Done(r) /\ UNCHANGED tree
        /\ Still /\ Aside
    BY DEF Checkpoint, evidence, Still, Aside
  <1>2. /\ World' /\ Later(rec) /\ Hooked' /\ integrated' \in Revisions
    BY <1>1, StillKeeps DEF Aside, Inv
  <1>3. /\ r \in Repo /\ ~Local(r) /\ rec.member[r].pr_head_sha # tree[r].head
        /\ remote[r] = tree[r].head /\ ~Dirty(r)
    BY <1>1 DEF Inv, Linked
  <1> HIDE DEF r
  <1>4. /\ Later(rec') /\ rec'.state = rec.state
        /\ rec'.member[r].pr_head_sha = tree'[r].head
        /\ \A q \in Repo \ {r} : rec'.member[q] = rec.member[q]
    BY <1>1, <1>2, <1>3, PublishedGood DEF Still
  <1>5. ~Review => PublishedSoFar(rec, job.todo)'
    <2>1. tree'[r].head = tree'[r].content
      BY <1>1, <1>3 DEF Dirty
    <2> QED
      BY <1>1, <1>3, <1>4, <2>1, LoopSoFar
  <1>6. JobKept
    BY <1>1, <1>2, <1>5, DoneKeeps
  <1> QED
    BY <1>2, <1>4, <1>6, QuietKept DEF Sound, Later, Quiet

LEMMA AllMembersDoneStep ==
  ASSUME Inv, UNCHANGED setting, AllMembersDone
  PROVE  Kept
  <1>1. /\ Still /\ Aside /\ UNCHANGED rec /\ job.at = "publishing" /\ job.todo = {}
        /\ job' = [job EXCEPT !.at = "sync"]
    BY DEF AllMembersDone, evidence, Still, Aside
  <1>2. /\ World' /\ Later(rec) /\ Later(job.task) /\ Hooked' /\ integrated' \in Revisions
        /\ job \in Jobs
    BY <1>1, StillKeeps DEF Aside, Inv
  <1>3. "sync" \in Waits
    BY DEF Waits
  <1>4. job' \in Jobs /\ job'.at = "sync" /\ job'.task = job.task
    BY <1>1, <1>2, <1>3 DEF Jobs
  <1>5. ~Review' => PublishedSoFar(rec, {})'
    BY <1>1 DEF Inv, Linked, PublishedSoFar, Changed, Still, Review
  <1>6. Linked'
    BY <1>4, <1>5 DEF Linked
  <1> QED
    BY <1>1, <1>2, <1>4, <1>6, QuietKept DEF JobKept, Sound, Later, Quiet

LEMMA PublishEndsStep ==
  ASSUME Inv, UNCHANGED setting, PublishEnds
  PROVE  Kept
  <1>1. Still /\ Aside /\ job.at = "sync" /\ AfterPublish(rec)
    BY DEF PublishEnds, evidence, Still, Aside
  <1>2. Sound(rec) /\ (~Review => PublishedSoFar(rec, {}))
    BY <1>1 DEF Inv, Linked
  <1> QED
    BY <1>1, <1>2, AfterPublishKeeps DEF OldOutcome

-----------------------------------------------------------------------------
(* The review of a member.                                                 *)

LEMMA ReviewStartsStep ==
  ASSUME Inv, UNCHANGED setting, NEW r \in Repo, ReviewStarts(r)
  PROVE  Kept
  <1>1. /\ Still /\ Aside /\ Review
        /\ IF Over THEN AfterPublish(rec)
           ELSE /\ job' = [job EXCEPT !.at = "commit", !.repo = r, !.task = rec]
                /\ UNCHANGED rec
    BY DEF ReviewStarts, evidence, Still, Aside
  <1>2. /\ World' /\ Sound(rec) /\ Later(rec) /\ Hooked' /\ integrated' \in Revisions
        /\ job \in Jobs /\ job.at = "publishing"
    BY <1>1, StillKeeps DEF Aside, Inv, ReviewStarts
  <1>3. CASE Over
    BY <1>1, <1>2, <1>3, AfterPublishKeeps DEF OldOutcome
  <1>4. CASE ~Over
    <2>1. "commit" \in Waits /\ rec \in Task
      BY <1>2 DEF Waits, Later, Good
    <2>2. job' \in Jobs /\ job'.at = "commit" /\ job'.repo = r /\ job'.task = rec
      BY <1>1, <1>2, <1>4, <2>1 DEF Jobs
    <2>3. UNCHANGED rec
      BY <1>1, <1>4
    <2>4. Linked'
      BY <1>1, <1>4, <2>2, <2>3 DEF Linked, SameHeads, Review, Over
    <2> QED
      BY <1>2, <2>2, <2>3, <2>4, QuietKept DEF JobKept, Sound, Later, Quiet
  <1> QED
    BY <1>3, <1>4

\* The commit of a review is a version no branch holds yet.
LEMMA ReviewCommitsStep ==
  ASSUME Inv, UNCHANGED setting, ReviewCommits
  PROVE  Kept
  <1> DEFINE r == job.repo
  <1>1. /\ job.at = "commit" /\ UNCHANGED <<ledger, checked, remote, integrated, hook, deployed>>
    BY DEF ReviewCommits, evidence
  <1>2. /\ World /\ job \in Jobs /\ Sound(rec) /\ Sound(job.task) /\ r \in Repo /\ Review
        /\ job.task.state \notin TerminalStates /\ SameHeads(job.task, rec)
        /\ integrated' \in Revisions /\ Hooked'
    BY <1>1, HookKept DEF Inv, Linked
  <1>3. "review" \in Waits
    BY DEF Waits
  <1>4. CASE ~Dirty(r)
    <2>1. Still /\ UNCHANGED rec /\ job' = [job EXCEPT !.at = "review"]
      BY <1>1, <1>4 DEF ReviewCommits, Still
    <2>2. World' /\ Later(rec) /\ Later(job.task)
      BY <2>1, StillKeeps
    <2>3. job' \in Jobs /\ job'.at = "review" /\ job'.repo = r /\ job'.task = job.task
      BY <1>2, <1>3, <2>1 DEF Jobs
    <2>4. Linked'
      BY <1>2, <1>4, <2>1, <2>3 DEF Linked, SameHeads, Review, Dirty, Still
    <2> QED
      BY <1>2, <2>1, <2>2, <2>3, <2>4, QuietKept DEF JobKept, Sound, Later, Quiet
  <1>5. CASE Dirty(r)
    <2> DEFINE v == tree[r].content
               q == job.task.member[r]
               m == [q EXCEPT !.pr_head_sha = v, !.changed = TRUE]
               u == [job.task EXCEPT !.comments = q.comments]
               t == With(u, r, m)
    <2>1. /\ tree' = Committed(r) /\ rec' = t /\ job' = [job EXCEPT !.at = "review", !.task = t]
      BY <1>5 DEF ReviewCommits, With
    <2>2. /\ World' /\ Later(job.task)
          /\ tree'[r].head = v /\ tree'[r].content = v
      BY <1>1, <1>2, <2>1, CommittedWorld
    <2>3. /\ v \in Nat /\ v # 0 /\ remote'[r] \in Nat /\ remote'[r] <= tree[r].head
          /\ tree[r].head \in Nat /\ tree[r].head < v
      BY <1>1, <1>2, <1>5, WorldFields DEF Dirty
    <2>4. /\ MemberGood(q, r, setting', tree'[r].head, remote'[r], checked'[r], deployed'[r])
          /\ job.task \in Task
      BY <1>2, <2>2, GoodFields DEF Later
    <2>5. q \in Member /\ q.comments \in SUBSET Comment
      BY <2>4 DEF MemberGood, Member
    <2>6. Later(u) /\ u.state = job.task.state /\ u.member = job.task.member
      <3> DEFINE c == q.comments
      <3>1. c \in SUBSET Comment
        BY <2>5
      <3> HIDE DEF c
      <3>2. [job.task EXCEPT !.comments = c] \in Task
            /\ [job.task EXCEPT !.comments = c].state = job.task.state
            /\ [job.task EXCEPT !.comments = c].attempts = job.task.attempts
            /\ [job.task EXCEPT !.comments = c].member = job.task.member
        BY <2>4, <3>1 DEF Task
      <3>3. Good([job.task EXCEPT !.comments = c], setting', tree', remote', checked', deployed')
        BY <2>2, <3>2 DEF Later, Good
      <3> QED
        BY <3>2, <3>3 DEF Later, c
    <2> HIDE DEF v, q, u
    <2>7. /\ m \in Member /\ m.pr_head_sha = v /\ m.changed = TRUE /\ m.pr = q.pr
          /\ m.deployment_sha = q.deployment_sha /\ m.playwright = q.playwright
          /\ m.verification_sha = q.verification_sha /\ m.code_review_sha = q.code_review_sha
      BY <2>3, <2>5 DEF Member
    <2>8. MemberGood(m, r, setting', tree'[r].head, remote'[r], checked'[r], deployed'[r])
      <3>1. setting'.review
        BY <1>2 DEF Review
      <3> HIDE DEF m
      <3> QED
        BY <2>2, <2>3, <2>4, <2>7, <3>1 DEF MemberGood, Member
    <2> HIDE DEF m
    <2>9. Later(t) /\ t.state = u.state
      BY <1>2, <2>6, <2>8, WithGood DEF Later
    <2> HIDE DEF t
    <2>10. /\ job' \in Jobs /\ job'.at = "review" /\ job'.repo = r /\ job'.task = rec'
      <3>1. t \in Task
        BY <2>9 DEF Later, Good
      <3> QED
        BY <1>2, <1>3, <2>1, <3>1 DEF Jobs
    <2>11. Linked'
      <3>1. ~Dirty(r)'
        BY <2>2, <2>10 DEF Dirty
      <3> QED
        BY <1>2, <2>2, <2>10, <3>1 DEF Linked, SameHeads, Review, Dirty
    <2>12. Inv'
      BY <1>2, <2>1, <2>2, <2>9, <2>10, <2>11 DEF Inv, Sound, Later
    <2>13. rec'.state # "completed"
      BY <1>2, <2>1, <2>6, <2>9 DEF TerminalStates
    <2> QED
      BY <1>2, <2>12, <2>13 DEF Kept
  <1> QED
    BY <1>4, <1>5

LEMMA ReviewSkippedStep ==
  ASSUME Inv, UNCHANGED setting, ReviewSkipped
  PROVE  Kept
  <1>1. /\ job.at = "review" /\ PublishMember(Seen(job.repo), rec, job.repo)
        /\ UNCHANGED <<evidence, remote, integrated, hook, deployed>>
    BY DEF ReviewSkipped
  <1>2. /\ Sound(rec) /\ job.repo \in Repo /\ Review /\ ~Dirty(job.repo)
        /\ Seen(job.repo).pr_head_sha = rec.member[job.repo].pr_head_sha
    BY <1>1 DEF Inv, Linked, SameHeads, Seen
  <1> QED
    BY <1>1, <1>2, PublishMemberKeeps DEF OldOutcome

LEMMA ReviewPassesStep ==
  ASSUME Inv, UNCHANGED setting, ReviewPasses
  PROVE  Kept
  <1> DEFINE r == job.repo
             h == tree[r].head
             m == rec.member[r]
             q == [m EXCEPT !.code_review_sha = h]
             t == With(rec, r, q)
  <1>1. /\ job.at = "review" /\ PublishMember(Seen(r), t, r)
        /\ UNCHANGED <<evidence, remote, integrated, hook, deployed>>
    BY DEF ReviewPasses, With
  <1>2. /\ World /\ Sound(rec) /\ r \in Repo /\ Review /\ ~Dirty(r)
        /\ Seen(r).pr_head_sha = m.pr_head_sha
    BY <1>1 DEF Inv, Linked, SameHeads, Seen
  <1>3. /\ h \in Nat /\ remote[r] \in Nat
        /\ MemberGood(m, r, setting, h, remote[r], checked[r], deployed[r])
    BY <1>2, WorldFields, MemberOf
  <1> HIDE DEF h, m
  <1>4. Alike(q, m, h) /\ q.deployment_sha = m.deployment_sha /\ q.pr_head_sha = m.pr_head_sha
    BY <1>3 DEF Alike, MemberGood, Member
  <1> HIDE DEF q
  <1>5. MemberGood(q, r, setting, tree[r].head, remote[r], checked[r], deployed[r])
    BY <1>3, <1>4, AlikeGood DEF h
  <1>6. Sound(t) /\ t.state = rec.state /\ t.member[r] = q
    BY <1>2, <1>5, WithGood DEF Sound
  <1> HIDE DEF t, r
  <1> QED
    BY <1>1, <1>2, <1>4, <1>6, PublishMemberKeeps DEF OldOutcome, m

LEMMA ReviewFindsStep ==
  ASSUME Inv, UNCHANGED setting, ReviewFinds
  PROVE  Kept
  <1> DEFINE r == job.repo
             m == rec.member[r]
             p == [m EXCEPT !.code_review_sha = 0]
             q == [p EXCEPT !.playwright = "none"]
             t == With(rec, r, q)
             s == IF rec.attempts + 1 >= MaxAttempts THEN "blocked" ELSE "reproducing"
  <1>1. /\ job.at = "review" /\ Still /\ Aside
        /\ IF Over THEN Raise(t) ELSE AfterPublish(Moved(t, s))
    <2>1. t = [rec EXCEPT !.member[r].code_review_sha = 0, !.member[r].playwright = "none"]
      BY DEF With
    <2> QED
      BY <2>1 DEF ReviewFinds, Still, Aside, evidence
  <1>2. /\ World /\ Sound(rec) /\ r \in Repo /\ Review
    BY <1>1 DEF Inv, Linked
  <1>3. /\ tree[r].head \in Nat /\ remote[r] \in Nat
        /\ MemberGood(m, r, setting, tree[r].head, remote[r], checked[r], deployed[r])
    BY <1>2, WorldFields, MemberOf
  <1> HIDE DEF m
  <1>4. Alike(q, m, tree[r].head) /\ q.deployment_sha = m.deployment_sha
    <2>1. /\ p \in Member /\ p.deployment_sha = m.deployment_sha /\ p.code_review_sha = 0
          /\ p.pr_head_sha = m.pr_head_sha /\ p.changed = m.changed /\ p.pr = m.pr
          /\ p.verification_sha = m.verification_sha
      BY <1>3 DEF MemberGood, Member
    <2> HIDE DEF p
    <2> QED
      BY <1>3, <2>1 DEF Alike, Member
  <1> HIDE DEF q
  <1>5. MemberGood(q, r, setting, tree[r].head, remote[r], checked[r], deployed[r])
    BY <1>3, <1>4, AlikeGood
  <1>6. Sound(t) /\ t.state = rec.state
    BY <1>2, <1>5, WithGood DEF Sound
  <1> HIDE DEF t, r
  <1>7. /\ s \in TaskStates /\ s \notin {"completed", "waiting_for_deployment"}
    BY DEF TaskStates
  <1> HIDE DEF s
  <1>8. CASE Over
    <2>1. World' /\ Later(t) /\ Hooked' /\ integrated' \in Revisions
      BY <1>1, <1>6, StillKeeps DEF Aside, Inv
    <2>2. Sound(rec)' /\ JobKept /\ rec'.state \in {t.state, "failed"}
      BY <1>1, <1>8, <2>1, RaiseKeeps
    <2> QED
      BY <1>6, <2>1, <2>2, QuietKept DEF Quiet
  <1>9. CASE ~Over
    <2>1. Sound(Moved(t, s)) /\ Moved(t, s).state = s
      BY <1>6, <1>7, <1>9, MovedGood DEF Sound, Over
    <2> QED
      BY <1>1, <1>2, <1>7, <1>9, <2>1, AfterPublishKeeps DEF OldOutcome
  <1> QED
    BY <1>8, <1>9

LEMMA ReviewFailsStep ==
  ASSUME Inv, UNCHANGED setting, ReviewFails
  PROVE  Kept
  <1>1. /\ job.at \in {"commit", "review"} /\ Still /\ Aside
        /\ IF Over THEN Raise(rec) ELSE AfterPublish(Moved(rec, "blocked"))
    BY DEF ReviewFails, Still, Aside, evidence
  <1>2. World' /\ Sound(rec) /\ Later(rec) /\ Hooked' /\ integrated' \in Revisions /\ Review
    BY <1>1, StillKeeps DEF Aside, Inv, Linked
  <1>3. CASE Over
    <2>1. Sound(rec)' /\ JobKept /\ rec'.state \in {rec.state, "failed"}
      BY <1>1, <1>2, <1>3, RaiseKeeps
    <2> QED
      BY <1>2, <2>1, QuietKept DEF Quiet
  <1>4. CASE ~Over
    <2>1. Sound(Moved(rec, "blocked")) /\ Moved(rec, "blocked").state = "blocked"
      BY <1>2, MovedGood DEF Sound, TaskStates, TerminalStates
    <2> QED
      BY <1>1, <1>2, <1>4, <2>1, AfterPublishKeeps DEF OldOutcome
  <1> QED
    BY <1>3, <1>4

-----------------------------------------------------------------------------
(* Deployments.                                                            *)

LEMMA StartDeploymentStep ==
  ASSUME Inv, UNCHANGED setting, StartDeployment
  PROVE  Kept
  <1>1. /\ Still /\ Aside /\ UNCHANGED rec /\ job = Idle
        /\ rec.state \in {"testing_deployment", "waiting_for_review"}
        /\ job' = [Idle EXCEPT !.at = "deploying", !.task = rec, !.todo = Changed(rec)]
    BY DEF StartDeployment, evidence, Still, Aside
  <1>2. /\ World' /\ Later(rec) /\ Hooked' /\ integrated' \in Revisions /\ job \in Jobs
    BY <1>1, StillKeeps DEF Aside, Inv
  <1>3. "deploying" \in Waits /\ rec \in Task /\ Changed(rec) \in SUBSET Repo
    BY <1>2 DEF Waits, Later, Good, Changed
  <1>4. job' \in Jobs /\ job'.at = "deploying" /\ job'.task = rec'
    BY <1>1, <1>2, <1>3 DEF Jobs
  <1>5. Linked'
    BY <1>1, <1>4 DEF Linked, SameHeads
  <1> QED
    BY <1>1, <1>2, <1>4, <1>5, QuietKept DEF JobKept, Sound, Later, Quiet

LEMMA SkipMemberStep ==
  ASSUME Inv, UNCHANGED setting, NEW r \in Repo, SkipMember(r)
  PROVE  Kept
  <1>1. /\ Still /\ Aside /\ UNCHANGED rec /\ job.at = "deploying"
        /\ job' = [job EXCEPT !.todo = job.todo \ {r}]
    BY DEF SkipMember, evidence, Still, Aside
  <1>2. /\ World' /\ Later(rec) /\ Later(job.task) /\ Hooked' /\ integrated' \in Revisions
        /\ job \in Jobs /\ Linked
    BY <1>1, StillKeeps DEF Aside, Inv
  <1>3. job' \in Jobs /\ job'.at = "deploying" /\ job'.task = job.task
    BY <1>1, <1>2 DEF Jobs
  <1>4. Linked'
    BY <1>1, <1>2, <1>3 DEF Linked, SameHeads
  <1> QED
    BY <1>1, <1>2, <1>3, <1>4, QuietKept DEF JobKept, Sound, Later, Quiet

\* A pass is recorded for the deployment the record has by now, which is the
\* one that was tested: the verifier was given the head.
LEMMA VerifyMemberStep ==
  ASSUME Inv, UNCHANGED setting, NEW r \in Repo, NEW ok \in BOOLEAN, VerifyMember(r, ok)
  PROVE  Kept
  <1> DEFINE sha == job.task.member[r].deployment_sha
             m == rec.member[r]
             p == IF ok THEN "passed" ELSE "none"
             q == [m EXCEPT !.playwright = p]
             t == With(rec, r, q)
             d == deployed[r] \union (IF ok THEN {sha} ELSE {})
  <1>1. /\ job.at = "deploying" /\ sha # 0 /\ (ok => Accepts(rec, r, sha))
        /\ deployed' = [deployed EXCEPT ![r] = d]
        /\ job' = [job EXCEPT !.at = "report", !.repo = r, !.ok = ok, !.task = t]
        /\ UNCHANGED <<rec, tree, ledger, checked, remote, integrated, hook>>
    BY DEF VerifyMember, Untested, evidence, With
  <1>2. /\ World /\ Sound(rec) /\ Sound(job.task) /\ job \in Jobs /\ Linked
        /\ integrated' \in Revisions
    BY <1>1 DEF Inv
  <1>3. /\ tree[r].head \in Nat /\ remote[r] \in Nat
        /\ MemberGood(m, r, setting, tree[r].head, remote[r], checked[r], deployed[r])
        /\ MemberGood(job.task.member[r], r, setting, tree[r].head, remote[r],
                      checked[r], deployed[r])
    BY <1>2, WorldFields, MemberOf
  <1>4. /\ m \in Member /\ sha \in Nat /\ sha <= remote[r]
        /\ m.deployment_sha \in {sha, m.pr_head_sha}
        /\ rec.state # "waiting_for_deployment"
        /\ (ok => m.pr_head_sha = sha)
    <2>1. m.deployment_sha \in {sha, m.pr_head_sha} /\ rec.state # "waiting_for_deployment"
      BY <1>1, <1>2 DEF Linked
    <2>2. m \in Member /\ sha \in Nat /\ sha <= remote[r]
      BY <1>3 DEF MemberGood, Member
    <2>3. ok => m.pr_head_sha = sha
      BY <1>1 DEF Accepts
    <2> QED
      BY <2>1, <2>2, <2>3
  <1> HIDE DEF sha
  <1>5. d \in SUBSET Nat /\ d \subseteq 1..remote[r] /\ deployed[r] \subseteq d /\ (ok => sha \in d)
    BY <1>1, <1>2, <1>3, <1>4 DEF World
  <1> HIDE DEF d
  <1>6. /\ deployed' \in [Repo -> SUBSET Nat] /\ deployed'[r] = d
        /\ \A z \in Repo \ {r} : deployed'[z] = deployed[z]
    BY <1>1, <1>2, <1>5 DEF World
  <1>7. World'
    <2>1. \A z \in Repo : deployed'[z] \subseteq 1..remote[z]
      BY <1>2, <1>5, <1>6 DEF World
    <2> QED
      BY <1>1, <1>2, <1>6, <2>1 DEF World, Failed
  <1>8. \A u : Sound(u) => Later(u)
    <2>1. \A z \in Repo : /\ tree[z].head \in Nat /\ tree'[z].head \in Nat
                         /\ tree[z].head <= tree'[z].head
                         /\ checked[z] \subseteq checked'[z] /\ deployed[z] \subseteq deployed'[z]
      BY <1>1, <1>2, <1>5, <1>6, WorldFields
    <2> QED
      BY <1>1, <2>1, Grown DEF Sound, Later
  <1>9. Hooked'
    BY <1>1, <1>5, <1>6, HookKept
  <1>10. MemberGood(q, r, setting, tree[r].head, remote[r], checked[r], d)
    <2> HIDE DEF m
    <2>1. /\ q \in Member /\ q.pr_head_sha = m.pr_head_sha /\ q.changed = m.changed /\ q.pr = m.pr
          /\ q.verification_sha = m.verification_sha /\ q.code_review_sha = m.code_review_sha
          /\ q.deployment_sha = m.deployment_sha /\ q.playwright = p
      BY <1>4 DEF Member
    <2> HIDE DEF q
    <2>2. ok => q.deployment_sha = sha /\ q.pr_head_sha = sha
      BY <1>4, <2>1
    <2> QED
      BY <1>3, <1>5, <2>1, <2>2 DEF MemberGood
  <1>11. Later(rec)
    BY <1>2, <1>8
  <1>12. /\ MemberGood(q, r, setting', tree'[r].head, remote'[r], checked'[r], deployed'[r])
         /\ q.pr_head_sha = m.pr_head_sha /\ q.deployment_sha = m.deployment_sha
    <2>1. q.pr_head_sha = m.pr_head_sha /\ q.deployment_sha = m.deployment_sha
      BY <1>4 DEF Member
    <2> HIDE DEF q
    <2> QED
      BY <1>1, <1>6, <1>10, <2>1
  <1> HIDE DEF q
  <1>13. /\ Later(t) /\ t.state = rec.state /\ t.member[r] = q
         /\ \A z \in Repo \ {r} : t.member[z] = rec.member[z]
    BY <1>11, <1>12, WithGood DEF Later
  <1>14. "report" \in Waits /\ t \in Task
    BY <1>13 DEF Waits, Later, Good
  <1>15. job' \in Jobs /\ job'.at = "report" /\ job'.repo = r /\ job'.task = t
    BY <1>1, <1>2, <1>14 DEF Jobs
  <1> HIDE DEF t
  <1>16. SameHeads(t, rec')
         /\ \A z \in Repo : rec'.member[z].deployment_sha = t.member[z].deployment_sha
    BY <1>1, <1>12, <1>13 DEF SameHeads, m
  <1>17. Linked'
    BY <1>1, <1>4, <1>13, <1>15, <1>16 DEF Linked, SameHeads
  <1> QED
    BY <1>1, <1>2, <1>7, <1>9, <1>11, <1>13, <1>15, <1>17, QuietKept DEF JobKept, Sound, Later, Quiet

LEMMA ReportedStep ==
  ASSUME Inv, UNCHANGED setting, Reported
  PROVE  Kept
  <1>1. job.at = "report" /\ Still /\ Aside
    BY DEF Reported, evidence, Still, Aside
  <1>2. /\ World' /\ Later(rec) /\ Later(job.task) /\ Hooked' /\ integrated' \in Revisions
        /\ job \in Jobs /\ Linked
    BY <1>1, StillKeeps DEF Aside, Inv
  <1>3. CASE job.ok
    <2>1. /\ rec' = job.task
          /\ job' = [job EXCEPT !.at = "deploying", !.repo = Nobody, !.todo = job.todo \ {job.repo},
                                !.ok = FALSE]
      BY <1>3 DEF Reported
    <2>2. "deploying" \in Waits
      BY DEF Waits
    <2>3. job' \in Jobs /\ job'.at = "deploying" /\ job'.task = job.task
      BY <1>2, <2>1, <2>2 DEF Jobs
    <2>4. Linked'
      BY <1>1, <1>2, <2>1, <2>3 DEF Linked, SameHeads
    <2>5. Quiet
      BY <1>1, <1>2, <2>1 DEF Quiet, Linked
    <2> QED
      BY <1>2, <2>1, <2>3, <2>4, <2>5, QuietKept DEF JobKept, Sound, Later
  <1>4. CASE ~job.ok
    <2>1. ReturnIn(rec, "reproducing") /\ "reproducing" \in TaskStates
      BY <1>4 DEF Reported, TaskStates
    <2>2. Sound(rec)' /\ JobKept /\ rec'.state \in {"reproducing", rec.state, "failed"}
      BY <1>2, <2>1, ReturnInKeeps
    <2> QED
      BY <1>2, <2>2, QuietKept DEF Quiet
  <1> QED
    BY <1>3, <1>4

LEMMA DeploymentRaisesStep ==
  ASSUME Inv, UNCHANGED setting, DeploymentRaises
  PROVE  Kept
  BY RaiseOrBlock DEF DeploymentRaises, evidence, Still, Aside

LEMMA DeploymentEndsStep ==
  ASSUME Inv, UNCHANGED setting, DeploymentEnds
  PROVE  Kept
  <1>1. Still /\ Aside /\ job.at = "deploying"
    BY DEF DeploymentEnds, evidence, Still, Aside
  <1>2. /\ World' /\ Sound(rec) /\ Later(rec) /\ Hooked' /\ integrated' \in Revisions
    BY <1>1, StillKeeps DEF Aside, Inv
  <1>3. CASE MaybeComplete(rec)
    BY <1>1, <1>2, <1>3, MaybeCompleteKeeps DEF OldOutcome
  <1>4. CASE ReturnIn(rec, "waiting_for_review")
    <2>1. "waiting_for_review" \in TaskStates
      BY DEF TaskStates
    <2>2. Sound(rec)' /\ JobKept /\ rec'.state \in {"waiting_for_review", rec.state, "failed"}
      BY <1>2, <1>4, <2>1, ReturnInKeeps
    <2> QED
      BY <1>2, <2>2, QuietKept DEF Quiet
  <1>5. CASE UNCHANGED rec /\ Return
    <2>1. JobKept
      BY <1>2, <1>5, Rested DEF JobKept
    <2> QED
      BY <1>2, <1>5, <2>1, QuietKept DEF Sound, Later, Quiet
  <1> QED
    BY <1>3, <1>4, <1>5 DEF DeploymentEnds

LEMMA ReviewIdleStep ==
  ASSUME Inv, UNCHANGED setting, ReviewIdle
  PROVE  Kept
  <1>1. Still /\ Aside /\ MaybeComplete(rec) /\ Sound(rec)
    BY DEF ReviewIdle, evidence, Still, Aside, Inv
  <1> QED
    BY <1>1, MaybeCompleteKeeps DEF OldOutcome

-----------------------------------------------------------------------------
(* Webhooks, cancellation, and the death of the process.                   *)

LEMMA DeploymentArrivesStep ==
  ASSUME Inv, UNCHANGED setting, NEW r \in Repo, DeploymentArrives(r)
  PROVE  Kept
  <1> DEFINE b == remote[r]
             m == rec.member[r]
             q == [m EXCEPT !.deployment_sha = b]
             t == With(rec, r, q)
  <1>1. /\ ~Over /\ b # 0 /\ m.pr_head_sha = b /\ Still /\ Aside /\ UNCHANGED job
        /\ rec' = IF t.state = "waiting_for_deployment" THEN Moved(t, "testing_deployment") ELSE t
    BY DEF DeploymentArrives, Accepts, With, evidence, Still, Aside
  <1>2. /\ World /\ World' /\ Sound(rec) /\ Hooked' /\ integrated' \in Revisions
    BY <1>1, StillKeeps DEF Aside, Inv
  <1>3. /\ tree[r].head \in Nat /\ b \in Nat /\ b \in checked[r]
        /\ MemberGood(m, r, setting, tree[r].head, b, checked[r], deployed[r])
    BY <1>1, <1>2, WorldFields, MemberOf
  <1>4. m \in Member /\ m.code_review_sha <= tree[r].head
    BY <1>3 DEF MemberGood
  <1> HIDE DEF b, m
  <1>5. Alike(q, m, tree[r].head) /\ q.deployment_sha = b
    BY <1>3, <1>4 DEF Alike, Member
  <1> HIDE DEF q
  <1>6. MemberGood(q, r, setting, tree[r].head, remote[r], checked[r], deployed[r])
    BY <1>1, <1>3, <1>5, AlikeGood DEF b
  <1>7. /\ Sound(t) /\ t.state = rec.state /\ t.member[r] = q
        /\ \A z \in Repo \ {r} : t.member[z] = rec.member[z]
    BY <1>2, <1>6, WithGood DEF Sound
  <1> HIDE DEF t
  <1>8. /\ Sound(rec)' /\ rec'.member = t.member
        /\ rec'.state # "waiting_for_deployment" /\ (rec'.state = "completed" => rec.state = "completed")
    <2>1. CASE t.state = "waiting_for_deployment"
      <3>1. "testing_deployment" \in TaskStates /\ t.state \notin TerminalStates
        BY <2>1 DEF TaskStates, TerminalStates
      <3>2. Sound(Moved(t, "testing_deployment"))
            /\ Moved(t, "testing_deployment").member = t.member
            /\ Moved(t, "testing_deployment").state = "testing_deployment"
        BY <1>7, <3>1, MovedGood DEF Sound
      <3> QED
        BY <1>1, <2>1, <3>2 DEF Sound, Still
    <2>2. CASE t.state # "waiting_for_deployment"
      BY <1>1, <1>7, <2>2 DEF Sound, Still
    <2> QED
      BY <2>1, <2>2
  <1>9. \A z \in Repo :
          /\ rec'.member[z].pr_head_sha = rec.member[z].pr_head_sha
          /\ rec'.member[z].changed = rec.member[z].changed
          /\ rec'.member[z].pr = rec.member[z].pr
          /\ rec'.member[z].deployment_sha \in
               {rec.member[z].deployment_sha, rec.member[z].pr_head_sha}
    BY <1>1, <1>5, <1>7, <1>8 DEF Alike, m
  <1>10. rec.state # "completed"
    BY <1>1 DEF Over, TerminalStates
  <1>11. JobKept
    BY <1>1, <1>8, <1>9, <1>10, Nudged
  <1> QED
    BY <1>2, <1>8, <1>11, QuietKept DEF Quiet

LEMMA MergeArrivesStep ==
  ASSUME Inv, UNCHANGED setting, NEW r \in Repo, MergeArrives(r)
  PROVE  Kept
  <1> DEFINE m == rec.member[r]
             q == [m EXCEPT !.merged = TRUE]
             t == With(rec, r, q)
  <1>1. /\ ~Over /\ Still /\ UNCHANGED <<job, integrated>>
        /\ rec' = IF Completion(t) = "complete" /\ Can(t, "completed")
                  THEN Moved(t, "completed") ELSE t
        /\ hook' = IF Completion(t) = "integrate" THEN Revision(t) ELSE NoRevision
    BY DEF MergeArrives, With, evidence, Still
  <1>2. /\ World /\ World' /\ Sound(rec) /\ integrated' \in Revisions
    BY <1>1, StillKeeps DEF Inv
  <1>3. /\ tree[r].head \in Nat /\ remote[r] \in Nat
        /\ MemberGood(m, r, setting, tree[r].head, remote[r], checked[r], deployed[r])
    BY <1>2, WorldFields, MemberOf
  <1> HIDE DEF m
  <1>4. Alike(q, m, tree[r].head) /\ q.deployment_sha = m.deployment_sha
    BY <1>3 DEF Alike, MemberGood, Member
  <1> HIDE DEF q
  <1>5. MemberGood(q, r, setting, tree[r].head, remote[r], checked[r], deployed[r])
    BY <1>3, <1>4, AlikeGood
  <1>6. /\ Sound(t) /\ t.state = rec.state /\ t.member[r] = q
        /\ \A z \in Repo \ {r} : t.member[z] = rec.member[z]
    BY <1>2, <1>5, WithGood DEF Sound
  <1> HIDE DEF t
  <1>7. Hooked'
    <2>1. CASE Completion(t) = "integrate"
      <3>1. AllDeploymentsVerified(t)
        BY <2>1 DEF Completion
      <3>2. /\ Revision(t) \in Revisions /\ Revision(t) # NoRevision
            /\ RevisionGood(Revision(t), setting', checked', deployed')
        BY <1>1, <1>2, <1>6, <3>1, RevisionOfVerified DEF Still
      <3> QED
        BY <1>1, <2>1, <3>2 DEF Hooked
    <2>2. CASE Completion(t) # "integrate"
      BY <1>1, <2>2 DEF Hooked, Revisions
    <2> QED
      BY <2>1, <2>2
  <1>8. rec.state \notin TerminalStates /\ rec.state # "completed" /\ "completed" \in TaskStates
    BY <1>1 DEF Over, TerminalStates, TaskStates
  <1>9. /\ Sound(rec)' /\ rec'.member = t.member
        /\ rec'.state \in {rec.state, "completed"}
    <2>1. CASE Completion(t) = "complete" /\ Can(t, "completed")
      <3>1. /\ Sound(Moved(t, "completed")) /\ Moved(t, "completed").member = t.member
            /\ Moved(t, "completed").state = "completed"
        BY <1>6, <1>8, MovedGood DEF Sound
      <3> QED
        BY <1>1, <2>1, <3>1 DEF Sound, Still
    <2>2. CASE ~(Completion(t) = "complete" /\ Can(t, "completed"))
      BY <1>1, <1>6, <2>2 DEF Sound, Still
    <2> QED
      BY <2>1, <2>2
  <1>10. \A z \in Repo :
           /\ rec'.member[z].pr_head_sha = rec.member[z].pr_head_sha
           /\ rec'.member[z].changed = rec.member[z].changed
           /\ rec'.member[z].pr = rec.member[z].pr
           /\ rec'.member[z].deployment_sha \in
                {rec.member[z].deployment_sha, rec.member[z].pr_head_sha}
    BY <1>4, <1>6, <1>9 DEF Alike, m
  <1>11. JobKept
    BY <1>1, <1>8, <1>9, <1>10, Nudged
  <1>12. Inv'
    BY <1>2, <1>7, <1>9, <1>11 DEF Inv, JobKept
  <1>13. ASSUME rec'.state = "completed" PROVE CompletionEvidence'
    <2>1. Completion(t) = "complete"
      BY <1>1, <1>6, <1>8, <1>13
    <2>2. AllDeploymentsVerified(t) /\ (setting.integration => integrated = Revision(t))
      BY <2>1 DEF Completion
    <2>3. Revision(rec)' = Revision(t)
      BY <1>1, <1>9, SameRevision DEF Still
    <2>4. RevisionGood(Revision(t), setting', checked', deployed')
      BY <1>1, <1>2, <1>6, <2>2, RevisionOfVerified DEF Still
    <2>5. setting'.integration => integrated' = Revision(t)
      BY <1>1, <2>2 DEF Still
    <2> QED
      BY <1>2, <1>9, <2>3, <2>4, <2>5, Evident
  <1>14. WaitsForAll
    BY <1>9 DEF WaitsForAll
  <1> QED
    BY <1>12, <1>13, <1>14 DEF Kept

LEMMA CommentArrivesStep ==
  ASSUME Inv, UNCHANGED setting, NEW c \in Comment, CommentArrives(c)
  PROVE  Kept
  <1> DEFINE r == About[c]
             m == rec.member[r]
             n == m.comments \union {c}
             q == [m EXCEPT !.comments = n]
             t == With(rec, r, q)
  <1>1. /\ ~Over /\ Still /\ Aside /\ UNCHANGED job /\ rec' = t
    BY DEF CommentArrives, With, evidence, Still, Aside
  <1>2. /\ World /\ World' /\ Sound(rec) /\ Hooked' /\ integrated' \in Revisions
    BY <1>1, StillKeeps DEF Aside, Inv
  <1>3. r \in Repo
    BY ApplicationAssumption
  <1> HIDE DEF r
  <1>4. /\ tree[r].head \in Nat /\ remote[r] \in Nat
        /\ MemberGood(m, r, setting, tree[r].head, remote[r], checked[r], deployed[r])
    BY <1>2, <1>3, WorldFields, MemberOf
  <1> HIDE DEF m
  <1>5. n \in SUBSET Comment
    BY <1>4 DEF MemberGood, Member
  <1> HIDE DEF n
  <1>6. Alike(q, m, tree[r].head) /\ q.deployment_sha = m.deployment_sha
    BY <1>4, <1>5 DEF Alike, MemberGood, Member
  <1> HIDE DEF q
  <1>7. MemberGood(q, r, setting, tree[r].head, remote[r], checked[r], deployed[r])
    BY <1>4, <1>6, AlikeGood
  <1>8. /\ Sound(t) /\ t.state = rec.state /\ t.member[r] = q
        /\ \A z \in Repo \ {r} : t.member[z] = rec.member[z]
    BY <1>2, <1>3, <1>7, WithGood DEF Sound
  <1> HIDE DEF t
  <1>9. \A z \in Repo :
          /\ rec'.member[z].pr_head_sha = rec.member[z].pr_head_sha
          /\ rec'.member[z].changed = rec.member[z].changed
          /\ rec'.member[z].pr = rec.member[z].pr
          /\ rec'.member[z].deployment_sha \in
               {rec.member[z].deployment_sha, rec.member[z].pr_head_sha}
    BY <1>1, <1>6, <1>8 DEF Alike, m
  <1>10. JobKept
    BY <1>1, <1>8, <1>9, Nudged
  <1> QED
    BY <1>1, <1>2, <1>8, <1>10, QuietKept DEF Sound, Still, Quiet

LEMMA CancelStep ==
  ASSUME Inv, UNCHANGED setting, Cancel
  PROVE  Kept
  <1>1. /\ ~Over /\ Still /\ Aside /\ UNCHANGED job /\ rec' = Moved(rec, "cancelled")
    BY DEF Cancel, evidence, Still, Aside
  <1>2. /\ World' /\ Later(rec) /\ Hooked' /\ integrated' \in Revisions
    BY <1>1, StillKeeps DEF Aside, Inv
  <1>3. Sound(rec)' /\ rec'.state = "cancelled" /\ rec'.member = rec.member
    BY <1>1, <1>2, MovedGood DEF Sound, Later, TaskStates, TerminalStates
  <1>4. rec.state # "completed"
    BY <1>1 DEF Over, TerminalStates
  <1>5. \A r \in Repo : rec'.member[r] = rec.member[r]
    BY <1>3
  <1>6. JobKept
    BY <1>1, <1>3, <1>4, <1>5, Nudged
  <1> QED
    BY <1>2, <1>3, <1>6, QuietKept DEF Quiet

LEMMA CrashStep ==
  ASSUME Inv, UNCHANGED setting, Crash
  PROVE  Kept
  <1>1. Still /\ UNCHANGED <<rec, integrated>> /\ job' = Idle /\ hook' = NoRevision
    BY DEF Crash, evidence, Still
  <1>2. World' /\ Later(rec) /\ integrated' \in Revisions
    BY <1>1, StillKeeps DEF Inv
  <1>3. Hooked'
    BY <1>1 DEF Hooked, Revisions
  <1>4. JobKept
    BY <1>1, <1>2, Rested DEF JobKept
  <1> QED
    BY <1>1, <1>2, <1>3, <1>4, QuietKept DEF Sound, Later, Quiet

-----------------------------------------------------------------------------
(* Theorems.                                                               *)

LEMMA InitInv == Init => Inv
  <1> SUFFICES ASSUME Init PROVE Inv
    OBVIOUS
  <1>1. /\ setting \in Settings /\ rec = Reproduced
        /\ tree = [r \in Repo |-> [content |-> 1, head |-> 1]]
        /\ ledger = [r \in Repo |-> 0] /\ remote = [r \in Repo |-> 0]
        /\ checked = [r \in Repo |-> {}] /\ deployed = [r \in Repo |-> {}]
        /\ job = Idle /\ hook = NoRevision /\ integrated = NoRevision
    BY DEF Init
  <1>2. setting.versions \in [Repo -> Nat \ {0}]
    BY <1>1, ApplicationAssumption
  <1>3. \A r \in Repo :
          /\ tree[r] = [content |-> 1, head |-> 1]
          /\ ledger[r] = 0 /\ remote[r] = 0 /\ checked[r] = {} /\ deployed[r] = {}
          /\ setting.versions[r] \in Nat \ {0}
    BY <1>1, <1>2
  <1>4. World
    BY <1>1, <1>3 DEF World, Checkout
  <1>5. Sound(Reproduced)
    BY <1>3, IdleGood DEF Sound, TaskStates
  <1>6. Reproduced \in Task
    BY <1>5 DEF Sound, Good
  <1>7. Idle \in Jobs /\ Idle.at = "idle" /\ Idle.task = Reproduced
    BY <1>6 DEF Idle, Jobs, Revisions
  <1>8. Linked
    BY <1>1, <1>7 DEF Linked
  <1> QED
    BY <1>1, <1>4, <1>5, <1>7, <1>8 DEF Inv, Hooked, Revisions

LEMMA StepKept ==
  ASSUME Inv, Next
  PROVE  Kept
  <1>1. UNCHANGED setting
    BY DEF Next
  <1>2. CASE \E ok \in BOOLEAN : IntegrationEnds(ok) \/ HookEnds(ok)
    BY <1>1, <1>2, IntegrationEndsStep, HookEndsStep
  <1>3. CASE StartSession
    BY <1>1, <1>3, StartSessionStep
  <1>4. CASE SessionRaises \/ \E blocked \in BOOLEAN : SessionEnds(blocked)
    BY <1>1, <1>4, SessionOverStep
  <1>5. CASE \E r \in Repo, committed \in BOOLEAN : AgentEdits(r, committed)
    BY <1>1, <1>5, AgentEditsStep
  <1>6. CASE \E r \in Repo : RunTests(r) \/ ReusePass(r)
    BY <1>1, <1>6, RunTestsStep, ReusePassStep
  <1>7. CASE \E passed, stable \in BOOLEAN : TestEnds(passed, stable)
    BY <1>1, <1>7, TestEndsStep
  <1>8. CASE OpenPr \/ ResumePublishing
    BY <1>1, <1>8, OpenPrStep, ResumePublishingStep
  <1>9. CASE \E r \in Repo : NextMember(r) \/ ReviewStarts(r)
    BY <1>1, <1>9, NextMemberStep, ReviewStartsStep
  <1>10. CASE Push \/ PublishRaises \/ Checkpoint \/ AllMembersDone \/ PublishEnds
    BY <1>1, <1>10, PushStep, PublishRaisesStep, CheckpointStep, AllMembersDoneStep,
       PublishEndsStep
  <1>11. CASE ReviewCommits \/ ReviewSkipped \/ ReviewPasses \/ ReviewFinds \/ ReviewFails
    BY <1>1, <1>11, ReviewCommitsStep, ReviewSkippedStep, ReviewPassesStep,
       ReviewFindsStep, ReviewFailsStep
  <1>12. CASE StartDeployment \/ Reported \/ DeploymentRaises \/ DeploymentEnds \/ ReviewIdle
    BY <1>1, <1>12, StartDeploymentStep, ReportedStep, DeploymentRaisesStep,
       DeploymentEndsStep, ReviewIdleStep
  <1>13. CASE \/ \E r \in Repo : SkipMember(r)
              \/ \E r \in Repo, ok \in BOOLEAN : VerifyMember(r, ok)
    BY <1>1, <1>13, SkipMemberStep, VerifyMemberStep
  <1>14. CASE \E r \in Repo : DeploymentArrives(r) \/ MergeArrives(r)
    BY <1>1, <1>14, DeploymentArrivesStep, MergeArrivesStep
  <1>15. CASE \E c \in Comment : CommentArrives(c)
    BY <1>1, <1>15, CommentArrivesStep
  <1>16. CASE Cancel \/ Crash
    BY <1>1, <1>16, CancelStep, CrashStep
  <1> QED
    BY <1>2, <1>3, <1>4, <1>5, <1>6, <1>7, <1>8, <1>9, <1>10, <1>11, <1>12, <1>13,
       <1>14, <1>15, <1>16 DEF Next, Step

LEMMA IdleStepKept ==
  ASSUME Inv, UNCHANGED vars
  PROVE  Kept
  <1>1. Inv'
    BY DEF vars, Inv, World, Checkout, Sound, Good, Linked, Hooked, Dirty, Review, Local,
           SameHeads, PublishedSoFar, Changed, RevisionGood, Failed
  <1>2. rec' = rec
    BY DEF vars
  <1> QED
    BY <1>1, <1>2 DEF Kept, WaitsForAll

LEMMA BoxKept == Inv /\ [Next]_vars => Kept
  BY StepKept, IdleStepKept

\* For any repositories, comments, versions, budget and settings: the order of
\* the heads, the evidence behind what the records claim, and what a run at one
\* of its awaits may count on, whatever webhooks do meanwhile.
THEOREM ApplicationInvariant == Spec => []Inv
  <1>1. Inv /\ [Next]_vars => Inv'
    BY BoxKept DEF Kept
  <1> QED
    BY InitInv, <1>1, PTL DEF Spec

\* The members' records keep their fields in range: no version a checkout never
\* held, and no more attempts than the budget (_charge_attempt()).
THEOREM ApplicationTypes == Spec => []TypeOK
  <1>1. Inv => TypeOK
    <2> SUFFICES ASSUME Inv PROVE TypeOK
      OBVIOUS
    <2>1. World /\ Sound(rec) /\ job \in Jobs
      BY DEF Inv
    <2>2. /\ rec.state \in TaskStates /\ rec.attempts \in 0..MaxAttempts
          /\ rec.comments \subseteq Comment /\ DOMAIN rec.member = Repo
      BY <2>1, GoodFields DEF Sound
    <2>3. ASSUME NEW r \in Repo
          PROVE  /\ rec.member[r] \in Members(r)
                 /\ tree[r] \in [content : 1..setting.versions[r],
                                 head : 1..setting.versions[r]]
                 /\ ledger[r] \in Version(r) \union {Failed(r)} /\ remote[r] \in Version(r)
                 /\ checked[r] \subseteq Version(r) /\ deployed[r] \subseteq Version(r)
      <3>1. /\ setting.versions[r] \in Nat /\ tree[r] \in Checkout
            /\ tree[r].head \in Nat /\ tree[r].content \in Nat
            /\ 1 <= tree[r].head /\ tree[r].head <= tree[r].content
            /\ tree[r].content <= setting.versions[r]
            /\ ledger[r] \in Nat /\ remote[r] \in Nat /\ remote[r] <= tree[r].head
        BY <2>1, <2>3, WorldFields
      <3>2. /\ checked[r] \subseteq 1..tree[r].content /\ deployed[r] \subseteq 1..remote[r]
            /\ ledger[r] <= tree[r].content \/ ledger[r] = Failed(r)
        BY <2>1, <2>3 DEF World
      <3>3. MemberGood(rec.member[r], r, setting, tree[r].head, remote[r],
                       checked[r], deployed[r])
        BY <2>1, <2>3, MemberOf
      <3>4. rec.member[r] \in Members(r)
        BY <3>1, <3>3 DEF MemberGood, Member, Members, Version
      <3> QED
        BY <3>1, <3>2, <3>4 DEF Version, Failed, Checkout
    <2>4. job.at \in Waits \union {"idle"} /\ job.todo \subseteq Repo
      BY <2>1 DEF Jobs
    <2> QED
      BY <2>1, <2>2, <2>3, <2>4 DEF TypeOK, World
  <1> QED
    BY <1>1, ApplicationInvariant, PTL

\* A Playwright pass on record is that of a deployment that passed, and without
\* a code review of the very head that was published: publish() and the
\* webhooks that move the head or the deployment take the result away.
THEOREM PassStaysWithHead == Spec => []PassIsOfTheHead
  <1>1. Inv => PassIsOfTheHead
    <2> SUFFICES ASSUME Inv, NEW r \in Repo, rec.member[r].playwright = "passed"
                 PROVE  /\ rec.member[r].deployment_sha \in deployed[r]
                        /\ ~Review => rec.member[r].deployment_sha = rec.member[r].pr_head_sha
      BY DEF PassIsOfTheHead
    <2>1. World /\ Sound(rec)
      BY DEF Inv
    <2>2. MemberGood(rec.member[r], r, setting, tree[r].head, remote[r],
                     checked[r], deployed[r])
      BY <2>1, MemberOf
    <2>3. rec.member[r].deployment_sha \in deployed[r] /\ deployed[r] \subseteq 1..remote[r]
      BY <2>1, <2>2 DEF MemberGood, World
    <2>4. rec.member[r].deployment_sha # 0
      BY <2>1, <2>3, WorldFields
    <2> QED
      BY <2>2, <2>3, <2>4 DEF MemberGood, Review
  <1> QED
    BY <1>1, ApplicationInvariant, PTL

\* maybe_complete() from the run, the tool, the webhook and after the
\* integration command completes the task only with the evidence of every
\* changed repository for the head that was published.
THEOREM CompletionHasEvidence == Spec => CompletesWithEvidence
  <1>1. Inv /\ [Next]_vars =>
          [rec.state # "completed" /\ rec'.state = "completed" => CompletionEvidence']_vars
    BY BoxKept DEF Kept
  <1> QED
    BY <1>1, ApplicationInvariant, PTL DEF Spec, CompletesWithEvidence

\* Without a code review publish() lets the task wait for deployments only when
\* it has published what every changed repository holds, however often it was
\* cut short and resumed.
THEOREM WaitingIsPublished == Spec => WaitsForPublished
  <1>1. Inv /\ [Next]_vars => [~Review => WaitsForAll]_vars
    BY BoxKept DEF Kept
  <1> QED
    BY <1>1, ApplicationInvariant, PTL DEF Spec, WaitsForPublished
=============================================================================
