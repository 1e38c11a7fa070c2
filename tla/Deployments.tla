----------------------------- MODULE Deployments -----------------------------
(***************************************************************************)
(* The deployment service and the tables it shares with the handlers and   *)
(* the workers: deployments, deployment_steps, deployment_approvals and    *)
(* project_locks.  The database has one connection, so every transaction   *)
(* of the code is one action here.  What a handler or a worker does over   *)
(* several transactions is several actions, and anything may happen in     *)
(* between; `executing` and `optionsDue` remember who is in between.       *)
(***************************************************************************)
EXTENDS Integers, FiniteSets

CONSTANTS
    Project,         \* project ids
    NoProject,       \* the project column of a row that does not exist
    User,            \* reviewers
    Worker,          \* the runner goroutines, local-1 .. local-n
    Step,            \* the steps of a pipeline, in order
    BuildStep,       \* those of the build phase; the others are deploy steps
    Priority,        \* the priorities a request may ask for
    MaxDeployments,  \* bound: rows ever inserted
    MaxRequired,     \* bound: requiredApprovals of an environment
    MaxFaults        \* bound: statements that failed with nobody to retry them

ASSUME BoundsAssumption ==
    /\ MaxDeployments \in Nat \ {0}
    /\ MaxRequired \in Nat
    /\ MaxFaults \in Nat

ASSUME PipelineAssumption ==
    /\ Step \subseteq Nat \ {0}      \* sequence starts at 1
    /\ BuildStep \subseteq Step

ASSUME ConstantAssumption ==
    /\ NoProject \notin Project
    /\ Priority \subseteq Int
    /\ 0 \in Priority

VARIABLES
    dep,         \* dep[d]: the row of deployment d with its steps and reviews
    lock,        \* lock[p]: the project_locks row of p, NoDep when there is none
    executing,   \* executing[w]: the deployment worker w is in execute() for
    optionsDue,  \* optionsDue[d]: the project a handler remembers that has created d
                 \* and not yet run its second transaction, NoProject when none has
    faults       \* statements that failed so, for the database or because their
                 \* context had ended

vars == <<dep, lock, executing, optionsDue, faults>>

NoDep == 0
DepId == 1..MaxDeployments        \* AUTOINCREMENT: ids are never reused

Active   == {"preparing", "running", "cancelling"}
Terminal == {"succeeded", "failed", "cancelled", "timed_out"}
Outcome  == Terminal
StepEnd  == {"succeeded", "failed", "cancelled", "timed_out"}
Status   == {"none", "queued", "deleted"} \cup Active \cup Terminal

StepStatus == {"absent", "pending", "running", "skipped"} \cup StepEnd

Row == [status   : Status,
        project  : Project \cup {NoProject},
        approval : {"approved", "pending", "rejected"},
        required : 0..MaxRequired,        \* required_approvals
        environment : 0..MaxRequired,     \* requiredApprovals in environment_config_json
        priority : Priority,
        reviews  : [User -> {"none", "approved", "rejected"}],
        summary  : {"", "superseded", "rejected", "restarted", "error"},
        source   : DepId \cup {NoDep},
        artifact : BOOLEAN,
        step     : [Step -> StepStatus]]

NoRow == [status |-> "none", project |-> NoProject, approval |-> "approved",
          required |-> 0, environment |-> 0, priority |-> 0, reviews |-> [u \in User |-> "none"],
          summary |-> "", source |-> NoDep, artifact |-> FALSE,
          step |-> [n \in Step |-> "absent"]]

TypeOK ==
    /\ dep \in [DepId -> Row]
    /\ lock \in [Project -> DepId \cup {NoDep}]
    /\ executing \in [Worker -> DepId \cup {NoDep}]
    /\ optionsDue \in [DepId -> Project \cup {NoProject}]
    /\ faults \in 0..MaxFaults

-----------------------------------------------------------------------------
(* Queries *)

Exists(d) == dep[d].status \notin {"none", "deleted"}

IsFresh(d) ==                      \* the id the next INSERT gets
    /\ dep[d].status = "none"
    /\ \A e \in 1..(d - 1) : dep[e].status # "none"

\* Operators called ...Mutant are deliberately wrong: each has a mistake the code could
\* make in place of the definition that follows, and a property refutes it.
Approvers(d) == {u \in User : dep[d].reviews[u] = "approved"}

ClaimableMutant(d) ==              \* the lock is not looked at
    /\ dep[d].status = "queued"
    /\ dep[d].approval = "approved"

Claimable(d) ==
    /\ dep[d].status = "queued"
    /\ dep[d].approval = "approved"
    /\ lock[dep[d].project] = NoDep

\* ORDER BY priority DESC, queued_at, id.  queued_at is read inside the insert
\* transaction, so it grows with id; its textual order is another matter.
GoesBefore(d, e) ==
    \/ dep[d].priority > dep[e].priority
    \/ dep[d].priority = dep[e].priority /\ d < e

ReleaseMutant(d) == lock           \* the lock row is left behind

Release(d) == [p \in Project |-> IF lock[p] = d THEN NoDep ELSE lock[p]]

SkipPending(steps) ==
    [n \in Step |-> IF steps[n] = "pending" THEN "skipped" ELSE steps[n]]

Init ==
    /\ dep = [d \in DepId |-> NoRow]
    /\ lock = [p \in Project |-> NoDep]
    /\ executing = [w \in Worker |-> NoDep]
    /\ optionsDue = [d \in DepId |-> NoProject]
    /\ faults = 0

-----------------------------------------------------------------------------
(* Handlers *)

FirstApprovalMutant(required) ==   \* one approval is taken for none
    IF required > 1 THEN "pending" ELSE "approved"

FirstApprovalTypeMutant(required) ==      \* a value no column allows
    IF required > 0 THEN "pending" ELSE "none"

FirstApproval(required) == IF required > 0 THEN "pending" ELSE "approved"

\* createResolved's transaction.  A manual request or a schedule comes back with
\* a second transaction (withOptions); a webhook or a redeploy does not.
Create(d, p, r, withOptions) ==
    /\ IsFresh(d)
    /\ dep' = [dep EXCEPT ![d] =
                  [NoRow EXCEPT !.status = "queued",
                                !.project = p,
                                !.required = r,
                                !.environment = r,
                                !.approval = FirstApproval(r),
                                !.step = [n \in Step |-> "pending"]]]
    /\ optionsDue' = IF withOptions THEN [optionsDue EXCEPT ![d] = p] ELSE optionsDue
    /\ UNCHANGED <<lock, executing, faults>>

\* cancelPrevious: the other deployments of the project that wait.
Superseded(e, d) ==
    e # d /\ dep[e].project = optionsDue[d] /\ dep[e].status = "queued"

\* The second transaction of createDeployment and of runDueSchedule.  Retention may
\* have deleted d by then: the others are cancelled all the same.
ApplyOptions(d, priority, cancelPrevious) ==
    /\ optionsDue[d] # NoProject
    /\ dep' = [e \in DepId |->
                  IF e = d /\ Exists(d) THEN [dep[e] EXCEPT !.priority = priority]
                  ELSE IF cancelPrevious /\ Superseded(e, d)
                       THEN [dep[e] EXCEPT !.status = "cancelled",
                                           !.summary = "superseded"]
                       ELSE dep[e]]
    /\ optionsDue' = [optionsDue EXCEPT ![d] = NoProject]
    /\ UNCHANGED <<lock, executing, faults>>

\* The request's context ends (the client went away) before that transaction
\* commits, or a statement of it fails: the handler returns and the deployment keeps
\* the defaults.
LoseOptions(d) ==
    /\ optionsDue[d] # NoProject
    /\ optionsDue' = [optionsDue EXCEPT ![d] = NoProject]
    /\ UNCHANGED <<dep, lock, executing, faults>>

\* Rollback: a new deployment with the deploy steps of a successful one.  It takes
\* over the environment, but not the approvals this asks for: required_approvals
\* keeps its default and approval_status is 'approved'.
Rollback(d, s) ==
    /\ IsFresh(d)
    /\ dep[s].status = "succeeded"
    /\ dep[s].artifact
    /\ dep' = [dep EXCEPT ![d] =
                  [NoRow EXCEPT !.status = "queued",
                                !.project = dep[s].project,
                                !.environment = dep[s].environment,
                                !.source = s,
                                !.step = [n \in Step |->
                                    IF n \in BuildStep \/ dep[s].step[n] = "absent"
                                    THEN "absent" ELSE "pending"]]]
    /\ UNCHANGED <<lock, executing, optionsDue, faults>>

AwaitsReview(d) == dep[d].status = "queued" /\ dep[d].approval = "pending"

Approve(d, u) ==
    /\ AwaitsReview(d)
    /\ dep[d].reviews[u] = "none"            \* UNIQUE(deployment_id, user_id)
    /\ LET count == Cardinality(Approvers(d) \cup {u})
       IN dep' = [dep EXCEPT ![d] =
                     [@ EXCEPT !.reviews[u] = "approved",
                               !.approval = IF count >= dep[d].required
                                            THEN "approved" ELSE "pending"]]
    /\ UNCHANGED <<lock, executing, optionsDue, faults>>

\* The review row is inserted after the update and in the same transaction: when
\* this user has reviewed before, the UNIQUE constraint rolls both back.
Reject(d, u) ==
    /\ AwaitsReview(d)
    /\ dep[d].reviews[u] = "none"
    /\ dep' = [dep EXCEPT ![d] =
                  [@ EXCEPT !.reviews[u] = "rejected",
                            !.approval = "rejected",
                            !.status = "cancelled",
                            !.summary = "rejected"]]
    /\ UNCHANGED <<lock, executing, optionsDue, faults>>

AfterCancelMutant(status) == "cancelled"  \* the worker is not waited for

AfterCancel(status) == IF status = "queued" THEN "cancelled" ELSE "cancelling"

Cancel(d) ==
    /\ dep[d].status \in {"queued", "preparing", "running"}
    /\ dep' = [dep EXCEPT ![d].status = AfterCancel(dep[d].status)]
    /\ UNCHANGED <<lock, executing, optionsDue, faults>>

UnreferencedMutant(d) ==           \* only a rollback in progress protects its source
    \A e \in DepId : dep[e].status \in Active => dep[e].source # d

Unreferenced(d) == \A e \in DepId : Exists(e) => dep[e].source # d

\* The transaction that ends pruneDeployments for one row.  Reviews and steps go
\* with it by cascade; a rollback that names it as its source forbids it.
Delete(d) ==
    /\ dep[d].status \in Terminal
    /\ Unreferenced(d)
    /\ dep' = [dep EXCEPT ![d] = [NoRow EXCEPT !.status = "deleted"]]
    /\ lock' = Release(d)
    /\ UNCHANGED <<executing, optionsDue, faults>>

-----------------------------------------------------------------------------
(* Workers *)

\* The transaction of Claim: the best queued deployment of an unlocked project.
TakeLock(d) ==
    /\ Claimable(d)
    /\ \A e \in DepId : Claimable(e) => e = d \/ GoesBefore(d, e)
    /\ lock' = [lock EXCEPT ![dep[d].project] = d]
    /\ dep' = [dep EXCEPT ![d].status = "preparing"]

Claim(w, d) ==
    /\ executing[w] = NoDep
    /\ TakeLock(d)
    /\ executing' = [executing EXCEPT ![w] = d]
    /\ UNCHANGED <<optionsDue, faults>>

\* Claim committed, and reading the row back failed, in the database or because Stop
\* has ended the context meanwhile: the worker logs it and goes back to wait or returns,
\* and nobody executes the deployment.
ClaimWithoutReading(w, d) ==
    /\ executing[w] = NoDep
    /\ faults < MaxFaults
    /\ TakeLock(d)
    /\ faults' = faults + 1
    /\ UNCHANGED <<executing, optionsDue>>

\* run: UPDATE ... SET status='running' WHERE status='preparing'
MarkRunning(w) ==
    LET d == executing[w] IN
    /\ d # NoDep
    /\ dep[d].status = "preparing"
    /\ dep' = [dep EXCEPT ![d].status = "running"]
    /\ UNCHANGED <<lock, executing, optionsDue, faults>>

\* runStep's updates of the step row: running, then how it ended.
RecordStep(w, n, s) ==
    LET d == executing[w] IN
    /\ d # NoDep
    /\ dep[d].status \in {"running", "cancelling"}
    /\ \/ dep[d].step[n] = "pending" /\ s = "running"
       \/ dep[d].step[n] = "running" /\ s \in StepEnd
    /\ dep' = [dep EXCEPT ![d].step[n] = s]
    /\ UNCHANGED <<lock, executing, optionsDue, faults>>

\* saveArtifacts: UPDATE deployments SET artifact_path=...
SaveArtifact(w) ==
    LET d == executing[w] IN
    /\ d # NoDep
    /\ dep[d].status \in {"running", "cancelling"}
    /\ dep' = [dep EXCEPT ![d].artifact = TRUE]
    /\ UNCHANGED <<lock, executing, optionsDue, faults>>

\* pruneArtifacts, called right after: UPDATE ... SET artifact_path=NULL for one
\* version past the retention.  The query that chose it is an earlier statement,
\* so nothing about e but its project and its artifact is certain by now.
PruneArtifact(w, e) ==
    LET d == executing[w] IN
    /\ d # NoDep
    /\ dep[d].status \in {"running", "cancelling"}
    /\ dep[e].artifact /\ dep[e].project = dep[d].project
    /\ dep' = [dep EXCEPT ![e].artifact = FALSE]
    /\ UNCHANGED <<lock, executing, optionsDue, faults>>

SettledMutant(current, outcome) == outcome

\* What Finish makes of the outcome the worker reports.
Settled(current, outcome) ==
    IF current = "cancelling" /\ outcome = "succeeded" THEN "cancelled" ELSE outcome

IsSettledMutant(d) == dep[d].status \in Terminal \cup {"cancelling"}

IsSettled(d) == dep[d].status \in Terminal

FinishEffect(d, outcome) ==
    IF IsSettled(d)
    THEN UNCHANGED <<dep, lock>>
    ELSE LET final == Settled(dep[d].status, outcome) IN
         /\ dep' = [dep EXCEPT ![d] =
                [@ EXCEPT !.status = final,
                          !.summary = IF outcome = "succeeded" THEN "" ELSE "error",
                          !.step = IF final = "succeeded" THEN dep[d].step
                                    ELSE SkipPending(dep[d].step)]]
         /\ lock' = Release(d)

Finish(w, outcome) ==
    /\ executing[w] # NoDep
    /\ FinishEffect(executing[w], outcome)
    /\ executing' = [executing EXCEPT ![w] = NoDep]
    /\ UNCHANGED <<optionsDue, faults>>

\* Finish failed: the error is logged and the worker moves on.
FinishFails(w) ==
    /\ executing[w] # NoDep
    /\ faults < MaxFaults
    /\ faults' = faults + 1
    /\ executing' = [executing EXCEPT ![w] = NoDep]
    /\ UNCHANGED <<dep, lock, optionsDue>>

-----------------------------------------------------------------------------
(* The process ends, at any point, and the next one starts with recover(). *)

Recover ==
    /\ dep' = [d \in DepId |->
                  IF dep[d].status \in Active
                  THEN [dep[d] EXCEPT !.status = "failed", !.summary = "restarted"]
                  ELSE dep[d]]
    /\ lock' = [p \in Project |->
                   IF lock[p] # NoDep /\ dep'[lock[p]].status \in Terminal
                   THEN NoDep ELSE lock[p]]

Restart ==
    /\ Recover
    /\ executing' = [w \in Worker |-> NoDep]
    /\ optionsDue' = [d \in DepId |-> NoProject]
    /\ UNCHANGED faults

\* Start ignores recover's error.
RestartWithoutRecovery ==
    /\ faults < MaxFaults
    /\ faults' = faults + 1
    /\ executing' = [w \in Worker |-> NoDep]
    /\ optionsDue' = [d \in DepId |-> NoProject]
    /\ UNCHANGED <<dep, lock>>

-----------------------------------------------------------------------------
Request ==
    \E d \in DepId :
        \/ \E p \in Project, r \in 0..MaxRequired, o \in BOOLEAN : Create(d, p, r, o)
        \/ \E v \in Priority, c \in BOOLEAN : ApplyOptions(d, v, c)
        \/ LoseOptions(d)
        \/ \E s \in DepId : Rollback(d, s)
        \/ \E u \in User : Approve(d, u) \/ Reject(d, u)
        \/ Cancel(d)
        \/ Delete(d)

Work(w) ==
    \/ \E d \in DepId : Claim(w, d) \/ ClaimWithoutReading(w, d)
    \/ MarkRunning(w)
    \/ \E n \in Step, s \in StepStatus : RecordStep(w, n, s)
    \/ SaveArtifact(w)
    \/ \E e \in DepId : PruneArtifact(w, e)
    \/ \E o \in Outcome : Finish(w, o)
    \/ FinishFails(w)

Next ==
    \/ Request
    \/ \E w \in Worker : Work(w)
    \/ Restart
    \/ RestartWithoutRecovery

Spec == Init /\ [][Next]_vars

\* A worker scans the queue every second, and run() always returns: every step
\* has a timeout and is killed when it passes (module Runner).
Fairness ==
    \A w \in Worker :
        /\ WF_vars(\E d \in DepId : Claim(w, d))
        /\ WF_vars(\E o \in Outcome : Finish(w, o))

FairSpec == Spec /\ Fairness

-----------------------------------------------------------------------------
(* Properties *)

\* Mutual exclusion: a project never has two deployments in progress, however
\* claims, cancellations, finishes and restarts interleave.
OneActivePerProject ==
    \A d, e \in DepId :
        /\ dep[d].status \in Active
        /\ dep[e].status \in Active
        /\ dep[d].project = dep[e].project
        => d = e

\* The lock table and the rows agree: the lock of a project names a deployment of
\* that project which is in progress, and every deployment in progress is named.
\* No way out of a deployment leaves its lock behind.
LocksMatchRows ==
    /\ \A p \in Project : lock[p] # NoDep =>
          dep[lock[p]].project = p /\ dep[lock[p]].status \in Active
    /\ \A d \in DepId : dep[d].status \in Active =>
          dep[d].project \in Project /\ lock[dep[d].project] = d

\* A deployment is executed by one worker at most, and only while it is in
\* progress: nothing but that worker, or the end of the process, settles it.
ExecutionIsExclusive ==
    \A w \in Worker : executing[w] # NoDep =>
        /\ dep[executing[w]].status \in Active
        /\ \A v \in Worker : executing[v] = executing[w] => v = w

\* No deployment stays in progress with nobody executing it, unless a statement that
\* nobody retries has failed: the read behind a claim (for the database, or because Stop
\* has ended its context), the write of a result, or recover.
NoOrphan ==
    faults = 0 => \A d \in DepId : dep[d].status \in Active =>
                      \E w \in Worker : executing[w] = d

\* Approved by as many different reviewers as the environment in the row requires,
\* and rejected by none.
IsApproved(d) ==
    /\ dep[d].approval = "approved"
    /\ Cardinality(Approvers(d)) >= dep[d].environment
    /\ \A u \in User : dep[d].reviews[u] # "rejected"

\* The approval gate.  Nothing that was ever claimed got around the reviewers its
\* environment requires, except by Rollback, which asks nobody; and what a rollback
\* deploys again had passed the gate of the same environment, or was a rollback itself.
ApprovalGate ==
    /\ \A d \in DepId :
          dep[d].status \in Active \cup {"succeeded", "timed_out"} /\ dep[d].source = NoDep
              => IsApproved(d)
    /\ \A d \in DepId : Exists(d) /\ dep[d].source # NoDep =>
          /\ dep[dep[d].source].environment = dep[d].environment
          /\ dep[dep[d].source].source = NoDep => IsApproved(dep[d].source)

\* As long as a rollback exists, so does the successful deployment whose artifacts
\* and snapshots it was made from.
RollbackSourceKept ==
    \A d \in DepId : Exists(d) /\ dep[d].source # NoDep =>
        /\ dep[dep[d].source].status = "succeeded"
        /\ dep[dep[d].source].project = dep[d].project

\* The tables implement the abstract queue: terminal states are final, a
\* cancelling deployment never ends as a success, one at a time per project.
PhaseOf(s) ==
    CASE s = "none"      -> "none"
      [] s = "queued"    -> "waiting"
      [] s \in {"preparing", "running"} -> "working"
      [] s = "cancelling" -> "stopping"
      [] s = "succeeded" -> "success"
      [] s = "deleted"   -> "purged"
      [] OTHER -> "other"

phases == [d \in DepId |-> PhaseOf(dep[d].status)]
owners == [p \in Project |-> {d \in DepId : dep[d].project = p}]

Queue == INSTANCE ProjectQueue WITH phase <- phases, owner <- owners

ImplementsQueue == Queue!Spec

\* The queue drains: what is queued and approved is claimed or settled in the end.
ApprovedIsTaken ==
    \A d \in DepId :
        (dep[d].status = "queued" /\ dep[d].approval = "approved")
            ~> dep[d].status # "queued"

\* What was asked to stop does stop, and its project's lock is free again.
CancellingSettles ==
    \A d \in DepId : dep[d].status = "cancelling" ~> dep[d].status \notin Active
=============================================================================
