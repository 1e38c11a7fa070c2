--------------------------- MODULE DeploymentsProofs ---------------------------
(***************************************************************************)
(* What holds of the deployment tables for any projects, reviewers,        *)
(* workers, pipelines and bounds.                                          *)
(***************************************************************************)
EXTENDS Deployments, FiniteSetTheorems, TLAPS

\* A row of a deployment that does not exist is a row.
LEMMA NoRowType == NoRow \in Row
  BY ConstantAssumption, BoundsAssumption DEF NoRow, Row, Status, StepStatus, NoDep

\* Writing the status column, or the artifact column, of one row.
LEMMA StatusWrite ==
  ASSUME TypeOK, NEW d \in DepId, NEW s \in Status
  PROVE  [dep EXCEPT ![d].status = s] \in [DepId -> Row]
<1>1. dep[d] \in Row
  BY DEF TypeOK
<1>2. [dep[d] EXCEPT !.status = s] \in Row
  BY <1>1 DEF Row
<1> QED BY <1>2 DEF TypeOK

LEMMA ArtifactWrite ==
  ASSUME TypeOK, NEW d \in DepId, NEW b \in BOOLEAN
  PROVE  [dep EXCEPT ![d].artifact = b] \in [DepId -> Row]
<1>1. dep[d] \in Row
  BY DEF TypeOK
<1>2. [dep[d] EXCEPT !.artifact = b] \in Row
  BY <1>1 DEF Row
<1> QED BY <1>2 DEF TypeOK

LEMMA StatusOf ==
  ASSUME NEW r \in Row, NEW s
  PROVE  [r EXCEPT !.status = s].status = s /\ [r EXCEPT !.status = s].project = r.project
<1>1. [r EXCEPT !.status = s].status = s
  BY DEF Row
<1>2. [r EXCEPT !.status = s].project = r.project
  BY DEF Row
<1> QED BY <1>1, <1>2

LEMMA StatusRead ==
  ASSUME TypeOK, NEW d \in DepId, NEW s, dep' = [dep EXCEPT ![d].status = s]
  PROVE  dep'[d].status = s /\ dep'[d].project = dep[d].project
<1>1. dep'[d] = [dep[d] EXCEPT !.status = s] /\ dep[d] \in Row
  BY DEF TypeOK
<1>2. /\ [dep[d] EXCEPT !.status = s].status = s
      /\ [dep[d] EXCEPT !.status = s].project = dep[d].project
  BY <1>1, StatusOf
<1> QED BY <1>1, <1>2

\* Every column of every row keeps its type: an INSERT, an UPDATE or a DELETE of
\* the service writes only what the CHECK constraints of the tables allow.
LEMMA TypeInductive == TypeOK /\ [Next]_vars => TypeOK'
<1> SUFFICES ASSUME TypeOK, [Next]_vars PROVE TypeOK'
  OBVIOUS
<1> USE BoundsAssumption, ConstantAssumption, PipelineAssumption
<1> USE DEF TypeOK, NoDep
<1>1. ASSUME NEW d \in DepId, NEW p \in Project, NEW r \in 0..MaxRequired,
             NEW o \in BOOLEAN, Create(d, p, r, o)
      PROVE  TypeOK'
  <2>1. [NoRow EXCEPT !.status = "queued", !.project = p, !.required = r,
                      !.environment = r, !.approval = FirstApproval(r),
                      !.step = [n \in Step |-> "pending"]] \in Row
    BY NoRowType DEF NoRow, Row, Status, StepStatus, FirstApproval
  <2> QED BY <1>1, <2>1 DEF Create
<1>2. ASSUME NEW d \in DepId, NEW v \in Priority, NEW c \in BOOLEAN,
             ApplyOptions(d, v, c)
      PROVE  TypeOK'
  <2>1. ASSUME NEW e \in DepId
        PROVE  /\ [dep[e] EXCEPT !.priority = v] \in Row
               /\ [dep[e] EXCEPT !.status = "cancelled", !.summary = "superseded"] \in Row
    <3> dep[e] \in Row
      OBVIOUS
    <3> QED BY DEF Row, Status, Terminal
  <2> QED BY <1>2, <2>1 DEF ApplyOptions, Superseded
<1>3. ASSUME NEW d \in DepId, LoseOptions(d) PROVE TypeOK'
  BY <1>3 DEF LoseOptions
<1>4. ASSUME NEW d \in DepId, NEW s \in DepId, Rollback(d, s) PROVE TypeOK'
  <2> DEFINE steps == [n \in Step |-> IF n \in BuildStep \/ dep[s].step[n] = "absent"
                                      THEN "absent" ELSE "pending"]
  <2>1. /\ steps \in [Step -> StepStatus]
        /\ dep[s].project \in Project \cup {NoProject} /\ dep[s].environment \in 0..MaxRequired
    <3> dep[s] \in Row
      OBVIOUS
    <3> QED BY DEF StepStatus, Row
  <2> HIDE DEF steps
  <2>2. [NoRow EXCEPT !.status = "queued", !.project = dep[s].project,
                      !.environment = dep[s].environment, !.source = s,
                      !.step = steps] \in Row
    BY <2>1, NoRowType DEF NoRow, Row, Status
  <2> QED BY <1>4, <2>2 DEF Rollback, steps
<1>5. ASSUME NEW d \in DepId, NEW u \in User, Approve(d, u) PROVE TypeOK'
  <2>1. ASSUME NEW a \in {"approved", "pending"}
        PROVE  [dep[d] EXCEPT !.reviews[u] = "approved", !.approval = a] \in Row
    <3> dep[d] \in Row
      OBVIOUS
    <3> QED BY DEF Row
  <2> QED BY <1>5, <2>1 DEF Approve
<1>6. ASSUME NEW d \in DepId, NEW u \in User, Reject(d, u) PROVE TypeOK'
  <2>1. [dep[d] EXCEPT !.reviews[u] = "rejected", !.approval = "rejected",
                       !.status = "cancelled", !.summary = "rejected"] \in Row
    <3> dep[d] \in Row
      OBVIOUS
    <3> QED BY DEF Row, Status, Terminal
  <2> QED BY <1>6, <2>1 DEF Reject
<1>7. ASSUME NEW d \in DepId, Cancel(d) PROVE TypeOK'
  BY <1>7, StatusWrite DEF Cancel, AfterCancel, Status, Active, Terminal
<1>8. ASSUME NEW d \in DepId, Delete(d) PROVE TypeOK'
  <2>1. [NoRow EXCEPT !.status = "deleted"] \in Row
    BY NoRowType DEF NoRow, Row, Status
  <2> QED BY <1>8, <2>1 DEF Delete, Release
<1>9. ASSUME NEW w \in Worker, NEW d \in DepId, Claim(w, d) PROVE TypeOK'
  BY <1>9, StatusWrite DEF Claim, TakeLock, Status, Active
<1>10. ASSUME NEW w \in Worker, NEW d \in DepId, ClaimWithoutReading(w, d)
       PROVE  TypeOK'
  <2>1. dep' \in [DepId -> Row]
    BY <1>10, StatusWrite DEF ClaimWithoutReading, TakeLock, Status, Active
  <2>2. lock' \in [Project -> DepId \cup {NoDep}]
    BY <1>10 DEF ClaimWithoutReading, TakeLock
  <2>3. faults' \in 0..MaxFaults
    BY <1>10 DEF ClaimWithoutReading
  <2> QED BY <1>10, <2>1, <2>2, <2>3 DEF ClaimWithoutReading
<1>11. ASSUME NEW w \in Worker, MarkRunning(w) PROVE TypeOK'
  BY <1>11, StatusWrite DEF MarkRunning, Status, Active
<1>12. ASSUME NEW w \in Worker, NEW n \in Step, NEW s \in StepStatus,
              RecordStep(w, n, s)
       PROVE  TypeOK'
  <2> DEFINE d == executing[w]
  <2>1. d \in DepId
    BY <1>12 DEF RecordStep
  <2>2. [dep[d] EXCEPT !.step[n] = s] \in Row
    <3> dep[d] \in Row
      BY <2>1
    <3> QED BY DEF Row
  <2> QED BY <1>12, <2>1, <2>2 DEF RecordStep
<1>13. ASSUME NEW w \in Worker, SaveArtifact(w) PROVE TypeOK'
  BY <1>13, ArtifactWrite DEF SaveArtifact
<1>14. ASSUME NEW w \in Worker, NEW e \in DepId, PruneArtifact(w, e) PROVE TypeOK'
  BY <1>14, ArtifactWrite DEF PruneArtifact
<1>15. ASSUME NEW w \in Worker, NEW o \in Outcome, Finish(w, o) PROVE TypeOK'
  <2> DEFINE d == executing[w]
             final == Settled(dep[d].status, o)
             steps == IF final = "succeeded" THEN dep[d].step
                                             ELSE SkipPending(dep[d].step)
             summary == IF o = "succeeded" THEN "" ELSE "error"
  <2>1. d \in DepId
    BY <1>15 DEF Finish
  <2>2. CASE dep[d].status \in Terminal
    BY <1>15, <2>2 DEF Finish, FinishEffect, IsSettled, Release
  <2>3. CASE dep[d].status \notin Terminal
    <3>1. dep[d] \in Row
      BY <2>1
    <3>2. final \in Status /\ summary \in {"", "error"}
      BY DEF Settled, Outcome, Status, Terminal
    <3>3. steps \in [Step -> StepStatus]
      BY <3>1 DEF SkipPending, Row, StepStatus
    <3> HIDE DEF final, steps, summary
    <3>4. [dep[d] EXCEPT !.status = final, !.summary = summary, !.step = steps] \in Row
      BY <3>1, <3>2, <3>3 DEF Row
    <3>5. dep' = [dep EXCEPT ![d] = [dep[d] EXCEPT !.status = final,
                                                   !.summary = summary, !.step = steps]]
      BY <1>15, <2>3 DEF Finish, FinishEffect, IsSettled, Release, final, steps, summary
    <3>6. dep' \in [DepId -> Row]
      BY <2>1, <3>4, <3>5
    <3>7. lock' \in [Project -> DepId \cup {NoDep}]
      BY <1>15, <2>3 DEF Finish, FinishEffect, IsSettled, Release
    <3> QED BY <1>15, <3>6, <3>7 DEF Finish
  <2> QED BY <2>2, <2>3
<1>16. ASSUME NEW w \in Worker, FinishFails(w) PROVE TypeOK'
  BY <1>16 DEF FinishFails
<1>17. CASE Restart
  <2>1. ASSUME NEW d \in DepId
        PROVE  [dep[d] EXCEPT !.status = "failed", !.summary = "restarted"] \in Row
    <3> dep[d] \in Row
      OBVIOUS
    <3> QED BY DEF Row, Status, Terminal
  <2> QED BY <1>17, <2>1 DEF Restart, Recover
<1>18. CASE RestartWithoutRecovery
  BY <1>18 DEF RestartWithoutRecovery
<1>19. CASE UNCHANGED vars
  BY <1>19 DEF vars
<1> QED
  BY <1>1, <1>2, <1>3, <1>4, <1>5, <1>6, <1>7, <1>8, <1>9, <1>10, <1>11, <1>12,
     <1>13, <1>14, <1>15, <1>16, <1>17, <1>18, <1>19 DEF Next, Request, Work

\* Type correctness of the tables and of the process's own bookkeeping.
THEOREM TypeCorrect == Spec => []TypeOK
<1>1. Init => TypeOK
  BY NoRowType, BoundsAssumption DEF Init, TypeOK, NoDep
<1> QED BY <1>1, TypeInductive, PTL DEF Spec

-----------------------------------------------------------------------------
(* Mutual exclusion. *)

\* The rows that exist, and no others, belong to a project: what Claim locks is
\* the lock of a project.
ProjectKnown == \A d \in DepId : Exists(d) <=> dep[d].project \in Project

\* The inductive invariant: OneActivePerProject is not inductive by itself, it
\* needs the agreement between the rows, the locks and the workers.
SafeInv ==
    /\ TypeOK
    /\ ProjectKnown
    /\ LocksMatchRows
    /\ ExecutionIsExclusive

\* A step that touches no lock and no worker, and neither brings a deployment into
\* progress nor takes one out of it, preserves the invariant.
LEMMA QuietStep ==
  ASSUME SafeInv, TypeOK', lock' = lock, executing' = executing,
         \A d \in DepId : dep'[d].status \in Active <=> dep[d].status \in Active,
         \A d \in DepId : Exists(d) => dep'[d].project = dep[d].project,
         \A d \in DepId : Exists(d)' <=> dep'[d].project \in Project
  PROVE  SafeInv'
<1> USE DEF SafeInv, TypeOK, NoDep
<1>1. \A d \in DepId : dep[d].status \in Active => Exists(d)
  BY DEF Exists, Active
<1>2. ProjectKnown'
  BY DEF ProjectKnown
<1>3. LocksMatchRows'
  BY <1>1 DEF LocksMatchRows
<1>4. ExecutionIsExclusive'
  BY DEF ExecutionIsExclusive
<1> QED BY <1>2, <1>3, <1>4

\* A step that writes columns of one row d and leaves its project, and whether it is
\* in progress, as they were.
LEMMA RowStep ==
  ASSUME SafeInv, TypeOK', lock' = lock, executing' = executing,
         NEW d \in DepId, Exists(d), dep'[d].status \notin {"none", "deleted"},
         \A e \in DepId \ {d} : dep'[e] = dep[e],
         dep'[d].status \in Active <=> dep[d].status \in Active,
         dep'[d].project = dep[d].project
  PROVE  SafeInv'
<1>1. \A e \in DepId : dep'[e].status \in Active <=> dep[e].status \in Active
  OBVIOUS
<1>2. \A e \in DepId : dep'[e].project = dep[e].project
  OBVIOUS
<1>3. \A e \in DepId : Exists(e)' <=> Exists(e)
  BY DEF Exists
<1> QED BY <1>1, <1>2, <1>3, QuietStep DEF SafeInv, ProjectKnown

\* Taking the lock of an unlocked project.
LEMMA TakeLockSafe ==
  ASSUME SafeInv, TypeOK', NEW d \in DepId, TakeLock(d)
  PROVE  /\ ProjectKnown' /\ LocksMatchRows'
         /\ dep[d].status = "queued" /\ dep'[d].status \in Active
         /\ \A e \in DepId : dep[e].status \in Active => dep'[e].status \in Active
<1> USE DEF SafeInv, TypeOK, NoDep
<1> DEFINE p == dep[d].project
<1>1. dep[d].status = "queued" /\ p \in Project /\ lock[p] = 0
  BY DEF TakeLock, Claimable, ProjectKnown, Exists
<1>2. \A e \in DepId \ {d} : dep'[e] = dep[e]
  BY DEF TakeLock
<1>3. dep'[d].status = "preparing" /\ dep'[d].project = p
  <2>1. dep[d] \in Row
    OBVIOUS
  <2> QED BY <2>1 DEF TakeLock, Row
<1>4. lock'[p] = d /\ \A q \in Project \ {p} : lock'[q] = lock[q]
  BY <1>1 DEF TakeLock
<1>5. ProjectKnown'
  BY <1>1, <1>2, <1>3 DEF ProjectKnown, Exists
<1>6. LocksMatchRows'
  <2>1. ASSUME NEW q \in Project, lock'[q] # 0
        PROVE  dep'[lock'[q]].project = q /\ dep'[lock'[q]].status \in Active
    BY <1>1, <1>2, <1>3, <1>4, <2>1 DEF LocksMatchRows, Active
  <2>2. ASSUME NEW e \in DepId, dep'[e].status \in Active
        PROVE  dep'[e].project \in Project /\ lock'[dep'[e].project] = e
    BY <1>1, <1>2, <1>3, <1>4, <2>2 DEF LocksMatchRows, DepId
  <2> QED BY <2>1, <2>2 DEF LocksMatchRows
<1> QED BY <1>1, <1>2, <1>3, <1>5, <1>6 DEF Active

\* Settling the deployment a worker executes releases the lock that names it and
\* no other.
LEMMA FinishSafe ==
  ASSUME SafeInv, TypeOK', NEW w \in Worker, NEW o \in Outcome, Finish(w, o)
  PROVE  SafeInv'
<1> USE DEF SafeInv, TypeOK, NoDep
<1> DEFINE d == executing[w]
           p == dep[d].project
<1>1. d \in DepId /\ d # 0 /\ dep[d].status \in Active
  BY DEF Finish, ExecutionIsExclusive
<1>2. dep[d].status \notin Terminal
  BY <1>1 DEF Active, Terminal
<1>3. p \in Project /\ lock[p] = d
  BY <1>1 DEF LocksMatchRows
<1>4. \A e \in DepId \ {d} : dep'[e] = dep[e]
  BY <1>1, <1>2 DEF Finish, FinishEffect, IsSettled, Release
<1>5. dep'[d].status \in Terminal /\ dep'[d].project = p
  <2>1. dep[d] \in Row
    BY <1>1
  <2>2. Settled(dep[d].status, o) \in Terminal
    BY DEF Settled, Outcome, Terminal
  <2> DEFINE final == Settled(dep[d].status, o)
             steps == IF final = "succeeded" THEN dep[d].step
                                             ELSE SkipPending(dep[d].step)
             summary == IF o = "succeeded" THEN "" ELSE "error"
  <2>3. dep' = [dep EXCEPT ![d] = [@ EXCEPT !.status = final, !.summary = summary,
                                            !.step = steps]]
    BY <1>2 DEF Finish, FinishEffect, IsSettled, Release
  <2> HIDE DEF final, steps, summary
  <2>4. dep'[d] = [dep[d] EXCEPT !.status = final, !.summary = summary, !.step = steps]
    BY <1>1, <2>3
  <2>5. dep'[d].status = final /\ dep'[d].project = p
    BY <2>1, <2>4 DEF Row
  <2> QED BY <2>2, <2>5 DEF final
<1>6. lock' = [q \in Project |-> IF lock[q] = d THEN 0 ELSE lock[q]]
  BY <1>2 DEF Finish, FinishEffect, IsSettled, Release
<1>7. ProjectKnown'
  BY <1>1, <1>3, <1>4, <1>5 DEF ProjectKnown, Exists, Terminal
<1>8. LocksMatchRows'
  <2>1. ASSUME NEW q \in Project, lock'[q] # 0
        PROVE  dep'[lock'[q]].project = q /\ dep'[lock'[q]].status \in Active
    <3>1. lock'[q] = lock[q] /\ lock[q] # d /\ lock[q] # 0 /\ lock[q] \in DepId
      BY <1>6, <2>1
    <3> QED BY <1>4, <3>1 DEF LocksMatchRows
  <2>2. ASSUME NEW e \in DepId, dep'[e].status \in Active
        PROVE  dep'[e].project \in Project /\ lock'[dep'[e].project] = e
    BY <1>4, <1>5, <1>6, <2>2 DEF LocksMatchRows, Active, Terminal
  <2> QED BY <2>1, <2>2 DEF LocksMatchRows
<1>9. ExecutionIsExclusive'
  BY <1>4 DEF Finish, ExecutionIsExclusive
<1> QED BY <1>7, <1>8, <1>9

LEMMA SafeInductive == SafeInv /\ [Next]_vars => SafeInv'
<1> SUFFICES ASSUME SafeInv, [Next]_vars PROVE SafeInv'
  OBVIOUS
<1> USE DEF NoDep
<1>t. TypeOK /\ TypeOK' /\ \A e \in DepId : dep[e] \in Row
  BY TypeInductive DEF SafeInv, TypeOK
<1>1. ASSUME NEW d \in DepId, NEW p \in Project, NEW r \in 0..MaxRequired,
             NEW o \in BOOLEAN, Create(d, p, r, o)
      PROVE  SafeInv'
  <2>1. dep[d].status = "none"
    BY <1>1 DEF Create, IsFresh
  <2>2. dep'[d].status = "queued" /\ dep'[d].project = p
    BY <1>1, <1>t DEF Create, NoRow, TypeOK
  <2>3. \A e \in DepId \ {d} : dep'[e] = dep[e]
    BY <1>1, <1>t DEF Create, TypeOK
  <2> QED BY <1>1, <1>t, <2>1, <2>2, <2>3, QuietStep
          DEF Create, SafeInv, ProjectKnown, Exists, Active
<1>2. ASSUME NEW d \in DepId, NEW v \in Priority, NEW c \in BOOLEAN,
             ApplyOptions(d, v, c)
      PROVE  SafeInv'
  <2>1. ASSUME NEW e \in DepId
        PROVE  /\ dep'[e].project = dep[e].project
               /\ \/ dep'[e].status = dep[e].status
                  \/ dep[e].status = "queued" /\ dep'[e].status = "cancelled"
    BY <1>2, <1>t DEF ApplyOptions, Superseded, Row
  <2> QED BY <1>2, <1>t, <2>1, QuietStep
          DEF ApplyOptions, Superseded, SafeInv, ProjectKnown, Exists, Active
<1>3. ASSUME NEW d \in DepId, LoseOptions(d) PROVE SafeInv'
  BY <1>3, <1>t, QuietStep DEF LoseOptions, SafeInv, ProjectKnown, Exists
<1>4. ASSUME NEW d \in DepId, NEW s \in DepId, Rollback(d, s) PROVE SafeInv'
  <2>1. dep[d].status = "none" /\ dep[s].project \in Project
    BY <1>4 DEF Rollback, IsFresh, SafeInv, ProjectKnown, Exists
  <2>2. dep'[d].status = "queued" /\ dep'[d].project = dep[s].project
    BY <1>4, <1>t DEF Rollback, NoRow, TypeOK
  <2>3. \A e \in DepId \ {d} : dep'[e] = dep[e]
    BY <1>4, <1>t DEF Rollback, TypeOK
  <2> QED BY <1>4, <1>t, <2>1, <2>2, <2>3, QuietStep
          DEF Rollback, SafeInv, ProjectKnown, Exists, Active
<1>5. ASSUME NEW d \in DepId, NEW u \in User, Approve(d, u) PROVE SafeInv'
  <2> DEFINE a == IF Cardinality(Approvers(d) \cup {u}) >= dep[d].required
                  THEN "approved" ELSE "pending"
  <2>a. dep'[d] = [dep[d] EXCEPT !.reviews[u] = "approved", !.approval = a]
    BY <1>5, <1>t DEF Approve, TypeOK
  <2> HIDE DEF a
  <2>b. dep'[d].status = dep[d].status /\ dep'[d].project = dep[d].project
    <3> dep[d] \in Row
      BY <1>t
    <3> QED BY <2>a DEF Row
  <2>1. /\ Exists(d)
        /\ dep'[d].status = dep[d].status
        /\ dep'[d].project = dep[d].project
    BY <1>5, <2>b DEF Approve, AwaitsReview, Exists
  <2> QED BY <1>5, <1>t, <2>1, RowStep DEF Approve, TypeOK, Exists
<1>6. ASSUME NEW d \in DepId, NEW u \in User, Reject(d, u) PROVE SafeInv'
  <2>a. dep'[d] = [dep[d] EXCEPT !.reviews[u] = "rejected", !.approval = "rejected",
                                 !.status = "cancelled", !.summary = "rejected"]
    BY <1>6, <1>t DEF Reject, TypeOK
  <2>b. dep'[d].status = "cancelled" /\ dep'[d].project = dep[d].project
    <3> dep[d] \in Row
      BY <1>t
    <3> QED BY <2>a DEF Row
  <2>1. /\ Exists(d)
        /\ dep[d].status \notin Active /\ dep'[d].status \notin Active
        /\ dep'[d].project = dep[d].project
    BY <1>6, <2>b DEF Reject, AwaitsReview, Exists, Active
  <2> QED BY <1>6, <1>t, <2>b, <2>1, RowStep DEF Reject, TypeOK
<1>7. ASSUME NEW d \in DepId, Cancel(d) PROVE SafeInv'
  <2>1. /\ Exists(d) /\ dep'[d].status \notin {"none", "deleted"}
        /\ dep'[d].status \in Active <=> dep[d].status \in Active
        /\ dep'[d].project = dep[d].project
    BY <1>7, StatusRead, <1>t DEF Cancel, AfterCancel, Exists, Active
  <2> QED BY <1>7, <1>t, <2>1, RowStep DEF Cancel, AfterCancel, TypeOK
<1>8. ASSUME NEW d \in DepId, Delete(d) PROVE SafeInv'
  <2>1. dep[d].status \notin Active
    BY <1>8 DEF Delete, Active, Terminal
  <2>2. \A p \in Project : lock[p] # d
    BY <2>1 DEF SafeInv, LocksMatchRows, DepId
  <2>3. lock' = lock
    BY <1>8, <1>t, <2>2 DEF Delete, Release, TypeOK
  <2>4. /\ dep'[d].status = "deleted" /\ dep'[d].project = NoProject
        /\ \A e \in DepId \ {d} : dep'[e] = dep[e]
    BY <1>8, <1>t DEF Delete, TypeOK, NoRow
  <2>5. executing' = executing
    BY <1>8 DEF Delete
  <2>6. \A w \in Worker : executing[w] # d
    BY <2>1 DEF SafeInv, ExecutionIsExclusive, DepId
  <2>7. ProjectKnown'
    BY <2>4, ConstantAssumption DEF SafeInv, ProjectKnown, Exists
  <2>8. LocksMatchRows'
    BY <1>t, <2>2, <2>3, <2>4 DEF SafeInv, LocksMatchRows, TypeOK, Active
  <2>9. ExecutionIsExclusive'
    BY <1>t, <2>4, <2>5, <2>6 DEF SafeInv, ExecutionIsExclusive, TypeOK
  <2> QED BY <1>t, <2>7, <2>8, <2>9 DEF SafeInv
<1>9. ASSUME NEW w \in Worker, NEW d \in DepId, Claim(w, d) PROVE SafeInv'
  <2>1. TakeLock(d)
    BY <1>9 DEF Claim
  <2>2. executing' = [executing EXCEPT ![w] = d]
    BY <1>9 DEF Claim
  <2>3. \A v \in Worker : executing[v] # d
    BY <2>1, <1>t, TakeLockSafe DEF SafeInv, ExecutionIsExclusive, Active, DepId
  <2>4. ExecutionIsExclusive'
    BY <2>1, <2>2, <2>3, <1>t, TakeLockSafe DEF SafeInv, ExecutionIsExclusive, TypeOK
  <2> QED BY <1>t, <2>1, <2>4, TakeLockSafe DEF SafeInv
<1>10. ASSUME NEW w \in Worker, NEW d \in DepId, ClaimWithoutReading(w, d)
       PROVE  SafeInv'
  <2>1. TakeLock(d)
    BY <1>10 DEF ClaimWithoutReading
  <2>2. executing' = executing
    BY <1>10 DEF ClaimWithoutReading
  <2>3. ExecutionIsExclusive'
    BY <2>1, <2>2, <1>t, TakeLockSafe DEF SafeInv, ExecutionIsExclusive, TypeOK
  <2> QED BY <1>t, <2>1, <2>3, TakeLockSafe DEF SafeInv
<1>11. ASSUME NEW w \in Worker, MarkRunning(w) PROVE SafeInv'
  <2> DEFINE d == executing[w]
  <2>1. /\ d \in DepId /\ Exists(d)
        /\ dep'[d].status \in Active /\ dep[d].status \in Active
        /\ dep'[d].project = dep[d].project
    BY <1>11, <1>t, StatusRead DEF MarkRunning, Exists, Active, TypeOK
  <2> QED BY <1>11, <1>t, <2>1, RowStep DEF MarkRunning, TypeOK, Active
<1>12. ASSUME NEW w \in Worker, NEW n \in Step, NEW s \in StepStatus,
              RecordStep(w, n, s)
       PROVE  SafeInv'
  <2> DEFINE d == executing[w]
  <2>1. d \in DepId /\ Exists(d)
    BY <1>12, <1>t DEF RecordStep, Exists, TypeOK
  <2>a. dep'[d] = [dep[d] EXCEPT !.step[n] = s] /\ dep[d] \in Row
    BY <1>12, <1>t, <2>1 DEF RecordStep, TypeOK
  <2>2. dep'[d].status = dep[d].status /\ dep'[d].project = dep[d].project
    BY <2>a DEF Row
  <2> QED BY <1>12, <1>t, <2>1, <2>2, RowStep DEF RecordStep, TypeOK, Exists
<1>13. ASSUME NEW w \in Worker, SaveArtifact(w) PROVE SafeInv'
  <2> DEFINE d == executing[w]
  <2>1. d \in DepId /\ Exists(d)
    BY <1>13, <1>t DEF SaveArtifact, Exists, TypeOK
  <2>2. dep'[d].status = dep[d].status /\ dep'[d].project = dep[d].project
    <3>1. dep'[d] = [dep[d] EXCEPT !.artifact = TRUE] /\ dep[d] \in Row
      BY <1>13, <1>t, <2>1 DEF SaveArtifact, TypeOK
    <3> QED BY <3>1 DEF Row
  <2> QED BY <1>13, <1>t, <2>1, <2>2, RowStep DEF SaveArtifact, TypeOK, Exists
<1>14. ASSUME NEW w \in Worker, NEW e \in DepId, PruneArtifact(w, e) PROVE SafeInv'
  <2>1. \A f \in DepId : dep'[f].status = dep[f].status /\ dep'[f].project = dep[f].project
    <3>1. dep'[e] = [dep[e] EXCEPT !.artifact = FALSE] /\ dep[e] \in Row
      BY <1>14, <1>t DEF PruneArtifact, TypeOK
    <3>2. dep'[e].status = dep[e].status /\ dep'[e].project = dep[e].project
      BY <3>1 DEF Row
    <3> QED BY <1>14, <1>t, <3>2 DEF PruneArtifact, TypeOK
  <2> QED BY <1>14, <1>t, <2>1, QuietStep
          DEF PruneArtifact, SafeInv, ProjectKnown, Exists
<1>15. ASSUME NEW w \in Worker, NEW o \in Outcome, Finish(w, o) PROVE SafeInv'
  BY <1>15, <1>t, FinishSafe
<1>16. ASSUME NEW w \in Worker, FinishFails(w) PROVE SafeInv'
  BY <1>16, <1>t DEF FinishFails, SafeInv, ProjectKnown, Exists, LocksMatchRows,
                     ExecutionIsExclusive, TypeOK
<1>17. CASE Restart
  <2>1. \A e \in DepId : /\ dep'[e].project = dep[e].project
                         /\ dep[e].status \in Active => dep'[e].status = "failed"
                         /\ dep[e].status \notin Active => dep'[e].status = dep[e].status
    BY <1>17, <1>t DEF Restart, Recover, Row
  <2>2. \A p \in Project : lock[p] # 0 => lock[p] \in DepId /\ dep[lock[p]].status \in Active
    BY <1>t DEF SafeInv, LocksMatchRows, TypeOK
  <2>3. \A p \in Project : lock'[p] = 0
    BY <1>17, <2>1, <2>2 DEF Restart, Recover, Terminal
  <2>4. \A e \in DepId : dep'[e].status \notin Active
    BY <2>1 DEF Active
  <2>5. ProjectKnown'
    BY <2>1 DEF SafeInv, ProjectKnown, Exists, Active
  <2> QED BY <1>17, <1>t, <2>3, <2>4, <2>5
          DEF Restart, SafeInv, LocksMatchRows, ExecutionIsExclusive, TypeOK
<1>18. CASE RestartWithoutRecovery
  BY <1>18, <1>t DEF RestartWithoutRecovery, SafeInv, ProjectKnown, Exists,
                     LocksMatchRows, ExecutionIsExclusive, TypeOK
<1>19. CASE UNCHANGED vars
  BY <1>19, <1>t DEF vars, SafeInv, ProjectKnown, Exists, LocksMatchRows,
                     ExecutionIsExclusive, TypeOK
<1> QED
  BY <1>1, <1>2, <1>3, <1>4, <1>5, <1>6, <1>7, <1>8, <1>9, <1>10, <1>11, <1>12,
     <1>13, <1>14, <1>15, <1>16, <1>17, <1>18, <1>19 DEF Next, Request, Work

LEMMA SafeAlways == Spec => []SafeInv
<1>1. Init => SafeInv
  <2>1. Init => TypeOK
    BY NoRowType, BoundsAssumption DEF Init, TypeOK, NoDep
  <2>2. NoRow.status = "none" /\ NoRow.project = NoProject
    BY DEF NoRow
  <2>3. Init => \A d \in DepId : dep[d].status = "none" /\ dep[d].project = NoProject
    BY <2>2 DEF Init
  <2> QED BY <2>1, <2>3, ConstantAssumption DEF Init, SafeInv, ProjectKnown, LocksMatchRows, NoDep,
                           ExecutionIsExclusive, Exists, Active
<1> QED BY <1>1, SafeInductive, PTL DEF Spec

\* The locks, the rows and the workers agree in every reachable state: no exit path
\* of the code but a failed database statement leaves a lock behind, and even that
\* one leaves it with a deployment still in progress.
THEOREM LocksCorrect == Spec => [](LocksMatchRows /\ ExecutionIsExclusive)
BY SafeAlways, PTL DEF SafeInv

\* At most one deployment of a project is in progress, for any number of workers,
\* projects and deployments.
THEOREM MutualExclusion == Spec => []OneActivePerProject
<1>1. SafeInv => OneActivePerProject
  BY DEF SafeInv, LocksMatchRows, OneActivePerProject
<1> QED BY <1>1, SafeAlways, PTL

\* A deployment is executed by one worker at most, and only while it is in progress.
THEOREM ExclusiveExecution == Spec => []ExecutionIsExclusive
BY SafeAlways, PTL DEF SafeInv

-----------------------------------------------------------------------------
(* Nobody is left behind. *)

\* A step that changes neither workers nor faults and brings nothing into progress.
LEMMA OrphanQuiet ==
  ASSUME NoOrphan, executing' = executing, faults' = faults,
         \A d \in DepId : dep'[d].status \in Active => dep[d].status \in Active
  PROVE  NoOrphan'
BY DEF NoOrphan

\* What Finish leaves of the row its worker executed.
LEMMA FinishSettles ==
  ASSUME SafeInv, NEW w \in Worker, NEW o \in Outcome, Finish(w, o)
  PROVE  dep'[executing[w]].status \notin Active
<1> USE DEF SafeInv, TypeOK, NoDep
<1> DEFINE d == executing[w]
           final == Settled(dep[d].status, o)
           steps == IF final = "succeeded" THEN dep[d].step ELSE SkipPending(dep[d].step)
           summary == IF o = "succeeded" THEN "" ELSE "error"
<1>1. d \in DepId /\ dep[d].status \in Active /\ dep[d] \in Row
  BY DEF Finish, ExecutionIsExclusive
<1>2. final \notin Active
  BY DEF Settled, Outcome, Terminal, Active
<1>3. dep' = [dep EXCEPT ![d] = [@ EXCEPT !.status = final, !.summary = summary,
                                          !.step = steps]]
  BY <1>1 DEF Finish, FinishEffect, IsSettled, Active, Terminal
<1> HIDE DEF final, steps, summary
<1>4. dep'[d] = [dep[d] EXCEPT !.status = final, !.summary = summary, !.step = steps]
  BY <1>1, <1>3
<1> QED BY <1>1, <1>2, <1>4 DEF Row

LEMMA OrphanInductive == SafeInv /\ SafeInv' /\ NoOrphan /\ [Next]_vars => NoOrphan'
<1> SUFFICES ASSUME SafeInv, SafeInv', NoOrphan, [Next]_vars PROVE NoOrphan'
  OBVIOUS
<1>t. TypeOK /\ TypeOK' /\ faults \in Nat
  BY BoundsAssumption DEF SafeInv, TypeOK
<1>1. ASSUME NEW d \in DepId, NEW p \in Project, NEW r \in 0..MaxRequired,
             NEW o \in BOOLEAN, Create(d, p, r, o)
      PROVE  NoOrphan'
  <2>1. dep'[d].status = "queued" /\ \A e \in DepId \ {d} : dep'[e] = dep[e]
    BY <1>1, <1>t DEF Create, TypeOK, NoRow
  <2> QED BY <1>1, <2>1, OrphanQuiet DEF Create, Active
<1>2. ASSUME NEW d \in DepId, NEW v \in Priority, NEW c \in BOOLEAN, ApplyOptions(d, v, c)
      PROVE  NoOrphan'
  <2>1. \A e \in DepId : dep'[e].status \in {dep[e].status, "cancelled"}
    <3>1. ASSUME NEW e \in DepId
          PROVE  dep'[e].status \in {dep[e].status, "cancelled"}
      <4>1. dep[e] \in Row
        BY <1>t DEF TypeOK
      <4>2. \/ dep'[e] = dep[e]
            \/ dep'[e] = [dep[e] EXCEPT !.priority = v]
            \/ dep'[e] = [dep[e] EXCEPT !.status = "cancelled", !.summary = "superseded"]
        BY <1>2 DEF ApplyOptions, Superseded
      <4> QED BY <4>1, <4>2 DEF Row
    <3> QED BY <3>1
  <2> QED BY <1>2, <2>1, OrphanQuiet DEF ApplyOptions, Superseded, Active
<1>3. ASSUME NEW d \in DepId, LoseOptions(d) PROVE NoOrphan'
  BY <1>3, OrphanQuiet DEF LoseOptions
<1>4. ASSUME NEW d \in DepId, NEW s \in DepId, Rollback(d, s) PROVE NoOrphan'
  <2>1. dep'[d].status = "queued" /\ \A e \in DepId \ {d} : dep'[e] = dep[e]
    BY <1>4, <1>t DEF Rollback, NoRow, TypeOK
  <2> QED BY <1>4, <2>1, OrphanQuiet DEF Rollback, Active
<1>5. ASSUME NEW d \in DepId, NEW u \in User, Approve(d, u) PROVE NoOrphan'
  <2> DEFINE a == IF Cardinality(Approvers(d) \cup {u}) >= dep[d].required
                  THEN "approved" ELSE "pending"
  <2>a. /\ dep'[d] = [dep[d] EXCEPT !.reviews[u] = "approved", !.approval = a]
        /\ dep[d] \in Row
        /\ \A e \in DepId \ {d} : dep'[e] = dep[e]
    BY <1>5, <1>t DEF Approve, TypeOK
  <2> HIDE DEF a
  <2>b. dep'[d].status = dep[d].status
    BY <2>a DEF Row
  <2>1. \A e \in DepId : dep'[e].status = dep[e].status
    BY <2>a, <2>b
  <2> QED BY <1>5, <2>1, OrphanQuiet DEF Approve
<1>6. ASSUME NEW d \in DepId, NEW u \in User, Reject(d, u) PROVE NoOrphan'
  <2>a. /\ dep'[d] = [dep[d] EXCEPT !.reviews[u] = "rejected", !.approval = "rejected",
                                    !.status = "cancelled", !.summary = "rejected"]
        /\ dep[d] \in Row
        /\ \A e \in DepId \ {d} : dep'[e] = dep[e]
    BY <1>6, <1>t DEF Reject, TypeOK
  <2>b. dep'[d].status = "cancelled"
    BY <2>a DEF Row
  <2>1. \A e \in DepId : dep'[e].status \in {dep[e].status, "cancelled"}
    BY <2>a, <2>b
  <2> QED BY <1>6, <2>1, OrphanQuiet DEF Reject, Active
<1>7. ASSUME NEW d \in DepId, Cancel(d) PROVE NoOrphan'
  <2>1. /\ dep'[d].status = AfterCancel(dep[d].status)
        /\ \A e \in DepId \ {d} : dep'[e] = dep[e]
    BY <1>7, <1>t, StatusRead DEF Cancel, TypeOK
  <2> QED BY <1>7, <2>1, OrphanQuiet DEF Cancel, AfterCancel, Active
<1>8. ASSUME NEW d \in DepId, Delete(d) PROVE NoOrphan'
  <2>1. dep'[d].status = "deleted" /\ \A e \in DepId \ {d} : dep'[e] = dep[e]
    <3>1. [NoRow EXCEPT !.status = "deleted"].status = "deleted"
      BY NoRowType, StatusOf
    <3>2. /\ dep'[d] = [NoRow EXCEPT !.status = "deleted"]
          /\ \A e \in DepId \ {d} : dep'[e] = dep[e]
      BY <1>8, <1>t DEF Delete, TypeOK
    <3> QED BY <3>1, <3>2
  <2> QED BY <1>8, <2>1, OrphanQuiet DEF Delete, Active
<1>9. ASSUME NEW w \in Worker, NEW d \in DepId, Claim(w, d) PROVE NoOrphan'
  <2>1. /\ \A e \in DepId \ {d} : dep'[e] = dep[e]
        /\ executing[w] = 0 /\ executing'[w] = d /\ faults' = faults
        /\ \A v \in Worker \ {w} : executing'[v] = executing[v]
    BY <1>9, <1>t DEF Claim, TakeLock, TypeOK, NoDep
  <2> QED BY <2>1 DEF NoOrphan, DepId
<1>10. ASSUME NEW w \in Worker, NEW d \in DepId, ClaimWithoutReading(w, d) PROVE NoOrphan'
  BY <1>10, <1>t DEF ClaimWithoutReading, NoOrphan
<1>11. ASSUME NEW w \in Worker, MarkRunning(w) PROVE NoOrphan'
  <2>1. \A e \in DepId : dep'[e].status \in Active => dep[e].status \in Active
    BY <1>11, <1>t, StatusRead DEF MarkRunning, TypeOK, Active
  <2> QED BY <1>11, <2>1, OrphanQuiet DEF MarkRunning
<1>12. ASSUME NEW w \in Worker, NEW n \in Step, NEW s \in StepStatus, RecordStep(w, n, s)
       PROVE  NoOrphan'
  <2>1. executing[w] \in DepId
    BY <1>12, <1>t DEF RecordStep, TypeOK
  <2>2. /\ dep'[executing[w]] = [dep[executing[w]] EXCEPT !.step[n] = s]
        /\ dep[executing[w]] \in Row
        /\ \A e \in DepId \ {executing[w]} : dep'[e] = dep[e]
    BY <1>12, <1>t, <2>1 DEF RecordStep, TypeOK
  <2>3. \A e \in DepId : dep'[e].status = dep[e].status
    BY <2>2 DEF Row
  <2> QED BY <1>12, <2>3, OrphanQuiet DEF RecordStep
<1>13. ASSUME NEW w \in Worker, SaveArtifact(w) PROVE NoOrphan'
  <2>1. \A e \in DepId : dep'[e].status = dep[e].status
    <3> DEFINE d == executing[w]
    <3>1. d \in DepId
      BY <1>13, <1>t DEF SaveArtifact, TypeOK
    <3>2. /\ dep'[d] = [dep[d] EXCEPT !.artifact = TRUE] /\ dep[d] \in Row
          /\ \A e \in DepId \ {d} : dep'[e] = dep[e]
      BY <1>13, <1>t, <3>1 DEF SaveArtifact, TypeOK
    <3>3. dep'[d].status = dep[d].status
      BY <3>2 DEF Row
    <3> QED BY <3>2, <3>3
  <2> QED BY <1>13, <2>1, OrphanQuiet DEF SaveArtifact
<1>14. ASSUME NEW w \in Worker, NEW f \in DepId, PruneArtifact(w, f) PROVE NoOrphan'
  <2>1. \A e \in DepId : dep'[e].status = dep[e].status
    <3>1. /\ dep'[f] = [dep[f] EXCEPT !.artifact = FALSE] /\ dep[f] \in Row
          /\ \A e \in DepId \ {f} : dep'[e] = dep[e]
      BY <1>14, <1>t DEF PruneArtifact, TypeOK
    <3> QED BY <3>1 DEF Row
  <2> QED BY <1>14, <2>1, OrphanQuiet DEF PruneArtifact
<1>15. ASSUME NEW w \in Worker, NEW o \in Outcome, Finish(w, o) PROVE NoOrphan'
  \* The deployment that nobody executes any more is settled: nobody in progress
  \* loses a worker, because a worker executes one deployment.
  <2> DEFINE d == executing[w]
  <2>1. d \in DepId /\ d # 0 /\ faults' = faults
        /\ executing' = [executing EXCEPT ![w] = 0]
    BY <1>15, <1>t DEF Finish, TypeOK, NoDep
  <2>2. dep[d].status \in Active
    BY <2>1 DEF SafeInv, ExecutionIsExclusive, NoDep
  <2>3. \A e \in DepId \ {d} : dep'[e] = dep[e]
    BY <1>15, <1>t, <2>2 DEF Finish, FinishEffect, IsSettled, Release, Active, Terminal, TypeOK
  <2>4. dep'[d].status \notin Active
    BY <2>1, <1>15, FinishSettles DEF SafeInv
  <2>5. \A v \in Worker \ {w} : executing'[v] = executing[v]
    BY <1>t, <2>1 DEF TypeOK
  <2> QED BY <2>1, <2>3, <2>4, <2>5 DEF NoOrphan
<1>16. ASSUME NEW w \in Worker, FinishFails(w) PROVE NoOrphan'
  BY <1>16, <1>t DEF FinishFails, NoOrphan
<1>17. CASE Restart
  <2>1. \A e \in DepId : dep'[e].status \notin Active
    <3>1. \A e \in DepId :
             \/ dep'[e] = [dep[e] EXCEPT !.status = "failed", !.summary = "restarted"]
             \/ dep'[e] = dep[e] /\ dep[e].status \notin Active
      BY <1>17 DEF Restart, Recover
    <3>2. \A e \in DepId : dep[e] \in Row
      BY <1>t DEF TypeOK
    <3> QED BY <3>1, <3>2 DEF Row, Active
  <2> QED BY <2>1 DEF NoOrphan
<1>18. CASE RestartWithoutRecovery
  BY <1>18, <1>t DEF RestartWithoutRecovery, NoOrphan
<1>19. CASE UNCHANGED vars
  BY <1>19 DEF vars, NoOrphan
<1> QED
  BY <1>1, <1>2, <1>3, <1>4, <1>5, <1>6, <1>7, <1>8, <1>9, <1>10, <1>11, <1>12,
     <1>13, <1>14, <1>15, <1>16, <1>17, <1>18, <1>19 DEF Next, Request, Work

\* While the database fails at none of the statements without a retry, a deployment in
\* progress has a worker: no cancellation, finish or restart leaves one behind.
THEOREM NobodyIsOrphaned == Spec => []NoOrphan
<1>1. Init => NoOrphan
  <2>1. NoRow.status = "none"
    BY DEF NoRow
  <2> QED BY <2>1 DEF Init, NoOrphan, Active
<1> QED BY <1>1, OrphanInductive, SafeAlways, PTL DEF Spec

-----------------------------------------------------------------------------
(* What may happen to the row of a deployment in one step, and from it the *)
(* approval gate and the integrity of rollbacks.                           *)


\* An UPDATE of the status column or of columns no gate depends on.
Kept(r, s) ==
    /\ s.project = r.project
    /\ s.source = r.source
    /\ s.required = r.required
    /\ s.environment = r.environment
    /\ s.approval = r.approval
    /\ s.reviews = r.reviews

StatusMoves(r, s) ==
    \/ s.status = r.status
    \/ r.status = "queued" /\ s.status = "cancelled"
    \/ r.status = "queued" /\ r.approval = "approved" /\ s.status = "preparing"
    \/ r.status \in Active /\ s.status \in Active \cup Terminal

Moves(r, s) == Kept(r, s) /\ StatusMoves(r, s)

\* An INSERT: by a request, or by a rollback of the deployment it names.
Inserted(r, s) ==
    /\ r.status = "none"
    /\ s.status = "queued"
    /\ s.reviews = [u \in User |-> "none"]
    /\ s.approval = FirstApproval(s.required)
    /\ s.source = NoDep => s.environment = s.required
    /\ s.source # NoDep => s.source \in DepId /\ dep[s.source].status = "succeeded"
                           /\ dep[s.source].project = s.project
                           /\ dep[s.source].environment = s.environment

\* A review.
Reviewed(r, s) ==
    /\ r.status = "queued" /\ r.approval = "pending"
    /\ s.project = r.project /\ s.source = r.source
    /\ s.required = r.required /\ s.environment = r.environment
    /\ \E u \in User :
          \/ /\ s.status = r.status
             /\ s.reviews = [r.reviews EXCEPT ![u] = "approved"]
             /\ s.approval = IF Cardinality({v \in User : r.reviews[v] = "approved"} \cup {u})
                                   >= r.required
                             THEN "approved" ELSE "pending"
          \/ s.status = "cancelled" /\ s.approval = "rejected"

Only(d) == \A e \in DepId \ {d} : dep'[e] = dep[e]

RowChange ==
    \/ \A e \in DepId : Moves(dep[e], dep'[e])
    \/ \E d \in DepId :
          /\ Only(d)
          /\ \/ Inserted(dep[d], dep'[d])
             \/ Reviewed(dep[d], dep'[d])
             \/ /\ dep[d].status \in Terminal /\ Unreferenced(d)
                /\ dep'[d] = [NoRow EXCEPT !.status = "deleted"]

LEMMA MovesRefl == \A r : Moves(r, r)
BY DEF Moves, Kept, StatusMoves

\* One row moves and the others are left alone.
LEMMA OneMoves ==
  ASSUME NEW d \in DepId, Only(d), Moves(dep[d], dep'[d])
  PROVE  RowChange
BY MovesRefl DEF RowChange, Only

LEMMA StatusOnly ==
  ASSUME NEW r \in Row, NEW q, NEW s \in Status, q = [r EXCEPT !.status = s]
  PROVE  Kept(r, q) /\ q.status = s
BY DEF Row, Kept

LEMMA StatusUpdate ==
  ASSUME TypeOK, NEW d \in DepId, NEW s \in Status, dep' = [dep EXCEPT ![d].status = s]
  PROVE  Kept(dep[d], dep'[d]) /\ dep'[d].status = s /\ Only(d)
<1>1. dep[d] \in Row /\ dep'[d] = [dep[d] EXCEPT !.status = s] /\ Only(d)
  BY DEF TypeOK, Only
<1> QED BY <1>1, StatusOnly

LEMMA TakeLockRow ==
  ASSUME TypeOK, NEW d \in DepId, TakeLock(d) PROVE RowChange
<1>1. Kept(dep[d], dep'[d]) /\ dep'[d].status = "preparing" /\ Only(d)
  BY StatusUpdate DEF TakeLock, Status, Active
<1>2. dep[d].status = "queued" /\ dep[d].approval = "approved"
  BY DEF TakeLock, Claimable
<1> QED BY <1>1, <1>2, OneMoves DEF Moves, StatusMoves

\* Every step of the service is one of these changes.
LEMMA StepIsRowChange == SafeInv /\ [Next]_vars => RowChange
<1> SUFFICES ASSUME SafeInv, [Next]_vars PROVE RowChange
  OBVIOUS
<1> USE DEF NoDep
<1>t. TypeOK /\ dep \in [DepId -> Row]
  BY DEF SafeInv, TypeOK
<1>s. ASSUME dep' = dep PROVE RowChange
  BY <1>s, MovesRefl DEF RowChange
<1>1. ASSUME NEW d \in DepId, NEW p \in Project, NEW r \in 0..MaxRequired,
             NEW o \in BOOLEAN, Create(d, p, r, o)
      PROVE  RowChange
  <2>1. dep[d].status = "none" /\ Only(d)
    BY <1>1, <1>t DEF Create, IsFresh, Only
  <2>2. dep'[d] = [NoRow EXCEPT !.status = "queued", !.project = p, !.required = r,
                                !.environment = r, !.approval = FirstApproval(r),
                                !.step = [n \in Step |-> "pending"]]
    BY <1>1, <1>t DEF Create
  <2>3. Inserted(dep[d], dep'[d])
    BY <2>1, <2>2 DEF Inserted, NoRow
  <2> QED BY <2>1, <2>3 DEF RowChange
<1>2. ASSUME NEW d \in DepId, NEW v \in Priority, NEW c \in BOOLEAN,
             ApplyOptions(d, v, c)
      PROVE  RowChange
  <2>1. ASSUME NEW e \in DepId PROVE Moves(dep[e], dep'[e])
    <3>1. dep[e] \in Row
      BY <1>t
    <3>2. \/ dep'[e] = dep[e]
          \/ dep'[e] = [dep[e] EXCEPT !.priority = v]
          \/ /\ dep[e].status = "queued"
             /\ dep'[e] = [dep[e] EXCEPT !.status = "cancelled", !.summary = "superseded"]
      BY <1>2 DEF ApplyOptions, Superseded
    <3> QED BY <3>1, <3>2 DEF Row, Moves, Kept, StatusMoves
  <2> QED BY <2>1 DEF RowChange
<1>3. ASSUME NEW d \in DepId, NEW s \in DepId, Rollback(d, s) PROVE RowChange
  <2> DEFINE steps == [n \in Step |-> IF n \in BuildStep \/ dep[s].step[n] = "absent"
                                      THEN "absent" ELSE "pending"]
  <2>1. dep[d].status = "none" /\ Only(d) /\ dep[s].status = "succeeded"
    BY <1>3, <1>t DEF Rollback, IsFresh, Only
  <2>2. dep'[d] = [NoRow EXCEPT !.status = "queued", !.project = dep[s].project,
                                !.environment = dep[s].environment, !.source = s,
                                !.step = steps]
    BY <1>3, <1>t DEF Rollback
  <2> HIDE DEF steps
  <2>3. /\ dep'[d].status = "queued" /\ dep'[d].reviews = [u \in User |-> "none"]
        /\ dep'[d].required = 0 /\ dep'[d].approval = "approved" /\ dep'[d].source = s
        /\ dep'[d].project = dep[s].project /\ dep'[d].environment = dep[s].environment
    BY <2>2 DEF NoRow
  <2>4. s # NoDep /\ FirstApproval(0) = "approved"
    BY DEF FirstApproval, DepId
  <2>5. Inserted(dep[d], dep'[d])
    BY <2>1, <2>3, <2>4 DEF Inserted
  <2> QED BY <2>1, <2>5 DEF RowChange
<1>4. ASSUME NEW d \in DepId, NEW u \in User, Approve(d, u) PROVE RowChange
  <2> DEFINE a == IF Cardinality(Approvers(d) \cup {u}) >= dep[d].required
                  THEN "approved" ELSE "pending"
  <2>1. dep[d] \in Row /\ Only(d) /\ dep[d].status = "queued" /\ dep[d].approval = "pending"
    BY <1>4, <1>t DEF Approve, AwaitsReview, Only
  <2>2. dep'[d] = [dep[d] EXCEPT !.reviews[u] = "approved", !.approval = a]
    BY <1>4, <1>t DEF Approve
  <2>3. a = IF Cardinality({v \in User : dep[d].reviews[v] = "approved"} \cup {u})
               >= dep[d].required THEN "approved" ELSE "pending"
    BY DEF Approvers
  <2> HIDE DEF a
  <2>4. /\ dep'[d].status = dep[d].status /\ dep'[d].project = dep[d].project
        /\ dep'[d].source = dep[d].source /\ dep'[d].required = dep[d].required
        /\ dep'[d].environment = dep[d].environment
        /\ dep'[d].reviews = [dep[d].reviews EXCEPT ![u] = "approved"]
        /\ dep'[d].approval = a
    BY <2>1, <2>2 DEF Row
  <2>5. Reviewed(dep[d], dep'[d])
    BY <2>1, <2>3, <2>4 DEF Reviewed
  <2> QED BY <2>1, <2>5 DEF RowChange
<1>5. ASSUME NEW d \in DepId, NEW u \in User, Reject(d, u) PROVE RowChange
  <2>1. dep[d] \in Row /\ Only(d) /\ dep[d].status = "queued" /\ dep[d].approval = "pending"
    BY <1>5, <1>t DEF Reject, AwaitsReview, Only
  <2>2. dep'[d] = [dep[d] EXCEPT !.reviews[u] = "rejected", !.approval = "rejected",
                                 !.status = "cancelled", !.summary = "rejected"]
    BY <1>5, <1>t DEF Reject
  <2>3. /\ dep'[d].status = "cancelled" /\ dep'[d].project = dep[d].project
        /\ dep'[d].source = dep[d].source /\ dep'[d].required = dep[d].required
        /\ dep'[d].environment = dep[d].environment
        /\ dep'[d].approval = "rejected"
    BY <2>1, <2>2 DEF Row
  <2>4. Reviewed(dep[d], dep'[d])
    BY <2>1, <2>3 DEF Reviewed
  <2> QED BY <2>1, <2>4 DEF RowChange
<1>6. ASSUME NEW d \in DepId, Cancel(d) PROVE RowChange
  <2>1. Kept(dep[d], dep'[d]) /\ dep'[d].status = AfterCancel(dep[d].status) /\ Only(d)
    BY <1>6, <1>t, StatusUpdate DEF Cancel, AfterCancel, Status, Active, Terminal
  <2> QED BY <1>6, <2>1, OneMoves DEF Cancel, AfterCancel, Moves, StatusMoves, Active
<1>7. ASSUME NEW d \in DepId, Delete(d) PROVE RowChange
  <2>1. Only(d) /\ dep'[d] = [NoRow EXCEPT !.status = "deleted"]
    BY <1>7, <1>t DEF Delete, Only
  <2> QED BY <1>7, <2>1 DEF Delete, RowChange
<1>8. ASSUME NEW w \in Worker, MarkRunning(w) PROVE RowChange
  <2> DEFINE d == executing[w]
  <2>1. d \in DepId /\ dep[d].status = "preparing"
    BY <1>8, <1>t DEF MarkRunning, TypeOK
  <2>2. Kept(dep[d], dep'[d]) /\ dep'[d].status = "running" /\ Only(d)
    BY <1>8, <1>t, <2>1, StatusUpdate DEF MarkRunning, Status, Active
  <2> QED BY <2>1, <2>2, OneMoves DEF Moves, StatusMoves, Active
<1>9. ASSUME NEW w \in Worker, NEW n \in Step, NEW s \in StepStatus, RecordStep(w, n, s)
      PROVE  RowChange
  <2> DEFINE d == executing[w]
  <2>1. d \in DepId /\ dep[d] \in Row
    BY <1>9, <1>t DEF RecordStep, TypeOK
  <2>2. dep'[d] = [dep[d] EXCEPT !.step[n] = s] /\ Only(d)
    BY <1>9, <1>t, <2>1 DEF RecordStep, Only
  <2>3. Moves(dep[d], dep'[d])
    BY <2>1, <2>2 DEF Row, Moves, Kept, StatusMoves
  <2> QED BY <2>1, <2>2, <2>3, OneMoves
<1>10. ASSUME NEW d \in DepId, NEW b \in BOOLEAN, dep' = [dep EXCEPT ![d].artifact = b]
       PROVE  RowChange
  <2>1. dep[d] \in Row /\ dep'[d] = [dep[d] EXCEPT !.artifact = b] /\ Only(d)
    BY <1>10, <1>t DEF Only
  <2>2. Moves(dep[d], dep'[d])
    BY <2>1 DEF Row, Moves, Kept, StatusMoves
  <2> QED BY <2>1, <2>2, OneMoves
<1>11. ASSUME NEW w \in Worker, SaveArtifact(w) PROVE RowChange
  BY <1>10, <1>11, <1>t DEF SaveArtifact, TypeOK
<1>12. ASSUME NEW w \in Worker, NEW e \in DepId, PruneArtifact(w, e) PROVE RowChange
  BY <1>10, <1>12 DEF PruneArtifact
<1>13. ASSUME NEW w \in Worker, NEW o \in Outcome, Finish(w, o) PROVE RowChange
  <2> DEFINE d == executing[w]
             final == Settled(dep[d].status, o)
             steps == IF final = "succeeded" THEN dep[d].step
                                             ELSE SkipPending(dep[d].step)
             summary == IF o = "succeeded" THEN "" ELSE "error"
  <2>1. d \in DepId /\ dep[d].status \in Active
    BY <1>13 DEF Finish, SafeInv, ExecutionIsExclusive, TypeOK
  <2>2. final \in Terminal
    BY DEF Settled, Outcome, Terminal
  <2>3. dep' = [dep EXCEPT ![d] = [@ EXCEPT !.status = final, !.summary = summary,
                                            !.step = steps]]
    BY <1>13, <2>1 DEF Finish, FinishEffect, IsSettled, Active, Terminal
  <2> HIDE DEF final, steps, summary
  <2>4. Only(d) /\ dep[d] \in Row
    BY <1>t, <2>1, <2>3 DEF Only
  <2>5. dep'[d] = [dep[d] EXCEPT !.status = final, !.summary = summary, !.step = steps]
    BY <1>t, <2>1, <2>3
  <2>6. Kept(dep[d], dep'[d]) /\ dep'[d].status = final
    BY <2>4, <2>5 DEF Row, Kept
  <2> QED BY <2>1, <2>2, <2>4, <2>6, OneMoves DEF Moves, StatusMoves
<1>14. CASE Restart
  <2>1. ASSUME NEW e \in DepId PROVE Moves(dep[e], dep'[e])
    <3>1. dep[e] \in Row
      BY <1>t
    <3>2. \/ dep'[e] = dep[e]
          \/ /\ dep[e].status \in Active
             /\ dep'[e] = [dep[e] EXCEPT !.status = "failed", !.summary = "restarted"]
      BY <1>14 DEF Restart, Recover
    <3> QED BY <3>1, <3>2 DEF Row, Moves, Kept, StatusMoves, Terminal
  <2> QED BY <2>1 DEF RowChange
<1> QED
  BY <1>t, <1>s, <1>1, <1>2, <1>3, <1>4, <1>5, <1>6, <1>7, <1>8, <1>9, <1>11, <1>12,
     <1>13, <1>14, TakeLockRow
     DEF Next, Request, Work, Claim, ClaimWithoutReading, LoseOptions, FinishFails,
         RestartWithoutRecovery, vars

-----------------------------------------------------------------------------
(* The approval gate. *)

\* What a row says of its reviews.  The gate needs the parts about queued rows too: an
\* approval is counted once, by the review that reaches the threshold; and that the
\* threshold in the row is the environment's, which a rollback's is not.
Gate(r) ==
    /\ r.source = NoDep => r.environment = r.required
    /\ r.status \in Active \cup {"succeeded", "timed_out"} => r.approval = "approved"
    /\ r.approval = "approved" =>
          Cardinality({u \in User : r.reviews[u] = "approved"}) >= r.required
    /\ r.approval \in {"approved", "pending"} => \A u \in User : r.reviews[u] # "rejected"
    /\ r.approval = "rejected" => r.status = "cancelled"

GateInv == \A d \in DepId : Gate(dep[d])

LEMMA GateOfNoReview ==
  ASSUME NEW r, r.reviews = [u \in User |-> "none"], r.required \in Nat,
         r.approval = FirstApproval(r.required), r.status \in {"none", "queued", "deleted"},
         r.source = NoDep => r.environment = r.required
  PROVE  Gate(r)
<1>1. {u \in User : r.reviews[u] = "approved"} = {}
  OBVIOUS
<1>2. Cardinality({u \in User : r.reviews[u] = "approved"}) = 0
  BY <1>1, FS_EmptySet
<1> QED BY <1>2 DEF Gate, FirstApproval, Active

LEMMA GateOfNoRow ==
  ASSUME NEW s \in {"none", "deleted"} PROVE Gate([NoRow EXCEPT !.status = s])
<1> DEFINE r == [NoRow EXCEPT !.status = s]
<1>1. /\ r.reviews = [u \in User |-> "none"] /\ r.required = 0 /\ r.environment = 0
      /\ r.approval = "approved" /\ r.status = s
  BY DEF NoRow
<1> HIDE DEF r
<1>2. Gate(r)
  BY <1>1, GateOfNoReview DEF FirstApproval
<1> QED BY <1>2 DEF r

LEMMA GateMoves ==
  ASSUME NEW r, NEW s, Gate(r), Moves(r, s) PROVE Gate(s)
BY DEF Gate, Moves, Kept, StatusMoves, Active, Terminal

LEMMA GateReviewed ==
  ASSUME NEW r, NEW s, r.reviews \in [User -> {"none", "approved", "rejected"}],
         s.reviews \in [User -> {"none", "approved", "rejected"}],
         Gate(r), Reviewed(r, s)
  PROVE  Gate(s)
<1>1. PICK u \in User :
        \/ /\ s.status = r.status
           /\ s.reviews = [r.reviews EXCEPT ![u] = "approved"]
           /\ s.approval = IF Cardinality({v \in User : r.reviews[v] = "approved"} \cup {u})
                                 >= r.required
                           THEN "approved" ELSE "pending"
        \/ s.status = "cancelled" /\ s.approval = "rejected"
  BY DEF Reviewed
<1>2. CASE s.status = "cancelled" /\ s.approval = "rejected"
  BY <1>2 DEF Gate, Reviewed, Active
<1>3. CASE ~(s.status = "cancelled" /\ s.approval = "rejected")
  <2>1. {v \in User : s.reviews[v] = "approved"}
          = {v \in User : r.reviews[v] = "approved"} \cup {u}
    BY <1>1, <1>3
  <2>2. \A v \in User : s.reviews[v] # "rejected"
    BY <1>1, <1>3 DEF Gate, Reviewed
  <2>3. /\ s.status = "queued" /\ s.required = r.required
        /\ s.source = r.source /\ s.environment = r.environment
    BY <1>1, <1>3 DEF Reviewed
  <2> QED BY <1>1, <1>3, <2>1, <2>2, <2>3 DEF Gate, Active
<1> QED BY <1>2, <1>3

LEMMA GateInductive == SafeInv /\ GateInv /\ [Next]_vars => GateInv'
<1> SUFFICES ASSUME SafeInv, GateInv, [Next]_vars, NEW e \in DepId
             PROVE  Gate(dep'[e])
  BY DEF GateInv
<1>1. RowChange /\ TypeOK'
  BY StepIsRowChange, TypeInductive DEF SafeInv
<1>2. dep[e] \in Row /\ dep'[e] \in Row /\ Gate(dep[e])
  BY <1>1 DEF SafeInv, TypeOK, GateInv
<1>3. CASE \A f \in DepId : Moves(dep[f], dep'[f])
  BY <1>2, <1>3, GateMoves
<1>4. ASSUME NEW d \in DepId, Only(d), Inserted(dep[d], dep'[d]) PROVE Gate(dep'[e])
  <2>1. dep'[d].required \in Nat
    <3>1. dep'[d] \in Row
      BY <1>1 DEF TypeOK
    <3>2. dep'[d].required \in 0..MaxRequired
      BY <3>1 DEF Row
    <3> QED BY <3>2, BoundsAssumption
  <2>2. Gate(dep'[d])
    BY <1>4, <2>1, GateOfNoReview DEF Inserted
  <2> QED BY <1>2, <1>4, <2>2 DEF Only
<1>5. ASSUME NEW d \in DepId, Only(d), Reviewed(dep[d], dep'[d]) PROVE Gate(dep'[e])
  <2>1. /\ dep[d].reviews \in [User -> {"none", "approved", "rejected"}]
        /\ dep'[d].reviews \in [User -> {"none", "approved", "rejected"}]
    <3>1. dep[d] \in Row /\ dep'[d] \in Row
      BY <1>1 DEF SafeInv, TypeOK
    <3> QED BY <3>1 DEF Row
  <2>2. Gate(dep'[d])
    BY <1>5, <2>1, GateReviewed DEF GateInv
  <2> QED BY <1>2, <1>5, <2>2 DEF Only
<1>6. ASSUME NEW d \in DepId, Only(d), dep'[d] = [NoRow EXCEPT !.status = "deleted"]
      PROVE  Gate(dep'[e])
  BY <1>2, <1>6, GateOfNoRow DEF Only
<1> QED BY <1>1, <1>3, <1>4, <1>5, <1>6 DEF RowChange

-----------------------------------------------------------------------------
(* Rollbacks. *)

\* The source of a rollback, as far as a rollback relies on it.
SourceInv ==
    \A d \in DepId : Exists(d) /\ dep[d].source # NoDep =>
        /\ dep[dep[d].source].status = "succeeded"
        /\ dep[dep[d].source].project = dep[d].project
        /\ dep[dep[d].source].environment = dep[d].environment

LEMMA SourceInductive == SafeInv /\ SourceInv /\ [Next]_vars => SourceInv'
<1> SUFFICES ASSUME SafeInv, SourceInv, [Next]_vars,
                    NEW e \in DepId, Exists(e)', dep'[e].source # NoDep
             PROVE  /\ dep'[dep'[e].source].status = "succeeded"
                    /\ dep'[dep'[e].source].project = dep'[e].project
                    /\ dep'[dep'[e].source].environment = dep'[e].environment
  BY DEF SourceInv
<1>1. RowChange
  BY StepIsRowChange
<1>2. dep[e] \in Row /\ dep[e].source \in DepId \cup {NoDep}
  BY DEF SafeInv, TypeOK, Row
<1>3. CASE \A f \in DepId : Moves(dep[f], dep'[f])
  <2>1. /\ Exists(e) /\ dep'[e].source = dep[e].source
        /\ dep'[e].project = dep[e].project /\ dep'[e].environment = dep[e].environment
    BY <1>3 DEF Moves, Kept, StatusMoves, Exists, Active, Terminal
  <2>2. /\ dep[e].source \in DepId /\ dep[dep[e].source].status = "succeeded"
        /\ dep[dep[e].source].project = dep[e].project
        /\ dep[dep[e].source].environment = dep[e].environment
    BY <1>2, <2>1 DEF SourceInv
  <2> QED BY <1>3, <2>1, <2>2 DEF Moves, Kept, StatusMoves, Active
<1>4. ASSUME NEW d \in DepId, Only(d), Inserted(dep[d], dep'[d])
      PROVE  /\ dep'[dep'[e].source].status = "succeeded"
             /\ dep'[dep'[e].source].project = dep'[e].project
             /\ dep'[dep'[e].source].environment = dep'[e].environment
  <2>1. CASE e = d
    BY <1>4, <2>1 DEF Inserted, Only
  <2>2. CASE e # d
    <3>1. dep'[e] = dep[e] /\ dep[e].source \in DepId /\ Exists(e)
      BY <1>2, <1>4, <2>2 DEF Only, Exists
    <3>2. /\ dep[dep[e].source].status = "succeeded"
          /\ dep[dep[e].source].project = dep[e].project
          /\ dep[dep[e].source].environment = dep[e].environment
      BY <3>1 DEF SourceInv
    <3> QED BY <1>4, <3>1, <3>2 DEF Only, Inserted
  <2> QED BY <2>1, <2>2
<1>5. ASSUME NEW d \in DepId, Only(d), Reviewed(dep[d], dep'[d])
      PROVE  /\ dep'[dep'[e].source].status = "succeeded"
             /\ dep'[dep'[e].source].project = dep'[e].project
             /\ dep'[dep'[e].source].environment = dep'[e].environment
  <2>1. /\ dep'[e].source = dep[e].source /\ dep'[e].project = dep[e].project
        /\ dep'[e].environment = dep[e].environment /\ Exists(e)
    BY <1>5 DEF Only, Reviewed, Exists
  <2>2. /\ dep[e].source \in DepId /\ dep[dep[e].source].status = "succeeded"
        /\ dep[dep[e].source].project = dep[e].project
        /\ dep[dep[e].source].environment = dep[e].environment
    BY <1>2, <2>1 DEF SourceInv
  <2> QED BY <1>5, <2>1, <2>2 DEF Only, Reviewed
<1>6. ASSUME NEW d \in DepId, Only(d), Unreferenced(d),
             dep'[d] = [NoRow EXCEPT !.status = "deleted"]
      PROVE  /\ dep'[dep'[e].source].status = "succeeded"
             /\ dep'[dep'[e].source].project = dep'[e].project
             /\ dep'[dep'[e].source].environment = dep'[e].environment
  <2>1. e # d
    <3>1. dep'[d].status = "deleted"
      BY <1>6 DEF NoRow
    <3> QED BY <3>1 DEF Exists
  <2>2. dep'[e] = dep[e] /\ Exists(e) /\ dep[e].source \in DepId /\ dep[e].source # d
    BY <1>2, <1>6, <2>1 DEF Only, Exists, Unreferenced
  <2> QED BY <1>6, <2>2 DEF Only, SourceInv
<1> QED BY <1>1, <1>3, <1>4, <1>5, <1>6 DEF RowChange

LEMMA SourceAlways == Spec => []SourceInv
<1>1. Init => SourceInv
  <2>1. NoRow.source = NoDep
    BY DEF NoRow
  <2> QED BY <2>1 DEF Init, SourceInv
<1> QED BY <1>1, SourceInductive, SafeAlways, PTL DEF Spec

\* The deployment a rollback was made from stays, and stays a success of the same
\* project, as long as the rollback does, whatever retention deletes meanwhile.
THEOREM RollbackSourceHolds == Spec => []RollbackSourceKept
<1>1. SourceInv => RollbackSourceKept
  BY DEF SourceInv, RollbackSourceKept
<1> QED BY <1>1, SourceAlways, PTL

\* The approval gate, for any number of reviewers and any threshold: a deployment that
\* was ever claimed and is no rollback has as many approvals as its environment asks
\* for, each by another reviewer, and no rejection; and the source of a rollback that
\* is not one itself has them too, for the same environment.  Rollbacks have none.
THEOREM ApprovalGateHolds == Spec => []ApprovalGate
<1>1. Init => GateInv
  <2>1. /\ NoRow.reviews = [u \in User |-> "none"]
        /\ NoRow.required = 0 /\ NoRow.environment = 0
        /\ NoRow.approval = "approved" /\ NoRow.status = "none"
    BY DEF NoRow
  <2>2. Gate(NoRow)
    <3> HIDE DEF NoRow
    <3> QED BY <2>1, GateOfNoReview DEF FirstApproval
  <2> QED BY <2>2 DEF Init, GateInv
<1>2. SafeInv /\ SourceInv /\ GateInv => ApprovalGate
  <2> SUFFICES ASSUME SafeInv, SourceInv, GateInv PROVE ApprovalGate
    OBVIOUS
  <2>1. ASSUME NEW d \in DepId, dep[d].source = NoDep,
               dep[d].status \in Active \cup {"succeeded", "timed_out"}
        PROVE  IsApproved(d)
    BY <2>1 DEF GateInv, Gate, IsApproved, Approvers
  <2>2. ASSUME NEW d \in DepId, Exists(d), dep[d].source # NoDep
        PROVE  /\ dep[dep[d].source].environment = dep[d].environment
               /\ dep[dep[d].source].source = NoDep => IsApproved(dep[d].source)
    <3>1. dep[d] \in Row
      BY DEF SafeInv, TypeOK
    <3>2. dep[d].source \in DepId
      BY <2>2, <3>1 DEF Row
    <3>3. /\ dep[dep[d].source].status = "succeeded"
          /\ dep[dep[d].source].environment = dep[d].environment
      BY <2>2 DEF SourceInv
    <3> QED BY <2>1, <3>2, <3>3
  <2> QED BY <2>1, <2>2 DEF ApprovalGate
<1>3. Spec => []GateInv
  BY <1>1, GateInductive, SafeAlways, PTL DEF Spec
<1> QED BY <1>2, <1>3, SourceAlways, SafeAlways, PTL
=============================================================================
