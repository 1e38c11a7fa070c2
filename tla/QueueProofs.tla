------------------------------ MODULE QueueProofs ------------------------------
(***************************************************************************)
(* The deployment tables implement ProjectQueue: every step of a handler,  *)
(* a worker or a restart is a step of the abstract queue or leaves it      *)
(* alone.  SafeInv of DeploymentsProofs carries the argument.              *)
(***************************************************************************)
EXTENDS DeploymentsProofs

\* What the columns of the rows say of the abstract queue's two variables.
LEMMA PhaseWrite ==
  ASSUME NEW d \in DepId, NEW s, dep'[d].status = s,
         \A e \in DepId \ {d} : dep'[e].status = dep[e].status
  PROVE  phases' = [phases EXCEPT ![d] = PhaseOf(s)]
BY DEF phases

LEMMA OwnersKept ==
  ASSUME \A e \in DepId : dep'[e].project = dep[e].project
  PROVE  owners' = owners
BY DEF owners

LEMMA PhaseAt == \A d \in DepId : phases[d] = PhaseOf(dep[d].status)
BY DEF phases

\* No status and no project column changes: the queue does not move.
LEMMA RowsStutter ==
  ASSUME \A e \in DepId : dep'[e].status = dep[e].status,
         \A e \in DepId : dep'[e].project = dep[e].project
  PROVE  UNCHANGED <<phases, owners>>
BY DEF phases, owners

\* A row gets its project and starts to wait: Create and Rollback.
LEMMA EnqueueStep ==
  ASSUME SafeInv, NEW d \in DepId, NEW p \in Project,
         dep[d].status = "none", dep'[d].status = "queued", dep'[d].project = p,
         \A e \in DepId \ {d} : dep'[e] = dep[e]
  PROVE  Queue!Enqueue(d, p)
<1>1. phases[d] = "none"
  BY PhaseAt DEF PhaseOf
<1>2. phases' = [phases EXCEPT ![d] = "waiting"]
  BY PhaseWrite DEF PhaseOf
<1>3. dep[d].project \notin Project
  BY DEF SafeInv, ProjectKnown, Exists
<1>4. owners' = [owners EXCEPT ![p] = @ \cup {d}]
  <2>1. ASSUME NEW q \in Project \ {p}
        PROVE  {e \in DepId : dep'[e].project = q} = {e \in DepId : dep[e].project = q}
    BY <1>3
  <2>2. {e \in DepId : dep'[e].project = p} = {e \in DepId : dep[e].project = p} \cup {d}
    OBVIOUS
  <2> QED BY <2>1, <2>2 DEF owners
<1> QED BY <1>1, <1>2, <1>4 DEF Queue!Enqueue

\* Waiting rows of one project are cancelled together: Cancel, Reject, ApplyOptions.
LEMMA WithdrawStep ==
  ASSUME NEW D \in SUBSET DepId, NEW p \in Project,
         \A e \in D : /\ dep[e].status = "queued" /\ dep[e].project = p
                      /\ dep'[e].status = "cancelled",
         \A e \in DepId \ D : dep'[e].status = dep[e].status,
         \A e \in DepId : dep'[e].project = dep[e].project
  PROVE  Queue!Withdraw(D, p)
<1>1. D \subseteq owners[p] /\ \A e \in D : phases[e] = "waiting"
  BY PhaseAt DEF PhaseOf, owners
<1>2. phases' = [e \in DepId |-> IF e \in D THEN "other" ELSE phases[e]]
  <2>1. \A e \in D : PhaseOf(dep'[e].status) = "other"
    BY DEF PhaseOf
  <2> QED BY <2>1 DEF phases
<1>3. owners' = owners
  BY OwnersKept
<1> QED BY <1>1, <1>2, <1>3 DEF Queue!Withdraw

\* recover() fails exactly the rows in progress.
LEMMA InterruptStep ==
  ASSUME \A e \in DepId : dep[e].status \in Active => dep'[e].status = "failed",
         \A e \in DepId : dep[e].status \notin Active => dep'[e].status = dep[e].status,
         \A e \in DepId : dep'[e].project = dep[e].project
  PROVE  Queue!Interrupt
<1>1. ASSUME NEW e \in DepId
      PROVE  PhaseOf(dep'[e].status) =
             IF phases[e] \in {"working", "stopping"} THEN "other" ELSE phases[e]
  <2>1. phases[e] \in {"working", "stopping"} <=> dep[e].status \in Active
    BY PhaseAt DEF PhaseOf, Active
  <2>2. CASE dep[e].status \in Active
    <3>1. PhaseOf("failed") = "other"
      BY DEF PhaseOf
    <3> QED BY <2>1, <2>2, <3>1
  <2>3. CASE dep[e].status \notin Active
    BY <2>1, <2>3, PhaseAt
  <2> QED BY <2>2, <2>3
<1>2. owners' = owners
  BY OwnersKept
<1> QED BY <1>1, <1>2 DEF Queue!Interrupt, Queue!Working, phases

\* Claim takes up a waiting deployment of a project that has none in progress: an
\* unlocked project has none, by LocksMatchRows.
LEMMA TakeUpStep ==
  ASSUME SafeInv, NEW d \in DepId, TakeLock(d)
  PROVE  \E p \in Project : Queue!TakeUp(d, p)
<1> DEFINE p == dep[d].project
<1> USE DEF NoDep
<1>t. dep \in [DepId -> Row]
  BY DEF SafeInv, TypeOK
<1>1. dep[d].status = "queued" /\ p \in Project /\ lock[p] = 0
  BY DEF TakeLock, Claimable, SafeInv, ProjectKnown, Exists
<1>2. \A e \in DepId : dep[e].project = p => dep[e].status \notin Active
  BY <1>1 DEF SafeInv, LocksMatchRows, DepId
<1>3. dep'[d].status = "preparing" /\ dep'[d].project = p
  BY StatusRead DEF TakeLock, SafeInv
<1>4. \A e \in DepId \ {d} : dep'[e] = dep[e]
  BY <1>t DEF TakeLock
<1>5. phases[d] = "waiting" /\ phases' = [phases EXCEPT ![d] = "working"]
  BY <1>1, <1>3, <1>4, PhaseAt, PhaseWrite DEF PhaseOf
<1>6. owners' = owners /\ d \in owners[p]
  BY <1>1, <1>3, <1>4, OwnersKept DEF owners
<1>7. \A e \in owners[p] : phases[e] \notin {"working", "stopping"}
  <2>1. \A e \in owners[p] : e \in DepId /\ dep[e].status \notin Active
    BY <1>1, <1>2 DEF owners
  <2> QED BY <2>1, PhaseAt DEF PhaseOf, Active
<1>8. Queue!TakeUp(d, p)
  BY <1>5, <1>6, <1>7 DEF Queue!TakeUp, Queue!Working
<1> QED BY <1>1, <1>8

\* A worker's report is a success only of a deployment nobody asked to stop.
LEMMA FinishStep ==
  ASSUME SafeInv, NEW w \in Worker, NEW o \in Outcome, Finish(w, o)
  PROVE  \E d \in DepId : Queue!Succeed(d) \/ Queue!Fail(d)
<1> USE DEF NoDep
<1> DEFINE d == executing[w]
           final == Settled(dep[d].status, o)
           steps == IF final = "succeeded" THEN dep[d].step
                                           ELSE SkipPending(dep[d].step)
           summary == IF o = "succeeded" THEN "" ELSE "error"
<1>1. d \in DepId /\ dep[d].status \in Active
  BY DEF Finish, SafeInv, ExecutionIsExclusive, TypeOK
<1>2. dep[d].status \notin Terminal
  BY <1>1 DEF Active, Terminal
<1>3. dep' = [dep EXCEPT ![d] = [@ EXCEPT !.status = final, !.summary = summary,
                                          !.step = steps]]
  BY <1>2 DEF Finish, FinishEffect, IsSettled, Release
<1> HIDE DEF steps, summary
<1>4. dep'[d].status = final /\ dep'[d].project = dep[d].project
  <2> HIDE DEF final
  <2>1. dep[d] \in Row /\ dep \in [DepId -> Row]
    BY <1>1 DEF SafeInv, TypeOK
  <2>2. dep'[d] = [dep[d] EXCEPT !.status = final, !.summary = summary, !.step = steps]
    BY <1>1, <1>3, <2>1
  <2> QED BY <2>1, <2>2 DEF Row
<1>5. \A e \in DepId \ {d} : dep'[e] = dep[e]
  BY <1>3 DEF SafeInv, TypeOK
<1>6. CASE final = "succeeded"
  <2>1. dep[d].status \in {"preparing", "running"}
    BY <1>1, <1>6 DEF Settled, Active
  <2>2. phases[d] = "working" /\ phases' = [phases EXCEPT ![d] = "success"]
    BY <1>1, <1>4, <1>5, <1>6, <2>1, PhaseAt, PhaseWrite DEF PhaseOf
  <2>3. owners' = owners
    BY <1>4, <1>5, OwnersKept
  <2> QED BY <1>1, <2>2, <2>3 DEF Queue!Succeed
<1>7. CASE final # "succeeded"
  <2>1. dep'[d].status \in {"failed", "cancelled", "timed_out"}
    BY <1>4, <1>7 DEF Settled, Outcome, Terminal
  <2>2. phases[d] \in {"working", "stopping"} /\ PhaseOf(dep'[d].status) = "other"
    BY <1>1, <2>1, PhaseAt DEF PhaseOf, Active
  <2>3. phases' = [phases EXCEPT ![d] = "other"]
    BY <1>1, <1>5, <2>2, PhaseWrite
  <2>4. owners' = owners
    BY <1>4, <1>5, OwnersKept
  <2> QED BY <1>1, <2>2, <2>3, <2>4 DEF Queue!Fail, Queue!Working
<1> QED BY <1>6, <1>7

LEMMA DeleteStep ==
  ASSUME SafeInv, NEW d \in DepId, Delete(d)
  PROVE  Queue!Purge(d)
<1>1. dep \in [DepId -> Row]
  BY DEF SafeInv, TypeOK
<1>2. dep'[d].status = "deleted" /\ dep'[d].project = NoProject
  BY <1>1 DEF Delete, NoRow
<1>3. \A e \in DepId \ {d} : dep'[e] = dep[e]
  BY <1>1 DEF Delete
<1>4. phases[d] \in {"success", "other"} /\ phases' = [phases EXCEPT ![d] = "purged"]
  BY <1>2, <1>3, PhaseAt, PhaseWrite DEF Delete, Terminal, PhaseOf
<1>5. owners' = [p \in Project |-> owners[p] \ {d}]
  <2>1. ASSUME NEW p \in Project
        PROVE  {e \in DepId : dep'[e].project = p} = {e \in DepId : dep[e].project = p} \ {d}
    BY <1>2, <1>3, ConstantAssumption
  <2> QED BY <2>1 DEF owners
<1> QED BY <1>4, <1>5 DEF Queue!Purge

\* Cancel settles a waiting deployment and asks one in progress to stop.
LEMMA CancelStep ==
  ASSUME SafeInv, NEW d \in DepId, Cancel(d)
  PROVE  (\E p \in Project : Queue!Withdraw({d}, p)) \/ Queue!AskToStop(d)
<1>1. /\ dep'[d].status = IF dep[d].status = "queued" THEN "cancelled" ELSE "cancelling"
      /\ dep'[d].project = dep[d].project
  BY StatusRead DEF Cancel, AfterCancel, SafeInv
<1>2. \A e \in DepId \ {d} : dep'[e] = dep[e]
  BY DEF Cancel, AfterCancel, SafeInv, TypeOK
<1>3. CASE dep[d].status = "queued"
  <2>1. dep[d].project \in Project
    BY <1>3 DEF SafeInv, ProjectKnown, Exists
  <2>2. Queue!Withdraw({d}, dep[d].project)
    BY <1>1, <1>2, <1>3, <2>1, WithdrawStep
  <2> QED BY <2>1, <2>2
<1>4. CASE dep[d].status # "queued"
  <2>1. phases[d] = "working" /\ phases' = [phases EXCEPT ![d] = "stopping"]
    BY <1>1, <1>2, <1>4, PhaseAt, PhaseWrite DEF Cancel, AfterCancel, PhaseOf
  <2>2. owners' = owners
    BY <1>1, <1>2, OwnersKept
  <2> QED BY <2>1, <2>2 DEF Queue!AskToStop
<1> QED BY <1>3, <1>4

LEMMA QueueStep == SafeInv /\ [Next]_vars => [Queue!Next]_(Queue!vars)
<1> SUFFICES ASSUME SafeInv, [Next]_vars
             PROVE  Queue!Next \/ UNCHANGED <<phases, owners>>
  BY DEF Queue!vars
<1> USE DEF NoDep
<1>t. dep \in [DepId -> Row] /\ TypeOK /\ TypeOK'
  BY TypeInductive DEF SafeInv, TypeOK
<1>a. ASSUME NEW D \in SUBSET DepId, NEW p \in Project, Queue!Withdraw(D, p)
      PROVE  Queue!Next
  BY <1>a DEF Queue!Next
<1>1. ASSUME NEW d \in DepId, NEW p \in Project, NEW r \in 0..MaxRequired,
             NEW o \in BOOLEAN, Create(d, p, r, o)
      PROVE  Queue!Next
  <2>1. dep[d].status = "none"
    BY <1>1 DEF Create, IsFresh
  <2>2. dep'[d].status = "queued" /\ dep'[d].project = p
    BY <1>1, <1>t DEF Create, NoRow
  <2>3. \A e \in DepId \ {d} : dep'[e] = dep[e]
    BY <1>1, <1>t DEF Create
  <2>4. Queue!Enqueue(d, p)
    BY <2>1, <2>2, <2>3, EnqueueStep
  <2> QED BY <2>4 DEF Queue!Next
<1>2. ASSUME NEW d \in DepId, NEW v \in Priority, NEW c \in BOOLEAN,
             ApplyOptions(d, v, c)
      PROVE  Queue!Next \/ UNCHANGED <<phases, owners>>
  <2> DEFINE D == {e \in DepId : dep'[e].status # dep[e].status}
  <2>1. ASSUME NEW e \in DepId
        PROVE  /\ dep'[e].project = dep[e].project
               /\ \/ dep'[e].status = dep[e].status
                  \/ /\ dep[e].status = "queued" /\ dep[e].project = optionsDue[d]
                     /\ dep'[e].status = "cancelled"
    <3> dep[e] \in Row
      BY <1>t
    <3> QED BY <1>2 DEF ApplyOptions, Superseded, Row
  <2>2. CASE D = {}
    BY <2>1, <2>2, RowsStutter
  <2>3. CASE D # {}
    <3>1. PICK p \in Project : p = optionsDue[d]
      BY <1>2 DEF ApplyOptions, SafeInv, TypeOK
    <3>2. Queue!Withdraw(D, p)
      BY <2>1, <3>1, WithdrawStep
    <3> QED BY <1>a, <3>1, <3>2
  <2> QED BY <2>2, <2>3
<1>3. ASSUME NEW d \in DepId, LoseOptions(d) PROVE UNCHANGED <<phases, owners>>
  BY <1>3, RowsStutter DEF LoseOptions
<1>4. ASSUME NEW d \in DepId, NEW s \in DepId, Rollback(d, s) PROVE Queue!Next
  <2>1. dep[d].status = "none" /\ dep[s].project \in Project
    BY <1>4 DEF Rollback, IsFresh, SafeInv, ProjectKnown, Exists
  <2>2. dep'[d].status = "queued" /\ dep'[d].project = dep[s].project
    BY <1>4, <1>t DEF Rollback, NoRow
  <2>3. \A e \in DepId \ {d} : dep'[e] = dep[e]
    BY <1>4, <1>t DEF Rollback
  <2>4. Queue!Enqueue(d, dep[s].project)
    BY <2>1, <2>2, <2>3, EnqueueStep
  <2> QED BY <2>1, <2>4 DEF Queue!Next
<1>5. ASSUME NEW d \in DepId, NEW u \in User, Approve(d, u)
      PROVE  UNCHANGED <<phases, owners>>
  <2>1. dep[d] \in Row
    BY <1>t
  <2>2. PICK a : dep'[d] = [dep[d] EXCEPT !.reviews[u] = "approved", !.approval = a]
    BY <1>5, <1>t DEF Approve
  <2>3. dep'[d].status = dep[d].status /\ dep'[d].project = dep[d].project
    BY <2>1, <2>2 DEF Row
  <2>4. \A e \in DepId \ {d} : dep'[e] = dep[e]
    BY <1>5, <1>t DEF Approve
  <2> QED BY <2>3, <2>4, RowsStutter
<1>6. ASSUME NEW d \in DepId, NEW u \in User, Reject(d, u) PROVE Queue!Next
  <2>1. dep[d] \in Row /\ dep[d].status = "queued"
    BY <1>6, <1>t DEF Reject, AwaitsReview
  <2>2. dep'[d] = [dep[d] EXCEPT !.reviews[u] = "rejected", !.approval = "rejected",
                                 !.status = "cancelled", !.summary = "rejected"]
    BY <1>6, <1>t DEF Reject
  <2>3. dep'[d].status = "cancelled" /\ dep'[d].project = dep[d].project
    BY <2>1, <2>2 DEF Row
  <2>4. \A e \in DepId \ {d} : dep'[e] = dep[e]
    BY <1>6, <1>t DEF Reject
  <2>5. dep[d].project \in Project
    BY <2>1 DEF SafeInv, ProjectKnown, Exists
  <2>6. Queue!Withdraw({d}, dep[d].project)
    BY <2>1, <2>3, <2>4, <2>5, WithdrawStep
  <2> QED BY <1>a, <2>5, <2>6
<1>7. ASSUME NEW d \in DepId, Cancel(d) PROVE Queue!Next
  BY <1>7, <1>a, CancelStep DEF Queue!Next
<1>8. ASSUME NEW d \in DepId, Delete(d) PROVE Queue!Next
  BY <1>8, DeleteStep DEF Queue!Next
<1>9. ASSUME NEW d \in DepId, TakeLock(d) PROVE Queue!Next
  BY <1>9, TakeUpStep DEF Queue!Next
<1>10. ASSUME NEW w \in Worker, MarkRunning(w) PROVE UNCHANGED <<phases, owners>>
  <2> DEFINE d == executing[w]
  <2>1. d \in DepId /\ dep[d].status = "preparing"
    BY <1>10, <1>t DEF MarkRunning, TypeOK
  <2>2. dep'[d].status = "running" /\ dep'[d].project = dep[d].project
    BY <1>10, <1>t, <2>1, StatusRead DEF MarkRunning
  <2>3. \A e \in DepId \ {d} : dep'[e] = dep[e]
    BY <1>10, <1>t, <2>1 DEF MarkRunning
  <2>4. phases' = phases
    <3>1. PhaseOf("running") = phases[d]
      BY <2>1, PhaseAt DEF PhaseOf
    <3>2. phases' = [phases EXCEPT ![d] = PhaseOf("running")]
      BY <2>1, <2>2, <2>3, PhaseWrite
    <3> QED BY <3>1, <3>2 DEF phases
  <2> QED BY <2>2, <2>3, <2>4, OwnersKept
<1>11. ASSUME NEW w \in Worker, NEW n \in Step, NEW s \in StepStatus,
              RecordStep(w, n, s)
       PROVE  UNCHANGED <<phases, owners>>
  <2> DEFINE d == executing[w]
  <2>1. d \in DepId /\ dep[d] \in Row
    BY <1>11, <1>t DEF RecordStep, TypeOK
  <2>2. dep'[d] = [dep[d] EXCEPT !.step[n] = s]
    BY <1>11, <1>t, <2>1 DEF RecordStep
  <2>3. dep'[d].status = dep[d].status /\ dep'[d].project = dep[d].project
    BY <2>1, <2>2 DEF Row
  <2>4. \A e \in DepId \ {d} : dep'[e] = dep[e]
    BY <1>11, <1>t DEF RecordStep
  <2> QED BY <2>3, <2>4, RowsStutter
<1>12. ASSUME NEW d \in DepId, NEW b \in BOOLEAN, dep' = [dep EXCEPT ![d].artifact = b]
       PROVE  UNCHANGED <<phases, owners>>
  <2>1. dep[d] \in Row /\ dep'[d] = [dep[d] EXCEPT !.artifact = b]
    BY <1>12, <1>t
  <2>2. dep'[d].status = dep[d].status /\ dep'[d].project = dep[d].project
    BY <2>1 DEF Row
  <2> QED BY <1>12, <1>t, <2>2, RowsStutter
<1>13. ASSUME NEW w \in Worker, SaveArtifact(w) PROVE UNCHANGED <<phases, owners>>
  BY <1>12, <1>13, <1>t DEF SaveArtifact, TypeOK
<1>14. ASSUME NEW w \in Worker, NEW e \in DepId, PruneArtifact(w, e)
       PROVE  UNCHANGED <<phases, owners>>
  BY <1>12, <1>14 DEF PruneArtifact
<1>15. ASSUME NEW w \in Worker, NEW o \in Outcome, Finish(w, o) PROVE Queue!Next
  <2>1. PICK d \in DepId : Queue!Succeed(d) \/ Queue!Fail(d)
    BY <1>15, FinishStep
  <2> QED BY <2>1 DEF Queue!Next
<1>16. CASE Restart
  <2>1. ASSUME NEW e \in DepId
        PROVE  /\ dep'[e].project = dep[e].project
               /\ dep[e].status \in Active => dep'[e].status = "failed"
               /\ dep[e].status \notin Active => dep'[e].status = dep[e].status
    <3> dep[e] \in Row
      BY <1>t
    <3> QED BY <1>16 DEF Restart, Recover, Row
  <2>2. Queue!Interrupt
    BY <2>1, InterruptStep
  <2> QED BY <2>2 DEF Queue!Next
<1>17. CASE dep' = dep
  BY <1>17, RowsStutter
<1> QED
  BY <1>1, <1>2, <1>3, <1>4, <1>5, <1>6, <1>7, <1>8, <1>9, <1>10, <1>11, <1>13,
     <1>14, <1>15, <1>16, <1>17
     DEF Next, Request, Work, Claim, ClaimWithoutReading, FinishFails,
         RestartWithoutRecovery, vars

\* The service implements the abstract queue for any number of projects, workers and
\* deployments: terminal states are final, one deployment of a project at a time, no
\* success after a cancellation.
THEOREM QueueRefinement == Spec => ImplementsQueue
<1>1. Init => Queue!Init
  <2>1. NoRow.status = "none" /\ NoRow.project = NoProject
    BY DEF NoRow
  <2> QED BY <2>1, ConstantAssumption
          DEF Init, Queue!Init, phases, owners, PhaseOf
<1> QED BY <1>1, QueueStep, SafeAlways, PTL DEF Spec, ImplementsQueue, Queue!Spec
================================================================================
