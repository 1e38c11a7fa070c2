------------------------------ MODULE RunnerProofs ------------------------------
(***************************************************************************)
(* For any pipelines, workers and deployments: the runner does to the      *)
(* tables what a worker of Deployments may do, runs the steps in order,    *)
(* and leaves a process behind only under a deployment that failed.  All   *)
(* three need to know, for each place in run() and runStep(), which steps  *)
(* are behind it and whether a process may be alive there.                 *)
(***************************************************************************)
EXTENDS Runner, QueueProofs

\* Steps behind a worker are done, steps before it are untouched.
DoneTo(steps, n) == \A m \in Step : m <= n => steps[m] \in {"absent", "succeeded"}

FreshFrom(steps, n) == \A m \in Step : m > n => steps[m] \in {"absent", "pending"}

AllDone(steps) == \A m \in Step : steps[m] \in {"absent", "succeeded"}

Untouched(steps) == \A m \in Step : steps[m] \in {"absent", "pending"}

Between == {"prepare", "ready", "steps", "prune"}
AtStep  == {"begin", "launch", "select", "stop", "done"}

\* A job, the steps of its deployment and the shell it started last.
Placed(j, steps, leader) ==
    /\ j.pc # "idle"
    /\ j.pc \in Between => DoneTo(steps, j.at) /\ FreshFrom(steps, j.at)
    /\ j.pc \in AtStep =>
          /\ j.at \in Step /\ DoneTo(steps, j.at - 1) /\ FreshFrom(steps, j.at)
          /\ steps[j.at] = IF j.pc = "begin" THEN "pending" ELSE "running"
    /\ j.pc = "health" \/ (j.pc = "report" /\ j.result = "succeeded") => AllDone(steps)
    /\ leader = "alive" =>
          \/ j.pc \in {"select", "stop"}
          \/ j.pc \in {"done", "report"} /\ j.result = "failed"

Attached(w) ==
    LET d == executing[w] IN
    IF d = NoDep THEN job[w].pc = "idle"
                 ELSE Placed(job[w], dep[d].step, proc[d].leader)

UntouchedBefore ==
    \A d \in DepId : dep[d].status \in {"none", "queued", "deleted"} => Untouched(dep[d].step)

RunInv ==
    /\ SafeInv /\ RunnerTypeOK
    /\ \A w \in Worker : Attached(w)
    /\ UntouchedBefore
    /\ StepsInOrder
    /\ OnlyFailuresLeaveProcess

-----------------------------------------------------------------------------
(* Types of what a worker writes into its job. *)

Places == {"idle", "health", "report"} \cup Between \cup AtStep

LEMMA JobGoes ==
    ASSUME NEW j \in Job, NEW place \in Places
    PROVE  /\ [j EXCEPT !.pc = place] \in Job
           /\ [j EXCEPT !.pc = place].pc = place
           /\ [j EXCEPT !.pc = place].at = j.at
           /\ [j EXCEPT !.pc = place].result = j.result
BY DEF Job, Places, Between, AtStep

LEMMA JobEnds ==
    ASSUME NEW j \in Job, NEW place \in Places, NEW o \in Outcome
    PROVE  /\ [j EXCEPT !.pc = place, !.result = o] \in Job
           /\ [j EXCEPT !.pc = place, !.result = o].pc = place
           /\ [j EXCEPT !.pc = place, !.result = o].at = j.at
           /\ [j EXCEPT !.pc = place, !.result = o].result = o
BY DEF Job, Places, Between, AtStep

LEMMA IdleTyped == Idle \in Job /\ Idle.pc = "idle"
BY DEF Idle, Job, Outcome, Terminal

LEMMA OutcomesAreEnds ==
    \A cause : Outcomes(cause) \subseteq Outcome \ {"succeeded", "failed"}
BY DEF Outcomes, Outcome, Terminal

LEMMA Working ==
    ASSUME RunInv, NEW w \in Worker
    PROVE  /\ job[w] \in Job
           /\ job[w].pc # "idle" <=> executing[w] # NoDep
           /\ executing[w] # NoDep =>
                 /\ executing[w] \in DepId
                 /\ dep[executing[w]].status \in Active
                 /\ Placed(job[w], dep[executing[w]].step, proc[executing[w]].leader)
                 /\ \A v \in Worker : executing[v] = executing[w] => v = w
<1>1. executing[w] \in DepId \cup {NoDep} /\ job[w] \in Job /\ Attached(w)
  BY DEF RunInv, SafeInv, RunnerTypeOK, TypeOK
<1> QED BY <1>1 DEF RunInv, SafeInv, ExecutionIsExclusive, Attached, Placed

\* The property, row by row.
InOrder(r) ==
    /\ \A m, n \in Step :
          m < n /\ r.step[m] # "absent" /\ r.step[n] \notin {"absent", "pending", "skipped"}
              => r.step[m] = "succeeded"
    /\ r.status = "succeeded" => AllDone(r.step)

LEMMA OrderByRow == StepsInOrder <=> \A d \in DepId : InOrder(dep[d])
BY DEF StepsInOrder, InOrder, AllDone

LEMMA OrderByRowNext == StepsInOrder' <=> \A d \in DepId : InOrder(dep'[d])
BY DEF StepsInOrder, InOrder, AllDone

LEMMA UntouchedInOrder ==
    ASSUME NEW r, Untouched(r.step), r.status # "succeeded"
    PROVE  InOrder(r)
BY DEF Untouched, InOrder

-----------------------------------------------------------------------------
(* The runner is a worker of Deployments *)

LEMMA AdvanceServes == ASSUME RunInv, NEW w \in Worker, Advance(w) PROVE [Next]_vars
<1>0. /\ job[w].result \in Outcome /\ Outcome \subseteq StepStatus
      /\ job[w].pc \in AtStep => job[w].at \in Step
  <2>1. job[w].result \in Outcome
    BY Working DEF Job
  <2> QED BY <2>1, Working DEF Placed, AtStep, Outcome, StepStatus, StepEnd, Terminal
<1>1. ASSUME SetRunning(w) PROVE [Next]_vars
  BY <1>1 DEF SetRunning, Next, Work
<1>2. ASSUME SaveArtifacts(w) PROVE [Next]_vars
  BY <1>2 DEF SaveArtifacts, Next, Work
<1>3. ASSUME Prune(w) PROVE [Next]_vars
  BY <1>3 DEF Prune, Next, Work
<1>4. ASSUME FinishJob(w) PROVE [Next]_vars
  BY <1>0, <1>4 DEF FinishJob, Next, Work
<1>5. ASSUME BeginStep(w) PROVE [Next]_vars
  <2>1. job[w].at \in Step /\ "running" \in StepStatus
    BY <1>0, <1>5 DEF BeginStep, At, AtStep, StepStatus
  <2>2. RecordStep(w, job[w].at, "running") \/ UNCHANGED vars
    BY <1>5 DEF BeginStep
  <2> QED BY <2>1, <2>2 DEF Next, Work
<1>6. ASSUME EndStep(w) PROVE [Next]_vars
  <2>1. job[w].at \in Step /\ job[w].result \in StepStatus
    BY <1>0, <1>6 DEF EndStep, At, AtStep
  <2>2. RecordStep(w, job[w].at, job[w].result)
    BY <1>6 DEF EndStep
  <2> QED BY <2>1, <2>2 DEF Next, Work
<1>7. UNCHANGED vars => [Next]_vars
  OBVIOUS
<1> QED
  BY <1>1, <1>2, <1>3, <1>4, <1>5, <1>6, <1>7
     DEF Advance, Prepare, PrepareFails, RunFails, EnterStep, Conclude, Health, Launch,
         LaunchFails, CopyFails, WaitFires, StopStep, Stopped, StopUnconfirmed

LEMMA StepServes == RunInv /\ [RunnerNext]_allVars => [Next]_vars
<1> SUFFICES ASSUME RunInv, [RunnerNext]_allVars PROVE [Next]_vars
  OBVIOUS
<1>1. ASSUME NEW w \in Worker, NEW d \in DepId, ClaimJob(w, d) \/ ClaimJobWithoutReading(w, d)
      PROVE  [Next]_vars
  BY <1>1 DEF ClaimJob, ClaimJobWithoutReading, Next, Work
<1>2. ASSUME Environment PROVE [Next]_vars
  <2>1. Request \/ UNCHANGED vars
    BY <1>2 DEF Environment, CancelContext, DeploymentTimeout, ChildExits, ShellExits
  <2> QED BY <2>1 DEF Next
<1>3. ASSUME Stop \/ Reboot PROVE [Next]_vars
  BY <1>3 DEF Stop, Reboot, Next
<1>4. UNCHANGED allVars => UNCHANGED vars
  BY DEF allVars
<1> QED BY <1>1, <1>2, <1>3, <1>4, AdvanceServes DEF RunnerNext

LEMMA SafetyKept == RunInv /\ [RunnerNext]_allVars => SafeInv'
BY StepServes, SafeInductive DEF RunInv

-----------------------------------------------------------------------------
(* Steps of a worker between its claim and its end *)

\* A worker moves on, with or without writing the row it executes or starting a
\* process; what it leaves fits the place it moves to.
LEMMA WorkerStep ==
    ASSUME RunInv, SafeInv', NEW w \in Worker, NEW d \in DepId, executing[w] = d,
           executing' = executing, stopping' = stopping,
           NEW j \in Job, job' = [job EXCEPT ![w] = j],
           proc' \in [DepId -> [leader : Leader, child : BOOLEAN]],
           \A e \in DepId \ {d} : /\ dep'[e].step = dep[e].step
                                  /\ dep'[e].status = dep[e].status
                                  /\ proc'[e] = proc[e],
           Placed(j, dep'[d].step, proc'[d].leader), InOrder(dep'[d])
    PROVE  RunInv'
<1>0. d # NoDep /\ job \in [Worker -> Job]
  BY DEF RunInv, RunnerTypeOK, DepId, NoDep
<1>1. RunnerTypeOK'
  BY <1>0 DEF SafeInv, RunnerTypeOK, RunInv
<1>2. dep'[d].status \in Active
  BY <1>0 DEF SafeInv, ExecutionIsExclusive
<1>3. ASSUME NEW v \in Worker PROVE Attached(v)'
  <2>1. CASE v = w
    BY <1>0, <2>1 DEF Attached
  <2>2. CASE v # w
    <3>1. job'[v] = job[v] /\ executing[v] # d /\ Attached(v)
      BY <1>0, <2>2, Working DEF RunInv
    <3>2. executing[v] \in DepId \cup {NoDep}
      BY DEF RunInv, RunnerTypeOK, TypeOK
    <3> QED BY <3>1, <3>2 DEF Attached
  <2> QED BY <2>1, <2>2
<1>4. UntouchedBefore'
  BY <1>2 DEF RunInv, UntouchedBefore, Active
<1>5. StepsInOrder'
  <2>1. \A e \in DepId : InOrder(dep[e])
    BY OrderByRow DEF RunInv
  <2>2. \A e \in DepId \ {d} : InOrder(dep'[e])
    BY <2>1 DEF InOrder
  <2> QED BY <2>2, OrderByRowNext
<1>6. OnlyFailuresLeaveProcess'
  BY <1>2 DEF RunInv, OnlyFailuresLeaveProcess
<1> QED BY <1>1, <1>3, <1>4, <1>5, <1>6 DEF RunInv

\* The same when the tables stay as they are.
LEMMA Thought ==
    ASSUME RunInv, SafeInv', NEW w \in Worker, job[w].pc # "idle",
           UNCHANGED <<vars, proc, stopping>>,
           NEW j \in Job, job' = [job EXCEPT ![w] = j],
           Placed(j, dep[executing[w]].step, proc[executing[w]].leader)
    PROVE  RunInv'
<1>1. executing[w] \in DepId /\ InOrder(dep[executing[w]])
  BY Working, OrderByRow DEF RunInv
<1>2. dep' = dep /\ executing' = executing /\ proc' = proc /\ stopping' = stopping
  BY DEF vars
<1>3. proc \in [DepId -> [leader : Leader, child : BOOLEAN]]
  BY DEF RunInv, RunnerTypeOK
<1> QED BY <1>1, <1>2, <1>3, WorkerStep

\* An outcome other than a success may be reported from any place where no process is.
LEMMA Reported ==
    ASSUME RunInv, SafeInv', NEW w \in Worker, job[w].pc # "idle",
           UNCHANGED <<vars, proc, stopping>>, NEW o \in Outcome, Report(w, o),
           o # "succeeded" \/ AllDone(dep[executing[w]].step),
           job[w].pc \notin {"select", "stop", "done", "report"}
    PROVE  RunInv'
<1> DEFINE j == [job[w] EXCEPT !.pc = "report", !.result = o]
<1>1. /\ job[w] \in Job
      /\ Placed(job[w], dep[executing[w]].step, proc[executing[w]].leader)
  BY Working
<1>2. j \in Job /\ j.pc = "report" /\ j.result = o
  <2>1. o \in Outcome
    OBVIOUS
  <2> QED BY <1>1, <2>1 DEF Job
<1>3. job' = [job EXCEPT ![w] = j]
  BY DEF Report
<1> HIDE DEF j
<1>4. Placed(j, dep[executing[w]].step, proc[executing[w]].leader)
  BY <1>1, <1>2 DEF Placed, Between, AtStep
<1> QED BY <1>2, <1>3, <1>4, Thought

LEMMA Moved ==
    ASSUME RunInv, SafeInv', NEW w \in Worker, job[w].pc # "idle",
           UNCHANGED <<vars, proc, stopping>>, NEW place \in Places, Go(w, place),
           Placed([job[w] EXCEPT !.pc = place], dep[executing[w]].step,
                  proc[executing[w]].leader)
    PROVE  RunInv'
<1>1. [job[w] EXCEPT !.pc = place] \in Job
  BY Working, JobGoes
<1>2. job' = [job EXCEPT ![w] = [job[w] EXCEPT !.pc = place]]
  BY DEF Go, RunInv, RunnerTypeOK
<1> QED BY <1>1, <1>2, Thought

\* What is before a worker and absent is not waited for.
LEMMA NothingLeft ==
    ASSUME RunInv, NEW w \in Worker, executing[w] # NoDep,
           job[w].pc \in Between, Left(w) = {}
    PROVE  AllDone(dep[executing[w]].step)
<1> DEFINE steps == dep[executing[w]].step
<1>1. DoneTo(steps, job[w].at) /\ job[w].at \in Nat
  <2>1. job[w] \in Job /\ Placed(job[w], steps, proc[executing[w]].leader)
    BY Working
  <2>2. job[w].at \in Step \cup {0}
    BY <2>1 DEF Job
  <2>3. job[w].at \in Nat
    <3>1. \A n \in Step \cup {0} : n \in Nat
      BY PipelineAssumption
    <3> QED BY <2>2, <3>1
  <2> HIDE DEF steps
  <2>4. DoneTo(steps, job[w].at)
    BY <2>1 DEF Placed
  <2> QED BY <2>3, <2>4
<1>2. \A n \in Step : n \in Nat
  BY PipelineAssumption
<1>3. \A n \in Step : n > job[w].at => steps[n] = "absent"
  BY DEF Left
<1> QED BY <1>1, <1>2, <1>3 DEF AllDone, DoneTo

\* run(): from the claim to the loop over the steps, and after it.
LEMMA ArtifactFields ==
    ASSUME NEW r \in Row, NEW q, NEW b, q = [r EXCEPT !.artifact = b]
    PROVE  q.step = r.step /\ q.status = r.status
BY DEF Row

LEMMA ArtifactKept ==
    ASSUME TypeOK, NEW e \in DepId, NEW b \in BOOLEAN, dep' = [dep EXCEPT ![e].artifact = b]
    PROVE  \A f \in DepId : dep'[f].step = dep[f].step /\ dep'[f].status = dep[f].status
<1>1. dep'[e] = [dep[e] EXCEPT !.artifact = b] /\ dep[e] \in Row
  BY DEF TypeOK
<1>2. dep'[e].step = dep[e].step /\ dep'[e].status = dep[e].status
  BY <1>1, ArtifactFields
<1>3. \A f \in DepId \ {e} : dep'[f] = dep[f]
  BY DEF TypeOK
<1> QED BY <1>2, <1>3

LEMMA StatusMoved ==
    ASSUME TypeOK, NEW d \in DepId, NEW s \in Status, dep' = [dep EXCEPT ![d].status = s]
    PROVE  /\ dep'[d].status = s /\ \A f \in DepId : dep'[f].step = dep[f].step
           /\ \A f \in DepId \ {d} : dep'[f] = dep[f]
<1>1. dep'[d] = [dep[d] EXCEPT !.status = s] /\ dep[d] \in Row
  BY DEF TypeOK
<1>2. dep'[d].status = s /\ dep'[d].step = dep[d].step
  BY <1>1 DEF Row
<1>3. \A f \in DepId \ {d} : dep'[f] = dep[f]
  BY DEF TypeOK
<1> QED BY <1>2, <1>3

LEMMA PreparingKeeps ==
    ASSUME RunInv, SafeInv', NEW w \in Worker,
           Prepare(w) \/ PrepareFails(w) \/ SetRunning(w)
    PROVE  RunInv'
<1> DEFINE d == executing[w]
<1>0. job[w].pc \in {"prepare", "ready"}
  BY DEF Prepare, PrepareFails, SetRunning, At
<1>1. /\ d \in DepId /\ job[w] \in Job /\ dep[d].status \in Active
      /\ Placed(job[w], dep[d].step, proc[d].leader)
      /\ InOrder(dep[d]) /\ TypeOK
      /\ proc \in [DepId -> [leader : Leader, child : BOOLEAN]]
  BY <1>0, Working, OrderByRow DEF RunInv, RunnerTypeOK
<1>2. "cancelled" \in Outcome /\ "failed" \in Outcome /\ "steps" \in Places /\ "ready" \in Places
  BY DEF Outcome, Terminal, Places, Between
<1>3. ASSUME NEW place \in {"ready", "steps"}
      PROVE  Placed([job[w] EXCEPT !.pc = place], dep[d].step, proc[d].leader)
  BY <1>0, <1>1 DEF Placed, Between, AtStep, Job
<1>4. CASE Prepare(w)
  BY <1>0, <1>2, <1>3, <1>4, Moved DEF Prepare
<1>5. CASE PrepareFails(w)
  <2>1. PICK o \in {"failed"} \cup Outcomes(job[w].ctx) : Report(w, o)
    BY <1>5 DEF PrepareFails
  <2>2. o \in Outcome /\ o # "succeeded"
    BY <1>2, <2>1, OutcomesAreEnds
  <2> QED BY <1>0, <1>5, <2>1, <2>2, Reported DEF PrepareFails
<1>6. CASE SetRunning(w)
  <2>1. ASSUME MarkRunning(w), Go(w, "steps") PROVE RunInv'
    <3> DEFINE j == [job[w] EXCEPT !.pc = "steps"]
    <3>1. "running" \in Status
      BY DEF Status, Active
    <3>2. /\ dep' = [dep EXCEPT ![d].status = "running"] /\ executing' = executing
          /\ stopping' = stopping /\ proc' = proc /\ job' = [job EXCEPT ![w] = j]
      BY <1>6, <2>1 DEF MarkRunning, SetRunning, Go
    <3>3. /\ dep'[d].status = "running" /\ \A f \in DepId : dep'[f].step = dep[f].step
          /\ \A f \in DepId \ {d} : dep'[f] = dep[f]
      BY <1>1, <3>1, <3>2, StatusMoved
    <3>4. InOrder(dep'[d])
      BY <1>1, <3>3 DEF InOrder
    <3>5. j \in Job
      BY <1>1 DEF Job
    <3> QED BY <1>1, <1>3, <3>2, <3>3, <3>4, <3>5, WorkerStep
  <2>2. ASSUME Report(w, "cancelled"), UNCHANGED vars PROVE RunInv'
    BY <1>0, <1>2, <1>6, <2>2, Reported DEF SetRunning
  <2> QED BY <1>6, <2>1, <2>2 DEF SetRunning
<1> QED BY <1>4, <1>5, <1>6

LEMMA SavingKeeps ==
    ASSUME RunInv, SafeInv', NEW w \in Worker,
           SaveArtifacts(w) \/ RunFails(w) \/ Prune(w)
    PROVE  RunInv'
<1> DEFINE d == executing[w]
<1>0. job[w].pc \in {"ready", "steps", "prune"}
  BY DEF SaveArtifacts, RunFails, Prune, At
<1>1. /\ d \in DepId /\ job[w] \in Job /\ InOrder(dep[d]) /\ TypeOK
      /\ Placed(job[w], dep[d].step, proc[d].leader)
      /\ proc \in [DepId -> [leader : Leader, child : BOOLEAN]]
      /\ job \in [Worker -> Job]
  BY <1>0, Working, OrderByRow DEF RunInv, RunnerTypeOK
<1>2. ASSUME NEW e \in DepId, NEW b \in BOOLEAN, dep' = [dep EXCEPT ![e].artifact = b],
             executing' = executing, UNCHANGED <<proc, stopping>>,
             NEW j \in Job, job' = [job EXCEPT ![w] = j],
             Placed(j, dep[d].step, proc[d].leader)
      PROVE  RunInv'
  <2>1. \A f \in DepId : dep'[f].step = dep[f].step /\ dep'[f].status = dep[f].status
    BY <1>1, <1>2, ArtifactKept
  <2>2. InOrder(dep'[d])
    BY <1>1, <2>1 DEF InOrder
  <2> QED BY <1>1, <1>2, <2>1, <2>2, WorkerStep
<1>3. CASE SaveArtifacts(w)
  <2> DEFINE j == [job[w] EXCEPT !.pc = "prune", !.saved = TRUE]
  <2>1. /\ dep' = [dep EXCEPT ![d].artifact = TRUE] /\ executing' = executing
        /\ UNCHANGED <<proc, stopping>> /\ job' = [job EXCEPT ![w] = j]
    BY <1>3 DEF SaveArtifacts, SaveArtifact
  <2>2. /\ j \in Job /\ j.pc = "prune" /\ j.at = job[w].at
    BY <1>1 DEF Job
  <2> HIDE DEF j
  <2>3. Placed(j, dep[d].step, proc[d].leader)
    BY <1>1, <1>3, <2>2 DEF Placed, Between, AtStep, SaveArtifacts, At
  <2> QED BY <1>1, <1>2, <2>1, <2>2, <2>3
<1>4. CASE RunFails(w)
  <2>1. "failed" \in Outcome
    BY DEF Outcome, Terminal
  <2> QED BY <1>0, <1>4, <2>1, Reported DEF RunFails
<1>5. CASE Prune(w)
  <2>1. ASSUME NEW e \in DepId, PruneArtifact(w, e), UNCHANGED job PROVE RunInv'
    <3>1. /\ dep' = [dep EXCEPT ![e].artifact = FALSE] /\ executing' = executing
          /\ UNCHANGED <<proc, stopping>>
      BY <1>5, <2>1 DEF Prune, PruneArtifact
    <3>2. job' = [job EXCEPT ![w] = job[w]]
      BY <1>1, <2>1
    <3> QED BY <1>1, <1>2, <3>1, <3>2
  <2>2. ASSUME Go(w, "steps"), UNCHANGED vars PROVE RunInv'
    <3>1. "steps" \in Places
      BY DEF Places, Between
    <3>2. Placed([job[w] EXCEPT !.pc = "steps"], dep[d].step, proc[d].leader)
      BY <1>0, <1>1 DEF Placed, Between, AtStep, Job
    <3> QED BY <1>0, <1>5, <2>2, <3>1, <3>2, Moved DEF Prune
  <2> QED BY <1>5, <2>1, <2>2 DEF Prune
<1> QED BY <1>3, <1>4, <1>5

\* The loop over the steps, and what follows the last one.
LEMMA LoopKeeps ==
    ASSUME RunInv, SafeInv', NEW w \in Worker,
           EnterStep(w) \/ Conclude(w) \/ Health(w)
    PROVE  RunInv'
<1> DEFINE d == executing[w]
<1>0. job[w].pc \in {"steps", "health"} /\ UNCHANGED <<vars, proc, stopping>>
  BY DEF EnterStep, Conclude, Health, At
<1>1. /\ d \in DepId /\ d # NoDep /\ job[w] \in Job /\ InOrder(dep[d])
      /\ Placed(job[w], dep[d].step, proc[d].leader)
      /\ dep[d].step \in [Step -> StepStatus] /\ job \in [Worker -> Job]
  <2>1. d \in DepId /\ d # NoDep /\ dep[d] \in Row
    BY <1>0, Working DEF RunInv, RunnerTypeOK, TypeOK
  <2>2. dep[d].step \in [Step -> StepStatus]
    BY <2>1 DEF Row
  <2> QED BY <1>0, <2>1, <2>2, Working, OrderByRow DEF RunInv, RunnerTypeOK
<1>2. ASSUME NEW o \in Outcome, Report(w, o), o # "succeeded" \/ AllDone(dep[d].step)
      PROVE  RunInv'
  BY <1>0, <1>2, Reported
<1>3. {"cancelled", "failed", "succeeded"} \subseteq Outcome
  BY DEF Outcome, Terminal
<1>4. CASE EnterStep(w)
  <2>1. PICK n \in Step :
          /\ IsNext(w, n)
          /\ \/ Report(w, "cancelled")
             \/ job' = [job EXCEPT ![w] = [@ EXCEPT !.pc = "begin", !.at = n]]
    BY <1>4 DEF EnterStep
  <2> DEFINE j == [job[w] EXCEPT !.pc = "begin", !.at = n]
  <2>2. j \in Job /\ j.pc = "begin" /\ j.at = n
    BY <1>1 DEF Job
  <2>3. job[w].pc = "steps"
    BY <1>4 DEF EnterStep, At
  <2>4. DoneTo(dep[d].step, job[w].at) /\ FreshFrom(dep[d].step, job[w].at)
    BY <1>1, <2>3 DEF Placed, Between
  <2>5. job[w].at \in Nat /\ n \in Nat /\ \A m \in Step : m \in Nat
    <3>1. \A m \in Step \cup {0} : m \in Nat
      BY PipelineAssumption
    <3>2. job[w].at \in Step \cup {0}
      BY <1>1 DEF Job
    <3> QED BY <3>1, <3>2
  <2>6. /\ n > job[w].at /\ dep[d].step[n] # "absent"
        /\ \A m \in Step : m > job[w].at /\ dep[d].step[m] # "absent" => n <= m
    BY <2>1 DEF IsNext, Left
  <2>7. DoneTo(dep[d].step, n - 1)
    <3> SUFFICES ASSUME NEW m \in Step, m <= n - 1
                 PROVE  dep[d].step[m] \in {"absent", "succeeded"}
      BY DEF DoneTo
    <3>1. m <= job[w].at \/ m > job[w].at
      BY <2>5
    <3>2. ~(n <= m)
      BY <2>5
    <3> QED BY <2>4, <2>6, <3>1, <3>2 DEF DoneTo
  <2>8. FreshFrom(dep[d].step, n) /\ dep[d].step[n] = "pending"
    <3>1. \A m \in Step : m > n => m > job[w].at
      BY <2>5, <2>6
    <3> QED BY <2>4, <2>6, <3>1 DEF FreshFrom
  <2>9. proc[d].leader # "alive"
    BY <1>1, <2>3 DEF Placed
  <2> HIDE DEF j
  <2>10. Placed(j, dep[d].step, proc[d].leader)
    BY <2>2, <2>7, <2>8, <2>9 DEF Placed, Between, AtStep
  <2>11. ASSUME job' = [job EXCEPT ![w] = j] PROVE RunInv'
    BY <1>0, <2>2, <2>10, <2>11, Thought
  <2>12. Report(w, "cancelled") \/ job' = [job EXCEPT ![w] = j]
    BY <2>1 DEF j
  <2> QED BY <1>2, <1>3, <2>11, <2>12
<1>5. CASE Conclude(w)
  <2>1. AllDone(dep[d].step) /\ job[w].pc = "steps"
    BY <1>1, <1>5, NothingLeft DEF Conclude, At, Between
  <2>2. \/ \E o \in Outcomes(job[w].ctx) : Report(w, o)
        \/ Report(w, "cancelled")
        \/ Go(w, "health")
    BY <1>5 DEF Conclude
  <2>3. "health" \in Places
    BY DEF Places
  <2>4. Placed([job[w] EXCEPT !.pc = "health"], dep[d].step, proc[d].leader)
    BY <1>1, <2>1 DEF Placed, Between, AtStep, Job
  <2> QED BY <1>0, <1>2, <1>3, <2>1, <2>2, <2>3, <2>4, OutcomesAreEnds, Moved
<1>6. CASE Health(w)
  <2>1. AllDone(dep[d].step)
    BY <1>1, <1>6 DEF Health, At, Placed
  <2>2. PICK o \in {"succeeded", "failed"} \cup Outcomes(job[w].ctx) : Report(w, o)
    BY <1>6 DEF Health
  <2>3. o \in Outcome
    BY <1>3, <2>2, OutcomesAreEnds
  <2> QED BY <1>2, <2>1, <2>2, <2>3
<1> QED BY <1>4, <1>5, <1>6

\* A write of the step row that the worker is at.
LEMMA StepWritten ==
    ASSUME RunInv, SafeInv', NEW w \in Worker, NEW s \in StepStatus,
           RecordStep(w, job[w].at, s), UNCHANGED <<proc, stopping>>,
           job[w].pc \in AtStep, s \notin {"absent", "pending", "skipped"},
           NEW j \in Job, job' = [job EXCEPT ![w] = j], j.at = job[w].at,
           j.pc # "idle",
           j.pc \in Between => s = "succeeded",
           j.pc \in AtStep => j.pc # "begin" /\ s = "running",
           j.pc # "health", j.pc = "report" => j.result # "succeeded",
           proc[executing[w]].leader = "alive" =>
              j.pc \in {"done", "report"} /\ j.result = "failed"
    PROVE  RunInv'
<1> DEFINE d == executing[w]
           a == job[w].at
<1>1. /\ d \in DepId /\ d # NoDep /\ dep[d] \in Row /\ InOrder(dep[d])
      /\ Placed(job[w], dep[d].step, proc[d].leader) /\ dep[d].status \in Active
      /\ TypeOK /\ proc \in [DepId -> [leader : Leader, child : BOOLEAN]]
  <2>1. job[w].pc # "idle"
    BY DEF AtStep
  <2>2. d \in DepId /\ TypeOK
    BY <2>1, Working DEF RunInv, RunnerTypeOK
  <2> QED BY <2>1, <2>2, Working, OrderByRow DEF RunInv, RunnerTypeOK, TypeOK
<1>2. /\ a \in Step /\ DoneTo(dep[d].step, a - 1) /\ FreshFrom(dep[d].step, a)
      /\ dep[d].step[a] \in {"pending", "running"}
      /\ \A m \in Step : m \in Nat
  BY <1>1, PipelineAssumption DEF Placed
<1>3. /\ dep' = [dep EXCEPT ![d] = [dep[d] EXCEPT !.step[a] = s]]
      /\ executing' = executing
  BY <1>1 DEF RecordStep, TypeOK
<1>4. /\ dep'[d].step = [dep[d].step EXCEPT ![a] = s] /\ dep'[d].status = dep[d].status
      /\ dep[d].step \in [Step -> StepStatus]
      /\ \A e \in DepId \ {d} : dep'[e] = dep[e]
  <2>1. dep'[d] = [dep[d] EXCEPT !.step[a] = s]
    BY <1>1, <1>3 DEF TypeOK
  <2>2. \A e \in DepId \ {d} : dep'[e] = dep[e]
    BY <1>1, <1>3 DEF TypeOK
  <2> QED BY <1>1, <2>1, <2>2 DEF Row
<1>5. dep'[d].step[a] = s /\ \A m \in Step \ {a} : dep'[d].step[m] = dep[d].step[m]
  BY <1>2, <1>4
<1>6. DoneTo(dep'[d].step, a - 1) /\ FreshFrom(dep'[d].step, a)
  BY <1>2, <1>5 DEF DoneTo, FreshFrom
<1>7. s = "succeeded" => DoneTo(dep'[d].step, a)
  BY <1>2, <1>5 DEF DoneTo
<1>8. InOrder(dep'[d])
  <2>1. ASSUME NEW m \in Step, NEW n \in Step, m < n, dep'[d].step[m] # "absent",
               dep'[d].step[n] \notin {"absent", "pending", "skipped"}
        PROVE  dep'[d].step[m] = "succeeded"
    <3>1. n <= a
      BY <1>2, <1>6, <2>1 DEF FreshFrom
    <3>2. m <= a - 1
      BY <1>2, <2>1, <3>1
    <3> QED BY <1>6, <2>1, <3>2 DEF DoneTo
  <2> QED BY <1>1, <1>4, <2>1 DEF InOrder, Active
<1>9. Placed(j, dep'[d].step, proc[d].leader)
  BY <1>2, <1>5, <1>6, <1>7 DEF Placed, AtStep
<1> QED BY <1>1, <1>3, <1>4, <1>8, <1>9, WorkerStep

\* runStep(): the process is started, awaited or stopped, and the row written.
LEMMA StepKeeps ==
    ASSUME RunInv, SafeInv', NEW w \in Worker,
           \/ BeginStep(w) \/ Launch(w) \/ LaunchFails(w) \/ WaitFires(w) \/ StopStep(w)
           \/ Stopped(w) \/ StopUnconfirmed(w) \/ EndStep(w)
    PROVE  RunInv'
<1> DEFINE d == executing[w]
<1>0. job[w].pc \in AtStep
  BY DEF BeginStep, Launch, LaunchFails, WaitFires, StopStep, Stopped, StopUnconfirmed,
         EndStep, At, AtStep
<1>1. /\ d \in DepId /\ job[w] \in Job /\ job[w].pc # "idle" /\ InOrder(dep[d])
      /\ Placed(job[w], dep[d].step, proc[d].leader)
      /\ job \in [Worker -> Job]
      /\ proc \in [DepId -> [leader : Leader, child : BOOLEAN]]
  BY <1>0, Working, OrderByRow DEF RunInv, RunnerTypeOK, AtStep
<1>2. {"cancelled", "failed", "succeeded", "timed_out"} \subseteq Outcome
  BY DEF Outcome, Terminal
<1>3. ASSUME NEW j \in Job, UNCHANGED <<vars, proc, stopping>>,
             job' = [job EXCEPT ![w] = j], j.pc \in {"stop", "done"}, j.at = job[w].at,
             job[w].pc # "begin",
             proc[d].leader = "alive" => j.pc = "stop" \/ j.result = "failed"
      PROVE  RunInv'
  <2>1. Placed(j, dep[d].step, proc[d].leader)
    BY <1>0, <1>1, <1>3 DEF Placed, Between, AtStep
  <2> QED BY <1>1, <1>3, <2>1, Thought
<1>4. CASE BeginStep(w)
  <2>1. ASSUME NEW o \in Outcomes(job[w].ctx), Report(w, o), UNCHANGED vars PROVE RunInv'
    <3>1. o \in Outcome /\ o # "succeeded"
      BY <2>1, OutcomesAreEnds
    <3> QED BY <1>1, <1>4, <2>1, <3>1, Reported DEF BeginStep, At
  <2>2. ASSUME RecordStep(w, job[w].at, "running"), Go(w, "launch") PROVE RunInv'
    <3> DEFINE j == [job[w] EXCEPT !.pc = "launch"]
    <3>1. j \in Job /\ j.pc = "launch" /\ j.at = job[w].at
      BY <1>1 DEF Job
    <3>2. job' = [job EXCEPT ![w] = j]
      BY <2>2 DEF Go
    <3>3. proc[d].leader # "alive"
      BY <1>1, <1>4 DEF Placed, BeginStep, At
    <3> HIDE DEF j
    <3>4. "running" \in StepStatus /\ "launch" \notin Between /\ UNCHANGED <<proc, stopping>>
      BY <1>4 DEF StepStatus, Between, BeginStep
    <3> QED BY <1>0, <2>2, <3>1, <3>2, <3>3, <3>4, StepWritten
  <2> QED BY <1>4, <2>1, <2>2 DEF BeginStep
<1>5. CASE Launch(w)
  <2> DEFINE j == [job[w] EXCEPT !.pc = "select"]
  <2>1. j \in Job /\ j.pc = "select" /\ j.at = job[w].at
    BY <1>1 DEF Job
  <2>2. PICK c \in BOOLEAN : proc' = [proc EXCEPT ![d] = [leader |-> "alive", child |-> c]]
    BY <1>5 DEF Launch
  <2>3. job' = [job EXCEPT ![w] = j] /\ UNCHANGED vars /\ stopping' = stopping
    BY <1>5 DEF Launch, Go
  <2> HIDE DEF j
  <2>4. Placed(j, dep[d].step, proc'[d].leader)
    BY <1>1, <1>5, <2>1 DEF Placed, Between, AtStep, Launch, At
  <2>5. proc' \in [DepId -> [leader : Leader, child : BOOLEAN]]
    <3>1. [leader |-> "alive", child |-> c] \in [leader : Leader, child : BOOLEAN]
      BY DEF Leader
    <3> QED BY <1>1, <2>2, <3>1
  <2>6. dep' = dep /\ executing' = executing /\ \A e \in DepId \ {d} : proc'[e] = proc[e]
    BY <1>1, <2>2, <2>3 DEF vars
  <2> QED BY <1>1, <2>1, <2>3, <2>4, <2>5, <2>6, WorkerStep
<1>6. CASE LaunchFails(w)
  BY <1>1, <1>2, <1>6, Reported DEF LaunchFails, At
<1>7. CASE WaitFires(w)
  <2> DEFINE o == ExitOutcome(d)
             j == [job[w] EXCEPT !.pc = "done", !.result = o]
  <2>1. o \in Outcome
    BY <1>2 DEF ExitOutcome
  <2> HIDE DEF o
  <2>2. j \in Job /\ j.pc = "done" /\ j.at = job[w].at
    BY <1>1, <2>1 DEF Job
  <2>3. job' = [job EXCEPT ![w] = j] /\ UNCHANGED <<vars, proc, stopping>>
    BY <1>7 DEF WaitFires, o
  <2>4. proc[d].leader # "alive" /\ job[w].pc # "begin"
    BY <1>7 DEF WaitFires, Exited, At
  <2> HIDE DEF j
  <2> QED BY <1>3, <2>2, <2>3, <2>4
<1>8. CASE StopStep(w)
  <2>1. PICK why \in {"log", "ticker", "cancelled", "deadline"} :
          job' = [job EXCEPT ![w] = [@ EXCEPT !.pc = "stop", !.why = why]]
    BY <1>8 DEF StopStep
  <2> DEFINE j == [job[w] EXCEPT !.pc = "stop", !.why = why]
  <2>2. j \in Job /\ j.pc = "stop" /\ j.at = job[w].at
    BY <1>1 DEF Job
  <2>3. job' = [job EXCEPT ![w] = j] /\ UNCHANGED <<vars, proc, stopping>>
        /\ job[w].pc # "begin"
    BY <1>8, <2>1 DEF StopStep, At
  <2> HIDE DEF j
  <2> QED BY <1>3, <2>2, <2>3
<1>9. ASSUME Stopped(w) \/ StopUnconfirmed(w) PROVE RunInv'
  <2>1. PICK o \in Outcome :
          /\ job' = [job EXCEPT ![w] = [@ EXCEPT !.pc = "done", !.result = o]]
          /\ proc[d].leader = "alive" => o = "failed"
    BY <1>2, <1>9 DEF Stopped, Confirmed, Exited, StopUnconfirmed
  <2> DEFINE j == [job[w] EXCEPT !.pc = "done", !.result = o]
  <2>2. j \in Job /\ j.pc = "done" /\ j.at = job[w].at /\ j.result = o
    BY <1>1 DEF Job
  <2>3. job' = [job EXCEPT ![w] = j] /\ UNCHANGED <<vars, proc, stopping>>
        /\ job[w].pc # "begin"
    BY <1>9, <2>1 DEF Stopped, StopUnconfirmed, At
  <2> HIDE DEF j
  <2> QED BY <1>3, <2>1, <2>2, <2>3
<1>10. CASE EndStep(w)
  <2> DEFINE o == job[w].result
             place == AfterStep(o)
             j == [job[w] EXCEPT !.pc = place, !.why = "none", !.copyErr = FALSE]
  <2>1. /\ o \in Outcome /\ RecordStep(w, job[w].at, o) /\ job[w].pc = "done"
        /\ job' = [job EXCEPT ![w] = j] /\ UNCHANGED <<proc, stopping>>
    BY <1>1, <1>10 DEF EndStep, Job, At
  <2>2. o \in StepStatus /\ o \notin {"absent", "pending", "skipped", "running"}
    BY <2>1 DEF Outcome, StepStatus, StepEnd, Terminal
  <2>3. \/ o = "succeeded" /\ place = "steps"
        \/ o # "succeeded" /\ place = "report"
    BY DEF AfterStep
  <2>4. j \in Job /\ j.pc = place /\ j.at = job[w].at /\ j.result = o
    <3> DEFINE q == place
    <3>1. q \in {"steps", "report"}
      BY <2>3
    <3>2. j = [job[w] EXCEPT !.pc = q, !.why = "none", !.copyErr = FALSE]
      OBVIOUS
    <3> HIDE DEF q, place
    <3>3. /\ j \in Job /\ j.pc = q /\ j.at = job[w].at /\ j.result = o
      BY <1>1, <3>1, <3>2 DEF Job
    <3> QED BY <3>3 DEF q
  <2>5. proc[d].leader = "alive" => o = "failed"
    BY <1>1, <2>1 DEF Placed
  <2>6. "report" \notin Between \cup AtStep /\ "steps" \notin AtStep
    BY DEF Between, AtStep
  <2> HIDE DEF j, place, o
  <2> QED BY <1>0, <2>1, <2>2, <2>3, <2>4, <2>5, <2>6, StepWritten DEF o
<1> QED BY <1>4, <1>5, <1>6, <1>7, <1>8, <1>9, <1>10

-----------------------------------------------------------------------------
(* The claim, the end, and what others do *)

LEMMA ClaimKeeps ==
    ASSUME RunInv, SafeInv', NEW w \in Worker, NEW d \in DepId,
           ClaimJob(w, d) \/ ClaimJobWithoutReading(w, d)
    PROVE  RunInv'
<1>0. /\ TypeOK /\ job \in [Worker -> Job] /\ \A e \in DepId : InOrder(dep[e])
      /\ proc \in [DepId -> [leader : Leader, child : BOOLEAN]] /\ stopping \in BOOLEAN
      /\ executing \in [Worker -> DepId \cup {NoDep}] /\ d # NoDep
  BY OrderByRow DEF RunInv, RunnerTypeOK, TypeOK, DepId, NoDep
<1>1. /\ dep[d].status = "queued" /\ dep' = [dep EXCEPT ![d].status = "preparing"]
      /\ proc' = proc /\ stopping' = stopping /\ executing[w] = NoDep
  <2>1. TakeLock(d) /\ executing[w] = NoDep /\ proc' = proc /\ stopping' = stopping
    BY DEF ClaimJob, ClaimJobWithoutReading, Claim, ClaimWithoutReading, runnerVars
  <2> QED BY <2>1 DEF TakeLock, Claimable
<1>2. /\ dep'[d].status = "preparing" /\ \A f \in DepId : dep'[f].step = dep[f].step
      /\ \A f \in DepId \ {d} : dep'[f] = dep[f]
  <2>1. "preparing" \in Status
    BY DEF Status, Active
  <2> QED BY <1>0, <1>1, <2>1, StatusMoved
<1>3. Untouched(dep[d].step) /\ proc[d].leader # "alive"
  BY <1>1 DEF RunInv, UntouchedBefore, OnlyFailuresLeaveProcess, Active
<1>4. \A v \in Worker : executing[v] # d
  BY <1>0, <1>1 DEF RunInv, SafeInv, ExecutionIsExclusive, Active
<1>5. \A v \in Worker : executing'[v] = executing[v] /\ job'[v] = job[v] => Attached(v)'
  BY <1>0, <1>1, <1>2, <1>4 DEF RunInv, Attached
<1>6. job' \in [Worker -> Job] /\ \A v \in Worker : Attached(v)'
  <2>1. CASE ClaimJobWithoutReading(w, d)
    BY <1>0, <1>5, <2>1 DEF ClaimJobWithoutReading, ClaimWithoutReading, runnerVars
  <2>2. CASE ClaimJob(w, d)
    <3> DEFINE j == [Idle EXCEPT !.pc = "prepare"]
    <3>1. j \in Job /\ j.pc = "prepare" /\ j.at = 0
      BY IdleTyped DEF Idle, Job
    <3>2. job' = [job EXCEPT ![w] = j] /\ executing' = [executing EXCEPT ![w] = d]
      BY <2>2 DEF ClaimJob, Claim
    <3> HIDE DEF j
    <3>3. DoneTo(dep[d].step, 0) /\ FreshFrom(dep[d].step, 0)
      <4>1. \A m \in Step : m \in Nat /\ ~(m <= 0)
        BY PipelineAssumption
      <4> QED BY <1>3, <4>1 DEF DoneTo, FreshFrom, Untouched
    <3>4. Placed(j, dep'[d].step, proc[d].leader)
      BY <1>2, <1>3, <3>1, <3>3 DEF Placed, Between, AtStep
    <3>5. Attached(w)'
      BY <1>0, <1>1, <3>2, <3>4 DEF Attached
    <3>6. \A v \in Worker \ {w} : executing'[v] = executing[v] /\ job'[v] = job[v]
      BY <1>0, <3>2
    <3> QED BY <1>0, <1>5, <3>1, <3>2, <3>5, <3>6
  <2> QED BY <2>1, <2>2
<1>7. RunnerTypeOK'
  BY <1>0, <1>1, <1>6 DEF SafeInv, RunnerTypeOK
<1>8. UntouchedBefore'
  BY <1>2 DEF RunInv, UntouchedBefore
<1>9. StepsInOrder'
  <2>1. InOrder(dep'[d])
    BY <1>2, <1>3, UntouchedInOrder
  <2> QED BY <1>0, <1>2, <2>1, OrderByRowNext
<1>10. OnlyFailuresLeaveProcess'
  BY <1>1, <1>2, <1>3 DEF RunInv, OnlyFailuresLeaveProcess
<1> QED BY <1>6, <1>7, <1>8, <1>9, <1>10 DEF RunInv

\* Skipping what is pending leaves the order as it was.
LEMMA SkippedInOrder ==
    ASSUME NEW r, NEW q, InOrder(r), q.status # "succeeded",
           q.step = SkipPending(r.step)
    PROVE  InOrder(q)
<1>1. \A n \in Step : q.step[n] = IF r.step[n] = "pending" THEN "skipped" ELSE r.step[n]
  BY DEF SkipPending
<1> QED BY <1>1 DEF InOrder

LEMMA FinishKeeps ==
    ASSUME RunInv, SafeInv', NEW w \in Worker, FinishJob(w)
    PROVE  RunInv'
<1> DEFINE d == executing[w]
           o == job[w].result
<1>0. /\ TypeOK /\ job \in [Worker -> Job] /\ \A e \in DepId : InOrder(dep[e])
      /\ proc \in [DepId -> [leader : Leader, child : BOOLEAN]] /\ stopping \in BOOLEAN
      /\ executing \in [Worker -> DepId \cup {NoDep}] /\ \A e \in DepId : e # NoDep
      /\ dep \in [DepId -> Row]
  BY OrderByRow DEF RunInv, RunnerTypeOK, TypeOK, DepId, NoDep
<1>1. /\ job[w].pc = "report" /\ proc' = proc /\ stopping' = stopping
      /\ job' = [job EXCEPT ![w] = Idle] /\ executing' = [executing EXCEPT ![w] = NoDep]
      /\ (dep' = dep) \/ Finish(w, o)
  BY DEF FinishJob, At, Finish, FinishFails
<1>2. /\ d \in DepId /\ o \in Outcome /\ dep[d].status \in Active
      /\ o = "succeeded" => AllDone(dep[d].step)
      /\ proc[d].leader = "alive" => o = "failed"
      /\ \A v \in Worker : executing[v] = d => v = w
  BY <1>1, Working DEF Placed, Job
<1>3. ASSUME dep' # dep
      PROVE  /\ \A e \in DepId \ {d} : dep'[e] = dep[e]
             /\ dep'[d].status = Settled(dep[d].status, o)
             /\ dep'[d].step = IF dep'[d].status = "succeeded" THEN dep[d].step
                               ELSE SkipPending(dep[d].step)
  <2> DEFINE final == Settled(dep[d].status, o)
             steps == IF final = "succeeded" THEN dep[d].step ELSE SkipPending(dep[d].step)
             summary == IF o = "succeeded" THEN "" ELSE "error"
  <2>1. dep' = [dep EXCEPT ![d] = [@ EXCEPT !.status = final, !.summary = summary,
                                            !.step = steps]]
    BY <1>1, <1>2, <1>3 DEF Finish, FinishEffect, IsSettled, Active, Terminal
  <2> HIDE DEF final, steps, summary
  <2>2. dep'[d] = [dep[d] EXCEPT !.status = final, !.summary = summary, !.step = steps]
    BY <1>0, <1>2, <2>1
  <2>3. \A e \in DepId \ {d} : dep'[e] = dep[e]
    BY <1>0, <1>2, <2>1
  <2>4. dep[d] \in Row
    BY <1>0, <1>2
  <2>5. dep'[d].status = final /\ dep'[d].step = steps
    BY <2>2, <2>4 DEF Row
  <2> QED BY <2>3, <2>5 DEF final, steps
<1>4. RunnerTypeOK'
  BY <1>0, <1>1, IdleTyped DEF SafeInv, RunnerTypeOK
<1>5. ASSUME NEW v \in Worker PROVE Attached(v)'
  <2>1. CASE v = w
    BY <1>0, <1>1, <2>1, IdleTyped DEF Attached
  <2>2. CASE v # w
    <3>1. job'[v] = job[v] /\ executing'[v] = executing[v] /\ executing[v] # d /\ Attached(v)
      BY <1>0, <1>1, <1>2, <2>2 DEF RunInv
    <3>2. executing[v] # NoDep => dep'[executing[v]] = dep[executing[v]]
      BY <1>0, <1>3, <3>1
    <3> QED BY <1>1, <3>1, <3>2 DEF Attached
  <2> QED BY <2>1, <2>2
<1>6. dep' # dep => dep'[d].status \in Terminal
  BY <1>2, <1>3 DEF Settled, Outcome, Terminal
<1>7. UntouchedBefore'
  BY <1>3, <1>6 DEF RunInv, UntouchedBefore, Terminal
<1>8. StepsInOrder'
  <2>1. ASSUME dep' # dep PROVE InOrder(dep'[d])
    <3>1. CASE dep'[d].status = "succeeded"
      <4>1. o = "succeeded" /\ dep'[d].step = dep[d].step
        BY <1>3, <2>1, <3>1 DEF Settled
      <4> QED BY <1>0, <1>2, <4>1 DEF InOrder
    <3>2. CASE dep'[d].status # "succeeded"
      BY <1>0, <1>2, <1>3, <2>1, <3>2, SkippedInOrder
    <3> QED BY <3>1, <3>2
  <2> QED BY <1>0, <1>3, <2>1, OrderByRowNext
<1>9. OnlyFailuresLeaveProcess'
  <2>1. dep' # dep /\ proc[d].leader = "alive" => dep'[d].status = "failed"
    BY <1>2, <1>3 DEF Settled
  <2> QED BY <1>1, <1>3, <2>1 DEF RunInv, OnlyFailuresLeaveProcess
<1> QED BY <1>4, <1>5, <1>7, <1>8, <1>9 DEF RunInv

\* What a request does to the steps and the status of a row.
RequestRow(r, q) ==
    \/ /\ q.step = r.step
       /\ \/ q.status = r.status
          \/ r.status = "queued" /\ q.status = "cancelled"
          \/ r.status \in Active /\ q.status = "cancelling"
    \/ r.status = "none" /\ q.status = "queued" /\ Untouched(q.step)
    \/ r.status \in Terminal /\ q.status = "deleted" /\ Untouched(q.step)

LEMMA RequestRows ==
    ASSUME TypeOK, Request
    PROVE  executing' = executing /\ \A e \in DepId : RequestRow(dep[e], dep'[e])
<1>t. dep \in [DepId -> Row]
  BY DEF TypeOK
<1>r. \A r : RequestRow(r, r)
  BY DEF RequestRow
<1>o. ASSUME NEW d \in DepId, \A e \in DepId \ {d} : dep'[e] = dep[e],
             RequestRow(dep[d], dep'[d]), executing' = executing
      PROVE  executing' = executing /\ \A e \in DepId : RequestRow(dep[e], dep'[e])
  BY <1>r, <1>o
<1> DEFINE Goal == executing' = executing /\ \A e \in DepId : RequestRow(dep[e], dep'[e])
<1>1. ASSUME NEW d \in DepId, NEW p \in Project, NEW r \in 0..MaxRequired,
             NEW o \in BOOLEAN, Create(d, p, r, o)
      PROVE  Goal
  <2>1. /\ dep' = [dep EXCEPT ![d] =
                     [NoRow EXCEPT !.status = "queued", !.project = p,
                                   !.environment = r, !.required = r,
                                   !.approval = FirstApproval(r),
                                   !.step = [n \in Step |-> "pending"]]]
        /\ executing' = executing /\ dep[d].status = "none"
    BY <1>1 DEF Create, IsFresh
  <2>2. dep'[d].status = "queued" /\ dep'[d].step = [n \in Step |-> "pending"]
    BY <1>t, <2>1 DEF NoRow
  <2>3. \A e \in DepId \ {d} : dep'[e] = dep[e]
    BY <1>t, <2>1
  <2>4. RequestRow(dep[d], dep'[d])
    BY <2>1, <2>2 DEF RequestRow, Untouched
  <2> QED BY <1>o, <2>1, <2>3, <2>4
<1>2. ASSUME NEW d \in DepId, NEW v \in Priority, NEW c \in BOOLEAN, ApplyOptions(d, v, c)
      PROVE  Goal
  <2>1. ASSUME NEW e \in DepId PROVE RequestRow(dep[e], dep'[e])
    <3>1. dep[e] \in Row
      BY <1>t
    <3>2. \/ dep'[e] = dep[e]
          \/ dep'[e] = [dep[e] EXCEPT !.priority = v]
          \/ /\ dep[e].status = "queued"
             /\ dep'[e] = [dep[e] EXCEPT !.status = "cancelled", !.summary = "superseded"]
      BY <1>2 DEF ApplyOptions, Superseded
    <3> QED BY <3>1, <3>2 DEF Row, RequestRow
  <2> QED BY <1>2, <2>1 DEF ApplyOptions, Superseded
<1>3. ASSUME NEW d \in DepId, LoseOptions(d) PROVE Goal
  BY <1>3, <1>r DEF LoseOptions
<1>4. ASSUME NEW d \in DepId, NEW s \in DepId, Rollback(d, s) PROVE Goal
  <2> DEFINE steps == [n \in Step |-> IF n \in BuildStep \/ dep[s].step[n] = "absent"
                                      THEN "absent" ELSE "pending"]
  <2>1. /\ dep' = [dep EXCEPT ![d] =
                     [NoRow EXCEPT !.status = "queued", !.project = dep[s].project,
                                   !.environment = dep[s].environment,
                                   !.source = s, !.step = steps]]
        /\ executing' = executing /\ dep[d].status = "none"
    BY <1>4 DEF Rollback, IsFresh
  <2>2. Untouched(steps)
    BY DEF Untouched
  <2> HIDE DEF steps
  <2>3. dep'[d].status = "queued" /\ dep'[d].step = steps
    BY <1>t, <2>1 DEF NoRow
  <2>4. \A e \in DepId \ {d} : dep'[e] = dep[e]
    BY <1>t, <2>1
  <2>5. RequestRow(dep[d], dep'[d])
    BY <2>1, <2>2, <2>3 DEF RequestRow
  <2> QED BY <1>o, <2>1, <2>4, <2>5
<1>5. ASSUME NEW d \in DepId, NEW u \in User, Approve(d, u) PROVE Goal
  <2> DEFINE a == IF Cardinality(Approvers(d) \cup {u}) >= dep[d].required
                  THEN "approved" ELSE "pending"
  <2>1. /\ dep'[d] = [dep[d] EXCEPT !.reviews[u] = "approved", !.approval = a]
        /\ dep[d] \in Row /\ \A e \in DepId \ {d} : dep'[e] = dep[e]
        /\ executing' = executing
    BY <1>5, <1>t DEF Approve
  <2> HIDE DEF a
  <2>2. RequestRow(dep[d], dep'[d])
    BY <2>1 DEF RequestRow, Row
  <2> QED BY <1>o, <2>1, <2>2
<1>6. ASSUME NEW d \in DepId, NEW u \in User, Reject(d, u) PROVE Goal
  <2>1. /\ dep'[d] = [dep[d] EXCEPT !.reviews[u] = "rejected", !.approval = "rejected",
                                    !.status = "cancelled", !.summary = "rejected"]
        /\ dep[d] \in Row /\ \A e \in DepId \ {d} : dep'[e] = dep[e]
        /\ executing' = executing /\ dep[d].status = "queued"
    BY <1>6, <1>t DEF Reject, AwaitsReview
  <2>2. RequestRow(dep[d], dep'[d])
    BY <2>1 DEF RequestRow, Row
  <2> QED BY <1>o, <2>1, <2>2
<1>7. ASSUME NEW d \in DepId, Cancel(d) PROVE Goal
  <2> DEFINE s == AfterCancel(dep[d].status)
  <2>1. /\ s \in Status /\ executing' = executing /\ dep' = [dep EXCEPT ![d].status = s]
        /\ \/ dep[d].status = "queued" /\ s = "cancelled"
           \/ dep[d].status \in Active /\ s = "cancelling"
    BY <1>7 DEF Cancel, AfterCancel, Status, Active, Terminal
  <2> HIDE DEF s
  <2>2. /\ dep'[d].status = s /\ dep'[d].step = dep[d].step
        /\ \A f \in DepId \ {d} : dep'[f] = dep[f]
    BY <2>1, StatusMoved
  <2>3. RequestRow(dep[d], dep'[d])
    BY <2>1, <2>2 DEF RequestRow
  <2> QED BY <1>o, <2>1, <2>2, <2>3
<1>8. ASSUME NEW d \in DepId, Delete(d) PROVE Goal
  <2>1. /\ dep' = [dep EXCEPT ![d] = [NoRow EXCEPT !.status = "deleted"]]
        /\ executing' = executing /\ dep[d].status \in Terminal
    BY <1>8 DEF Delete
  <2>2. dep'[d].status = "deleted" /\ dep'[d].step = [n \in Step |-> "absent"]
    BY <1>t, <2>1 DEF NoRow
  <2>3. \A e \in DepId \ {d} : dep'[e] = dep[e]
    BY <1>t, <2>1
  <2>4. RequestRow(dep[d], dep'[d])
    BY <2>1, <2>2 DEF RequestRow, Untouched
  <2> QED BY <1>o, <2>1, <2>3, <2>4
<1> HIDE DEF Goal
<1> QED BY <1>1, <1>2, <1>3, <1>4, <1>5, <1>6, <1>7, <1>8 DEF Request, Goal

LEMMA RequestKeeps ==
    ASSUME RunInv, SafeInv', Request, UNCHANGED runnerVars
    PROVE  RunInv'
<1>0. /\ TypeOK /\ \A e \in DepId : InOrder(dep[e])
      /\ executing \in [Worker -> DepId \cup {NoDep}]
      /\ job' = job /\ proc' = proc /\ stopping' = stopping
  BY OrderByRow DEF RunInv, RunnerTypeOK, TypeOK, runnerVars
<1>1. executing' = executing /\ \A e \in DepId : RequestRow(dep[e], dep'[e])
  BY <1>0, RequestRows
<1>2. RunnerTypeOK'
  BY <1>0 DEF RunInv, SafeInv, RunnerTypeOK
<1>3. ASSUME NEW w \in Worker PROVE Attached(w)'
  <2>1. Attached(w) /\ executing[w] \in DepId \cup {NoDep}
    BY <1>0 DEF RunInv
  <2>2. executing[w] # NoDep => dep'[executing[w]].step = dep[executing[w]].step
    BY <1>1, <2>1, Working DEF RequestRow, Active, Terminal
  <2> QED BY <1>0, <1>1, <2>1, <2>2 DEF Attached
<1>4. UntouchedBefore'
  BY <1>1 DEF RunInv, UntouchedBefore, RequestRow
<1>5. StepsInOrder'
  <2>1. ASSUME NEW e \in DepId PROVE InOrder(dep'[e])
    <3>1. RequestRow(dep[e], dep'[e]) /\ InOrder(dep[e])
      BY <1>0, <1>1
    <3>2. CASE Untouched(dep'[e].step) /\ dep'[e].status # "succeeded"
      BY <3>2, UntouchedInOrder
    <3>3. CASE /\ dep'[e].step = dep[e].step
               /\ dep'[e].status = "succeeded" => dep[e].status = "succeeded"
      BY <3>1, <3>3 DEF InOrder
    <3> QED BY <3>1, <3>2, <3>3 DEF RequestRow
  <2> QED BY <2>1, OrderByRowNext
<1>6. OnlyFailuresLeaveProcess'
  BY <1>0, <1>1 DEF RunInv, OnlyFailuresLeaveProcess, RequestRow, Active, Terminal
<1> QED BY <1>2, <1>3, <1>4, <1>5, <1>6 DEF RunInv

\* Contexts that end, output that cannot be copied: nobody moves.
LEMMA InPlace ==
    ASSUME RunInv, SafeInv', UNCHANGED <<vars, proc>>, stopping' \in BOOLEAN,
           job' \in [Worker -> Job],
           \A w \in Worker : /\ job'[w].pc = job[w].pc /\ job'[w].at = job[w].at
                             /\ job'[w].result = job[w].result
    PROVE  RunInv'
<1>1. dep' = dep /\ executing' = executing /\ proc' = proc
  BY DEF vars
<1>2. RunnerTypeOK'
  BY <1>1 DEF RunInv, SafeInv, RunnerTypeOK
<1>3. \A w \in Worker : Attached(w)'
  BY <1>1 DEF RunInv, Attached, Placed
<1>4. UntouchedBefore' /\ StepsInOrder' /\ OnlyFailuresLeaveProcess'
  BY <1>1 DEF RunInv, UntouchedBefore, StepsInOrder, OnlyFailuresLeaveProcess
<1> QED BY <1>2, <1>3, <1>4 DEF RunInv

LEMMA ContextsKeep ==
    ASSUME RunInv, SafeInv',
           \/ \E w \in Worker : CancelContext(w) \/ DeploymentTimeout(w) \/ CopyFails(w)
           \/ Stop
    PROVE  RunInv'
<1>1. job \in [Worker -> Job] /\ stopping \in BOOLEAN
  BY DEF RunInv, RunnerTypeOK
<1>2. ASSUME NEW j \in Job, NEW c \in {"cancelled", "deadline"}
      PROVE  /\ [j EXCEPT !.ctx = c] \in Job /\ [j EXCEPT !.ctx = c].pc = j.pc
             /\ [j EXCEPT !.ctx = c].at = j.at /\ [j EXCEPT !.ctx = c].result = j.result
  BY DEF Job
<1>3. ASSUME NEW w \in Worker, CancelContext(w) \/ DeploymentTimeout(w) PROVE RunInv'
  <2>1. PICK c \in {"cancelled", "deadline"} : job' = [job EXCEPT ![w].ctx = c]
    BY <1>3 DEF CancelContext, DeploymentTimeout
  <2>2. UNCHANGED <<vars, proc, stopping>>
    BY <1>3 DEF CancelContext, DeploymentTimeout
  <2>3. job' = [job EXCEPT ![w] = [job[w] EXCEPT !.ctx = c]]
    BY <1>1, <2>1
  <2> DEFINE j == [job[w] EXCEPT !.ctx = c]
  <2>4. j \in Job /\ j.pc = job[w].pc /\ j.at = job[w].at /\ j.result = job[w].result
    BY <1>1, <1>2
  <2> HIDE DEF j
  <2>5. job' = [job EXCEPT ![w] = j]
    BY <2>3 DEF j
  <2> QED BY <1>1, <2>2, <2>4, <2>5, InPlace
<1>4. ASSUME NEW w \in Worker, CopyFails(w) PROVE RunInv'
  <2> DEFINE j == [job[w] EXCEPT !.copyErr = TRUE]
  <2>1. UNCHANGED <<vars, proc, stopping>> /\ job' = [job EXCEPT ![w] = j]
    BY <1>1, <1>4 DEF CopyFails
  <2>2. j \in Job /\ j.pc = job[w].pc /\ j.at = job[w].at /\ j.result = job[w].result
    BY <1>1 DEF Job
  <2> HIDE DEF j
  <2> QED BY <1>1, <2>1, <2>2, InPlace
<1>5. CASE Stop
  <2>1. /\ UNCHANGED <<vars, proc>> /\ stopping' \in BOOLEAN
        /\ job' = [w \in Worker |-> IF At(w, "idle") \/ job[w].ctx # "live" THEN job[w]
                                    ELSE [job[w] EXCEPT !.ctx = "cancelled"]]
    BY <1>5 DEF Stop
  <2>2. ASSUME NEW w \in Worker
        PROVE  /\ job'[w] \in Job /\ job'[w].pc = job[w].pc /\ job'[w].at = job[w].at
               /\ job'[w].result = job[w].result
    <3>1. job[w] \in Job
      BY <1>1
    <3>2. job'[w] = job[w] \/ job'[w] = [job[w] EXCEPT !.ctx = "cancelled"]
      BY <2>1
    <3> QED BY <3>1, <3>2 DEF Job
  <2>3. job' \in [Worker -> Job]
    <3>1. job' = [w \in Worker |-> job'[w]]
      BY <2>1
    <3> QED BY <2>2, <3>1
  <2> QED BY <2>1, <2>2, <2>3, InPlace
<1> QED BY <1>3, <1>4, <1>5

\* Processes that end by themselves.
LEMMA ExitsKeep ==
    ASSUME RunInv, SafeInv', NEW d \in DepId,
           ChildExits(d) \/ \E c \in {"zero", "nonzero"} : ShellExits(d, c)
    PROVE  RunInv'
<1>0. /\ dep' = dep /\ executing' = executing /\ job' = job /\ stopping' = stopping
      /\ proc \in [DepId -> [leader : Leader, child : BOOLEAN]]
      /\ executing \in [Worker -> DepId \cup {NoDep}]
  BY DEF ChildExits, ShellExits, vars, RunInv, RunnerTypeOK, TypeOK
<1>1. /\ proc' \in [DepId -> [leader : Leader, child : BOOLEAN]]
      /\ \A e \in DepId : proc'[e].leader = "alive" => proc[e].leader = "alive"
  <2>1. CASE ChildExits(d)
    <3> DEFINE q == [proc[d] EXCEPT !.child = FALSE]
    <3>1. proc' = [proc EXCEPT ![d] = q]
      BY <1>0, <2>1 DEF ChildExits
    <3>2. q \in [leader : Leader, child : BOOLEAN] /\ q.leader = proc[d].leader
      <4>1. FALSE \in BOOLEAN /\ proc[d] \in [leader : Leader, child : BOOLEAN]
        BY <1>0
      <4> QED BY <4>1
    <3> HIDE DEF q
    <3> QED BY <1>0, <3>1, <3>2
  <2>2. ASSUME NEW c \in {"zero", "nonzero"}, ShellExits(d, c)
        PROVE  /\ proc' \in [DepId -> [leader : Leader, child : BOOLEAN]]
               /\ \A e \in DepId : proc'[e].leader = "alive" => proc[e].leader = "alive"
    <3> DEFINE q == [proc[d] EXCEPT !.leader = c]
    <3>1. proc' = [proc EXCEPT ![d] = q]
      BY <1>0, <2>2 DEF ShellExits
    <3>2. q \in [leader : Leader, child : BOOLEAN] /\ q.leader # "alive"
      <4>1. c \in Leader /\ proc[d] \in [leader : Leader, child : BOOLEAN]
        BY <1>0 DEF Leader
      <4> QED BY <4>1
    <3> HIDE DEF q
    <3> QED BY <1>0, <3>1, <3>2
  <2> QED BY <2>1, <2>2
<1>2. RunnerTypeOK'
  BY <1>0, <1>1 DEF RunInv, SafeInv, RunnerTypeOK
<1>3. \A w \in Worker : Attached(w)'
  BY <1>0, <1>1 DEF RunInv, Attached, Placed
<1>4. UntouchedBefore' /\ StepsInOrder'
  BY <1>0 DEF RunInv, UntouchedBefore, StepsInOrder
<1>5. OnlyFailuresLeaveProcess'
  BY <1>0, <1>1 DEF RunInv, OnlyFailuresLeaveProcess
<1> QED BY <1>2, <1>3, <1>4, <1>5 DEF RunInv

\* The process groups survive the end of the server; their deployments fail.
LEMMA RebootKeeps ==
    ASSUME RunInv, SafeInv', Reboot
    PROVE  RunInv'
<1>0. /\ dep \in [DepId -> Row] /\ \A e \in DepId : InOrder(dep[e])
      /\ executing' = [w \in Worker |-> NoDep] /\ job' = [w \in Worker |-> Idle]
      /\ stopping' = FALSE /\ proc' = proc
  BY OrderByRow
     DEF Reboot, Restart, RestartWithoutRecovery, RunInv, RunnerTypeOK, TypeOK
<1>1. ASSUME NEW e \in DepId
      PROVE  /\ dep'[e].step = dep[e].step
             /\ \/ dep'[e].status = dep[e].status
                \/ dep[e].status \in Active /\ dep'[e].status = "failed"
  <2>1. dep[e] \in Row
    BY <1>0
  <2>2. \/ dep'[e] = dep[e]
        \/ /\ dep[e].status \in Active
           /\ dep'[e] = [dep[e] EXCEPT !.status = "failed", !.summary = "restarted"]
    BY DEF Reboot, Restart, Recover, RestartWithoutRecovery
  <2> QED BY <2>1, <2>2 DEF Row
<1>2. RunnerTypeOK'
  BY <1>0, IdleTyped DEF RunInv, SafeInv, RunnerTypeOK
<1>3. \A w \in Worker : Attached(w)'
  BY <1>0, IdleTyped DEF Attached
<1>4. UntouchedBefore'
  BY <1>1 DEF RunInv, UntouchedBefore
<1>5. StepsInOrder'
  <2>1. \A e \in DepId : InOrder(dep'[e])
    BY <1>0, <1>1 DEF InOrder
  <2> QED BY <2>1, OrderByRowNext
<1>6. OnlyFailuresLeaveProcess'
  BY <1>0, <1>1 DEF RunInv, OnlyFailuresLeaveProcess, Active
<1> QED BY <1>2, <1>3, <1>4, <1>5, <1>6 DEF RunInv

-----------------------------------------------------------------------------
LEMMA RunInductive == RunInv /\ [RunnerNext]_allVars => RunInv'
<1> SUFFICES ASSUME RunInv, [RunnerNext]_allVars PROVE RunInv'
  OBVIOUS
<1>1. SafeInv'
  BY SafetyKept
<1>2. ASSUME NEW w \in Worker, Advance(w) PROVE RunInv'
  BY <1>1, <1>2, PreparingKeeps, SavingKeeps, LoopKeeps, StepKeeps, FinishKeeps, ContextsKeep
     DEF Advance
<1>3. CASE Environment
  BY <1>1, <1>3, RequestKeeps, ContextsKeep, ExitsKeep DEF Environment
<1>4. CASE UNCHANGED allVars
  <2>1. UNCHANGED <<vars, proc>> /\ stopping' = stopping /\ job' = job
    BY <1>4 DEF allVars, runnerVars
  <2>2. job \in [Worker -> Job] /\ stopping \in BOOLEAN
    BY DEF RunInv, RunnerTypeOK
  <2> QED BY <1>1, <2>1, <2>2, InPlace
<1> QED BY <1>1, <1>2, <1>3, <1>4, ClaimKeeps, ContextsKeep, RebootKeeps DEF RunnerNext

LEMMA RunInitially == RunnerInit => RunInv
<1> SUFFICES ASSUME RunnerInit PROVE RunInv
  OBVIOUS
<1>1. Init /\ TypeOK
  BY NoRowType, BoundsAssumption DEF RunnerInit, Init, TypeOK, NoDep
<1>2. /\ NoRow.status = "none" /\ NoRow.project = NoProject
      /\ NoRow.step = [n \in Step |-> "absent"]
  BY DEF NoRow
<1>3. /\ \A d \in DepId : dep[d].status = "none" /\ Untouched(dep[d].step)
      /\ \A w \in Worker : executing[w] = NoDep
      /\ \A p \in Project : lock[p] = NoDep
  BY <1>1, <1>2 DEF Init, Untouched
<1>4. SafeInv
  <2>1. \A d \in DepId : dep[d].project = NoProject
    BY <1>1, <1>2 DEF Init
  <2> QED BY <1>1, <1>3, <2>1, ConstantAssumption
          DEF SafeInv, ProjectKnown, LocksMatchRows, ExecutionIsExclusive, Exists, Active
<1>5. RunnerTypeOK
  <2>1. NoProcess \in [leader : Leader, child : BOOLEAN]
    BY DEF NoProcess, Leader
  <2> QED BY <1>1, <2>1, IdleTyped DEF RunnerInit, RunnerTypeOK
<1>6. \A w \in Worker : Attached(w)
  BY <1>3, IdleTyped DEF RunnerInit, Attached
<1>7. StepsInOrder
  BY <1>3, UntouchedInOrder, OrderByRow
<1>8. OnlyFailuresLeaveProcess
  BY DEF RunnerInit, OnlyFailuresLeaveProcess, NoProcess
<1> QED BY <1>3, <1>4, <1>5, <1>6, <1>7, <1>8 DEF RunInv, UntouchedBefore

LEMMA RunAlways == RunnerSpec => []RunInv
BY RunInitially, RunInductive, PTL DEF RunnerSpec

\* Jobs, process groups and tables keep their types.
THEOREM RunnerTyped == RunnerSpec => []RunnerTypeOK
<1>1. RunInv => RunnerTypeOK
  BY DEF RunInv
<1> QED BY <1>1, RunAlways, PTL

\* The runner implements the service: whatever it does between Claim and Finish, and
\* however it is interrupted, to the tables it is a worker of Deployments; so what is
\* proved of Spec holds of the runner.
THEOREM RunnerRefines == RunnerSpec => ImplementsService
<1>1. RunnerInit => Init
  BY DEF RunnerInit
<1> QED BY <1>1, StepServes, RunAlways, PTL DEF RunnerSpec, ImplementsService, Spec

\* Steps run in their order, each after the success of those before it, and only a
\* deployment all of whose steps succeeded is a success.
THEOREM OrderHolds == RunnerSpec => []StepsInOrder
<1>1. RunInv => StepsInOrder
  BY DEF RunInv
<1> QED BY <1>1, RunAlways, PTL

\* A shell that outlives its deployment does so under one that failed: no success, no
\* cancellation and no timeout is recorded over a living process.
THEOREM ProcessesAccounted == RunnerSpec => []OnlyFailuresLeaveProcess
<1>1. RunInv => OnlyFailuresLeaveProcess
  BY DEF RunInv
<1> QED BY <1>1, RunAlways, PTL

\* What Deployments promises carries over: one deployment in progress per project.
COROLLARY RunnerExcludes == RunnerSpec => []OneActivePerProject
BY RunnerRefines, MutualExclusion, PTL DEF ImplementsService

\* Two refinements in a row: the runner, its processes, timeouts, graceful stops and
\* restarts included, is an implementation of the abstract deployment queue.
COROLLARY RunnerIsQueue == RunnerSpec => ImplementsQueue
BY RunnerRefines, QueueRefinement, PTL DEF ImplementsService

\* The runner executes nothing but what as many reviewers approved as its environment
\* requires, and rollbacks, whose source is of that environment and passed the gate or
\* is a rollback itself (nobody approves them: Rollback); and no running worker leaves
\* a deployment in progress behind, unless a statement failed with nobody to repeat it.
COROLLARY RunnerKeepsGate == RunnerSpec => [](ApprovalGate /\ NoOrphan)
BY RunnerRefines, ApprovalGateHolds, NobodyIsOrphaned, PTL DEF ImplementsService

\* What is left of the exclusion of a project's processes, since a group outlives both
\* its deployment's failure and the server: of two living shells of one project, one
\* belongs to a deployment that was reported as failed.  It is not true that there is
\* only one, because the lock is released under the stray.
StraysAreFailures ==
    \A d, e \in DepId :
        /\ d # e
        /\ dep[d].project = dep[e].project /\ dep[d].project \in Project
        /\ proc[d].leader = "alive" /\ proc[e].leader = "alive"
        => dep[d].status = "failed" \/ dep[e].status = "failed"

DeletedHaveNoProject ==
    \A d \in DepId : dep[d].status = "deleted" => dep[d].project \notin Project

\* The shells of one project never work side by side for two deployments that count.
THEOREM StraysHaveFailed == RunnerSpec => []StraysAreFailures
<1>1. OnlyFailuresLeaveProcess /\ OneActivePerProject /\ DeletedHaveNoProject
        => StraysAreFailures
  BY DEF OnlyFailuresLeaveProcess, OneActivePerProject, DeletedHaveNoProject,
         StraysAreFailures
<1>2. RunInv => DeletedHaveNoProject
  BY ConstantAssumption DEF RunInv, SafeInv, ProjectKnown, Exists, DeletedHaveNoProject
<1> QED BY <1>1, <1>2, RunAlways, ProcessesAccounted, RunnerExcludes, PTL
=============================================================================
