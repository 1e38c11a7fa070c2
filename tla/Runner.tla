-------------------------------- MODULE Runner --------------------------------
(***************************************************************************)
(* The local runner: what a worker does between Claim and Finish, the      *)
(* shell process of the step it is at, the context of the deployment, the  *)
(* graceful stop of the server and its death at any point.  Its database   *)
(* statements are the actions of Deployments; what they leave open there   *)
(* (when a step starts, which outcome is reported) is decided here.        *)
(***************************************************************************)
EXTENDS Deployments

CONSTANT SavesArtifacts      \* the pipelines keep versioned artifacts

ASSUME ArtifactAssumption == SavesArtifacts \in BOOLEAN

VARIABLES
    job,        \* job[w]: how far worker w is in run() and runStep()
    proc,       \* proc[d]: the process group of the step of d started last
    stopping    \* Stop was called: the context of the manager is over

runnerVars == <<job, proc, stopping>>
allVars == <<vars, runnerVars>>

\* The shell that leads the group holds the output pipe, and cmd.Wait waits for it;
\* "child" is the part of the group that gave its output away and outlives it.
Leader == {"none", "alive", "zero", "nonzero"}

Idle == [pc |-> "idle", at |-> 0, ctx |-> "live", why |-> "none",
         result |-> "succeeded", saved |-> FALSE, copyErr |-> FALSE]

Job == [pc      : {"idle", "prepare", "ready", "steps", "prune", "begin", "launch",
                   "select", "stop", "done", "health", "report"},
        at      : Step \cup {0},
        ctx     : {"live", "cancelled", "deadline"},     \* ctx.Err()
        why     : {"none", "log", "ticker", "cancelled", "deadline"},
        result  : Outcome,
        saved   : BOOLEAN,
        copyErr : BOOLEAN]                               \* what copyDone carries

RunnerTypeOK ==
    /\ TypeOK
    /\ job \in [Worker -> Job]
    /\ proc \in [DepId -> [leader : Leader, child : BOOLEAN]]
    /\ stopping \in BOOLEAN

NoProcess == [leader |-> "none", child |-> FALSE]

RunnerInit ==
    /\ Init
    /\ job = [w \in Worker |-> Idle]
    /\ proc = [d \in DepId |-> NoProcess]
    /\ stopping = FALSE

-----------------------------------------------------------------------------
At(w, place) == job[w].pc = place

Go(w, place) == job' = [job EXCEPT ![w].pc = place]

Report(w, outcome) ==
    job' = [job EXCEPT ![w] = [@ EXCEPT !.pc = "report", !.result = outcome]]

OutcomesMutant(cause) ==         \* the cause itself is reported
    IF cause = "live" THEN {} ELSE {cause}

Outcomes(cause) ==               \* what execute() calls an error of this cause
    CASE cause = "cancelled" -> {"cancelled"}
      [] cause = "deadline"  -> {"timed_out"}
      [] OTHER -> {}

CancelSeen(d) == dep[d].status \in {"cancelling", "cancelled"}

Left(w) == {n \in Step : n > job[w].at /\ dep[executing[w]].step[n] # "absent"}

IsNext(w, n) == n \in Left(w) /\ \A m \in Left(w) : n <= m

\* Artifacts are kept before the first deploy step, or at the end when there is none.
SaveIsDue(w) ==
    /\ SavesArtifacts /\ ~job[w].saved
    /\ \A n \in Step : IsNext(w, n) => n \notin BuildStep

-----------------------------------------------------------------------------
(* run *)

ClaimJob(w, d) ==
    /\ ~stopping                         \* a transaction of a finished context fails
    /\ Claim(w, d)
    /\ job' = [job EXCEPT ![w] = [Idle EXCEPT !.pc = "prepare"]]
    /\ UNCHANGED <<proc, stopping>>

ClaimJobWithoutReading(w, d) ==
    /\ ~stopping
    /\ ClaimWithoutReading(w, d)
    /\ UNCHANGED runnerVars

\* Workspace, environment, log, checkout, cache; a rollback restores the artifacts
\* its source has at this moment.
Prepare(w) ==
    LET source == dep[executing[w]].source IN
    /\ At(w, "prepare")
    /\ source # NoDep => dep[source].status = "succeeded" /\ dep[source].artifact
    /\ Go(w, "ready")
    /\ UNCHANGED <<vars, proc, stopping>>

\* Any of this may fail by itself, and the checkout with the context's error.
PrepareFails(w) ==
    /\ At(w, "prepare")
    /\ \E o \in {"failed"} \cup Outcomes(job[w].ctx) : Report(w, o)
    /\ UNCHANGED <<vars, proc, stopping>>

SetRunningMutant(w) ==           \* WHERE status='preparing' is forgotten
    /\ At(w, "ready")
    /\ dep' = [dep EXCEPT ![executing[w]].status = "running"]
    /\ Go(w, "steps")
    /\ UNCHANGED <<lock, executing, optionsDue, faults, proc, stopping>>

SetRunning(w) ==
    /\ At(w, "ready")
    /\ \/ MarkRunning(w) /\ Go(w, "steps")
       \/ /\ dep[executing[w]].status # "preparing"
          /\ Report(w, "cancelled")
          /\ UNCHANGED vars
    /\ UNCHANGED <<proc, stopping>>

SaveArtifacts(w) ==
    /\ At(w, "steps") /\ SaveIsDue(w)
    /\ SaveArtifact(w)
    /\ job' = [job EXCEPT ![w] = [@ EXCEPT !.pc = "prune", !.saved = TRUE]]
    /\ UNCHANGED <<proc, stopping>>

\* run() returns the error of one of its own statements: the row's UPDATE, the read of
\* the steps, a save to the cache or of artifacts, the directory of the next step.
RunFails(w) ==
    /\ job[w].pc \in {"ready", "steps", "prune"}
    /\ Report(w, "failed")
    /\ UNCHANGED <<vars, proc, stopping>>

Prune(w) ==
    /\ At(w, "prune")
    /\ \/ \E e \in DepId : PruneArtifact(w, e) /\ UNCHANGED job
       \/ Go(w, "steps") /\ UNCHANGED vars
    /\ UNCHANGED <<proc, stopping>>

\* The loop over the steps reads the status before each of them.
EnterStep(w) ==
    /\ At(w, "steps") /\ ~SaveIsDue(w)
    /\ \E n \in Step :
          /\ IsNext(w, n)
          /\ IF CancelSeen(executing[w])
             THEN Report(w, "cancelled")
             ELSE job' = [job EXCEPT ![w] = [@ EXCEPT !.pc = "begin", !.at = n]]
    /\ UNCHANGED <<vars, proc, stopping>>

Conclude(w) ==
    /\ At(w, "steps") /\ ~SaveIsDue(w) /\ Left(w) = {}
    /\ IF job[w].ctx # "live"
       THEN \E o \in Outcomes(job[w].ctx) : Report(w, o)
       ELSE IF CancelSeen(executing[w]) THEN Report(w, "cancelled")
                                        ELSE Go(w, "health")
    /\ UNCHANGED <<vars, proc, stopping>>

\* The health check, when there is one, and the last line of the log.
Health(w) ==
    /\ At(w, "health")
    /\ \E o \in {"succeeded", "failed"} \cup Outcomes(job[w].ctx) : Report(w, o)
    /\ UNCHANGED <<vars, proc, stopping>>

FinishJob(w) ==
    /\ At(w, "report")
    /\ Finish(w, job[w].result) \/ FinishFails(w)
    /\ job' = [job EXCEPT ![w] = Idle]
    /\ UNCHANGED <<proc, stopping>>

-----------------------------------------------------------------------------
(* runStep *)

BeginStep(w) ==
    /\ At(w, "begin")
    /\ IF job[w].ctx # "live"
       THEN /\ \E o \in Outcomes(job[w].ctx) : Report(w, o)
            /\ UNCHANGED vars
       ELSE RecordStep(w, job[w].at, "running") /\ Go(w, "launch")
    /\ UNCHANGED <<proc, stopping>>

\* cmd.Start; nothing is read or awaited between the check and here.
Launch(w) ==
    /\ At(w, "launch")
    /\ \E c \in BOOLEAN :
          proc' = [proc EXCEPT ![executing[w]] = [leader |-> "alive", child |-> c]]
    /\ Go(w, "select")
    /\ UNCHANGED <<vars, stopping>>

\* The command's line cannot be logged or the shell not be started: runStep returns
\* and nobody writes the step row again.
LaunchFails(w) ==
    /\ At(w, "launch")
    /\ Report(w, "failed")
    /\ UNCHANGED <<vars, proc, stopping>>

\* scanCopy could not write a line of the output, or it was too long.
CopyFails(w) ==
    /\ job[w].pc \in {"select", "stop", "done"}
    /\ ~job[w].copyErr
    /\ job' = [job EXCEPT ![w].copyErr = TRUE]
    /\ UNCHANGED <<vars, proc, stopping>>

Exited(d) == proc[d].leader \in {"zero", "nonzero"}

ExitOutcome(d) == IF proc[d].leader = "zero" THEN "succeeded" ELSE "failed"

\* case err = <-wait, whatever copyDone holds by then.
WaitFires(w) ==
    /\ At(w, "select") /\ Exited(executing[w])
    /\ job' = [job EXCEPT ![w] = [@ EXCEPT !.pc = "done",
                                           !.result = ExitOutcome(executing[w])]]
    /\ UNCHANGED <<vars, proc, stopping>>

\* The other cases of the select, each on its way to stopAndWait: a failed copy, the
\* end of the deployment's context or of the step's, the 250 ms ticker.
StopStep(w) ==
    /\ At(w, "select")
    /\ \E why \in {"log", "ticker", "cancelled", "deadline"} :
          /\ CASE why = "log"    -> job[w].copyErr
               [] why = "ticker" -> CancelSeen(executing[w])
               [] why = "cancelled" -> job[w].ctx = "cancelled"
               [] why = "deadline"  -> TRUE      \* the step's timeout may have passed
          /\ job' = [job EXCEPT ![w] = [@ EXCEPT !.pc = "stop", !.why = why]]
    /\ UNCHANGED <<vars, proc, stopping>>

ConfirmedMutant(w) == TRUE       \* the signal is sent, and its effect not awaited

Confirmed(w) == Exited(executing[w])

\* wait fires within a grace period, the rest of the group alive or not.
Stopped(w) ==
    LET d == executing[w]
        outcome == CASE job[w].why = "log" -> "failed"
                     [] job[w].why = "ticker" \/ CancelSeen(d) -> "cancelled"
                     [] job[w].why = "deadline" -> "timed_out"
                     [] OTHER -> "cancelled"
    IN
    /\ At(w, "stop") /\ Confirmed(w)
    /\ job' = [job EXCEPT ![w] = [@ EXCEPT !.pc = "done", !.result = outcome]]
    /\ UNCHANGED <<vars, proc, stopping>>

GraceMayPassMutant(w) ==         \* the second wait has no limit
    Exited(executing[w]) /\ job[w].copyErr

GraceMayPass(w) == Exited(executing[w]) => job[w].copyErr

\* Both grace periods pass: the shell did not die, or it did and cmd.Wait is still
\* writing output that a failed copy reads no more.
StopUnconfirmed(w) ==
    /\ At(w, "stop")
    /\ GraceMayPass(w)
    /\ job' = [job EXCEPT ![w] = [@ EXCEPT !.pc = "done", !.result = "failed"]]
    /\ UNCHANGED <<vars, proc, stopping>>

AfterStepMutant(result) == "steps"        \* the loop goes on after a failed step

AfterStep(result) == IF result = "succeeded" THEN "steps" ELSE "report"

\* done: the copy's result is received and dropped, the step row written.
EndStep(w) ==
    /\ At(w, "done")
    /\ RecordStep(w, job[w].at, job[w].result)
    /\ job' = [job EXCEPT ![w] =
                  [@ EXCEPT !.pc = AfterStep(job[w].result),
                            !.why = "none", !.copyErr = FALSE]]
    /\ UNCHANGED <<proc, stopping>>

-----------------------------------------------------------------------------
(* Around the worker *)

\* CancelByID, called by the handler after its transaction, or the watcher's poll.
CancelContext(w) ==
    /\ ~At(w, "idle") /\ ~At(w, "report")
    /\ job[w].ctx = "live"
    /\ CancelSeen(executing[w])
    /\ job' = [job EXCEPT ![w].ctx = "cancelled"]
    /\ UNCHANGED <<vars, proc, stopping>>

DeploymentTimeout(w) ==
    /\ ~At(w, "idle") /\ ~At(w, "report")
    /\ job[w].ctx = "live"
    /\ job' = [job EXCEPT ![w].ctx = "deadline"]
    /\ UNCHANGED <<vars, proc, stopping>>

ShellExits(d, code) ==
    /\ proc[d].leader = "alive"
    /\ proc' = [proc EXCEPT ![d].leader = code]
    /\ UNCHANGED <<vars, job, stopping>>

ChildExits(d) ==
    /\ proc[d].child
    /\ proc' = [proc EXCEPT ![d].child = FALSE]
    /\ UNCHANGED <<vars, job, stopping>>

Stop ==
    /\ ~stopping
    /\ stopping' = TRUE
    /\ job' = [w \in Worker |-> IF At(w, "idle") \/ job[w].ctx # "live" THEN job[w]
                                ELSE [job[w] EXCEPT !.ctx = "cancelled"]]
    /\ UNCHANGED <<vars, proc>>

\* The server ends, after a graceful stop or without one, and starts again.  The
\* process groups of the steps are not its own, and survive it.
Reboot ==
    /\ Restart \/ RestartWithoutRecovery
    /\ job' = [w \in Worker |-> Idle]
    /\ stopping' = FALSE
    /\ UNCHANGED proc

-----------------------------------------------------------------------------
Advance(w) ==
    \/ Prepare(w) \/ PrepareFails(w) \/ SetRunning(w)
    \/ SaveArtifacts(w) \/ RunFails(w) \/ Prune(w)
    \/ EnterStep(w) \/ Conclude(w) \/ Health(w) \/ FinishJob(w)
    \/ BeginStep(w) \/ Launch(w) \/ LaunchFails(w) \/ CopyFails(w)
    \/ WaitFires(w) \/ StopStep(w) \/ Stopped(w) \/ StopUnconfirmed(w) \/ EndStep(w)

Environment ==
    \/ Request /\ UNCHANGED runnerVars
    \/ \E w \in Worker : CancelContext(w) \/ DeploymentTimeout(w)
    \/ \E d \in DepId : ChildExits(d) \/ \E c \in {"zero", "nonzero"} : ShellExits(d, c)

RunnerNext ==
    \/ \E w \in Worker :
          \/ \E d \in DepId : ClaimJob(w, d) \/ ClaimJobWithoutReading(w, d)
          \/ Advance(w)
    \/ Environment
    \/ Stop
    \/ Reboot

RunnerSpec == RunnerInit /\ [][RunnerNext]_allVars

\* A worker keeps going: its statements return, every process has a timeout and every
\* wait for one a grace period.  No process is assumed to exit, and no stop to come.
\* That excludes the one statement known to block for ever, a WriteStep on the mutex
\* that LogStream's Unsubscribe leaves locked (log_hang): RunsEnd holds of runs that do not
\* meet it.
RunnerFairness == \A w \in Worker : WF_allVars(Advance(w))

FairRunnerSpec == RunnerSpec /\ RunnerFairness

-----------------------------------------------------------------------------
(* Properties *)

\* The runner does to the tables only what Deployments lets a worker do, through
\* every interleaving with cancellations, timeouts, stops and crashes.
ImplementsService == Spec

\* A shell outlives its deployment only when that deployment is reported as failed:
\* no success, cancellation or timeout is recorded while its process still runs.
OnlyFailuresLeaveProcess ==
    \A d \in DepId : proc[d].leader = "alive" =>
        dep[d].status \in Active \cup {"failed", "deleted"}

\* Steps run one after the other, each after the success of those before it, and a
\* deployment succeeds only when all its steps did.
StepsInOrder ==
    \A d \in DepId :
        LET row == dep[d]
            present == {n \in Step : row.step[n] # "absent"}
        IN
        /\ \A m, n \in present :
              m < n /\ row.step[n] \notin {"pending", "skipped"}
                  => row.step[m] = "succeeded"
        /\ row.status = "succeeded" => \A n \in present : row.step[n] = "succeeded"

\* Every run ends: a deployment is not executed for ever, even when its process
\* ignores every signal and nobody cancels it.
RunsEnd ==
    \A w \in Worker, d \in DepId : executing[w] = d ~> executing[w] # d

\* docs/requirements.md:367: a deployment becomes cancelled only when its process
\* tree is known to be gone.
CancelledTreeIsGone ==
    \A d \in DepId : dep[d].status = "cancelled" =>
        proc[d].leader # "alive" /\ ~proc[d].child
=============================================================================
