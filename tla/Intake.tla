-------------------------------- MODULE Intake --------------------------------
(***************************************************************************)
(* How deployments come into being without anybody asking: a push that a   *)
(* provider reports, whose webhook_deliveries row is the promise that it   *)
(* will be deployed, and a schedule that is due.  A webhook is processed   *)
(* in a goroutine after its answer, and again after a restart as long as   *)
(* its row names no deployment; a schedule moves on before it creates one. *)
(* So one is done at least once and the other at most once.                *)
(***************************************************************************)
EXTENDS Integers

CONSTANTS
    Delivery,     \* delivery ids of the providers
    Schedule,
    MaxSlots,     \* bound: how often a schedule becomes due
    MaxEnds       \* bound: ends of the process

ASSUME IntakeAssumption == MaxSlots \in Nat /\ MaxEnds \in Nat

VARIABLES
    hook,         \* hook[i]: the row of delivery i
    task,         \* task[i]: the goroutine startWebhook started for it
    made,         \* made[i]: the deployments created for delivery i (history)
    lost,         \* deliveries this process dropped with an ignored error (history)
    timer,        \* timer[s]: the row of schedule s
    tick,         \* what the scheduler's goroutine is doing
    slots, runs,  \* the times s became due, the deployments created (history)
    process,
    ends          \* ends of the process so far

hookVars  == <<hook, task, made, lost>>
timerVars == <<timer, tick, slots, runs>>
vars == <<hookVars, timerVars, process, ends>>

NoSchedule == {}
Rest == [of |-> NoSchedule, at |-> "rest"]

IntakeTypeOK ==
    /\ hook \in [Delivery -> [state  : {"unseen", "rejected", "accepted"},
                              linked : BOOLEAN]]      \* deployment_id IS NOT NULL
    /\ task \in [Delivery -> {"none", "resolve", "created"}]
    /\ made \in [Delivery -> Nat]
    /\ lost \subseteq Delivery
    /\ timer \in [Schedule -> [enabled : BOOLEAN, due : BOOLEAN]]
    /\ tick \in [of : SUBSET Schedule,
                 at : {"rest", "create", "options"}]
    /\ slots \in [Schedule -> 0..MaxSlots]
    /\ runs \in [Schedule -> Nat]
    /\ process \in {"up", "closing", "down"}
    /\ ends \in 0..MaxEnds

Init ==
    /\ hook = [i \in Delivery |-> [state |-> "unseen", linked |-> FALSE]]
    /\ task = [i \in Delivery |-> "none"]
    /\ made = [i \in Delivery |-> 0]
    /\ lost = {}
    /\ timer = [s \in Schedule |-> [enabled |-> TRUE, due |-> FALSE]]
    /\ tick = Rest
    /\ slots = [s \in Schedule |-> 0]
    /\ runs = [s \in Schedule |-> 0]
    /\ process = "up"
    /\ ends = 0

-----------------------------------------------------------------------------
(* Webhooks *)

IsDuplicateMutant(i) == FALSE      \* the table does without UNIQUE(provider, delivery_id)

IsDuplicate(i) == hook[i].state # "unseen"

\* The handler: the row is inserted before the answer, accepted when branch,
\* repository and commit fit; the goroutine starts.  A duplicate changes nothing.
Receive(i, fits) ==
    /\ process # "down"
    /\ ~IsDuplicate(i)
    /\ hook' = [hook EXCEPT ![i].state = IF fits THEN "accepted" ELSE "rejected"]
    /\ task' = IF fits THEN [task EXCEPT ![i] = "resolve"] ELSE task
    /\ UNCHANGED <<made, lost, timerVars, process, ends>>

\* CreateAtCommit's transaction commits, which it does under a live context only.
CreateAtCommit(i) ==
    /\ task[i] = "resolve" /\ process = "up"
    /\ made' = [made EXCEPT ![i] = @ + 1]
    /\ task' = [task EXCEPT ![i] = "created"]
    /\ UNCHANGED <<hook, lost, timerVars, process, ends>>

\* CreateAtCommit fails: git, the configuration, a frozen environment; or a stop, when
\* the step of git it interrupted does not say so; or the read that follows its commit,
\* with the deployment in place.  The rejection is final.
RejectDelivery(i) ==
    /\ task[i] # "none"
    /\ hook' = [hook EXCEPT ![i].state = "rejected"]
    /\ task' = [task EXCEPT ![i] = "none"]
    /\ UNCHANGED <<made, lost, timerVars, process, ends>>

\* errors.Is(err, context.Canceled): left for the next start.  The stop may come as
\* late as the read that ends CreateAtCommit, with the deployment in place.
Interrupted(i) ==
    /\ task[i] # "none" /\ process = "closing"
    /\ task' = [task EXCEPT ![i] = "none"]
    /\ UNCHANGED <<hook, made, lost, timerVars, process, ends>>

LinkDelivery(i) ==
    /\ task[i] = "created"
    /\ hook' = [hook EXCEPT ![i].linked = TRUE]
    /\ task' = [task EXCEPT ![i] = "none"]
    /\ UNCHANGED <<made, lost, timerVars, process, ends>>

\* The UPDATE that would link or reject fails, and its error is ignored: nobody takes
\* the delivery up before the next start.
ResultIsLost(i) ==
    /\ task[i] # "none"
    /\ lost' = lost \cup {i}
    /\ task' = [task EXCEPT ![i] = "none"]
    /\ UNCHANGED <<hook, made, timerVars, process, ends>>

AfterPruningMutant == [state |-> "accepted", linked |-> FALSE]

AfterPruningTypeMutant == [state |-> "pruned", linked |-> FALSE]

AfterPruning == [state |-> "rejected", linked |-> FALSE]

\* Retention deletes the deployment, and says so in the row of its delivery.
PruneDelivery(i) ==
    /\ process # "down" /\ hook[i].linked
    /\ hook' = [hook EXCEPT ![i] = AfterPruning]
    /\ UNCHANGED <<task, made, lost, timerVars, process, ends>>

-----------------------------------------------------------------------------
(* Schedules: one goroutine, one due schedule per scan *)

ComesDue(s) ==
    /\ ~timer[s].due /\ slots[s] < MaxSlots
    /\ timer' = [timer EXCEPT ![s].due = TRUE]
    /\ slots' = [slots EXCEPT ![s] = @ + 1]
    /\ UNCHANGED <<hookVars, tick, runs, process, ends>>

\* updateSchedule pauses and resumes; a deleted schedule is one that stays paused.
Toggle(s) ==
    /\ process # "down"
    /\ timer' = [timer EXCEPT ![s].enabled = ~@]
    /\ UNCHANGED <<hookVars, tick, slots, runs, process, ends>>

AdvancedMutant(t) == t             \* next_run_at moves only with the second transaction

Advanced(t) == [t EXCEPT !.due = FALSE]

TakeDue(s) ==
    /\ process = "up" /\ tick = Rest
    /\ timer[s].enabled /\ timer[s].due
    /\ timer' = [timer EXCEPT ![s] = Advanced(@)]
    /\ tick' = [of |-> {s}, at |-> "create"]
    /\ UNCHANGED <<hookVars, slots, runs, process, ends>>

CreateScheduled ==
    /\ tick.at = "create" /\ process = "up"
    /\ runs' = [s \in Schedule |-> IF s \in tick.of THEN runs[s] + 1 ELSE runs[s]]
    /\ tick' = [tick EXCEPT !.at = "options"]
    /\ UNCHANGED <<hookVars, timer, slots, process, ends>>

\* The second transaction is over (module Deployments), or something failed before:
\* last_error is written and the slot is gone.
EndTick ==
    /\ tick.at \in {"create", "options"}
    /\ tick' = Rest
    /\ UNCHANGED <<hookVars, timer, slots, runs, process, ends>>

-----------------------------------------------------------------------------
(* The process *)

\* Server.Close: the context of the goroutines is over, and they are waited for.
Close ==
    /\ process = "up" /\ ends < MaxEnds
    /\ process' = "closing"
    /\ ends' = ends + 1
    /\ UNCHANGED <<hookVars, timerVars>>

Exit ==
    /\ process = "closing"
    /\ tick = Rest /\ \A i \in Delivery : task[i] = "none"
    /\ process' = "down"
    /\ UNCHANGED <<hookVars, timerVars, ends>>

Crash ==
    /\ process = "up" /\ ends < MaxEnds
    /\ process' = "down"
    /\ ends' = ends + 1
    /\ task' = [i \in Delivery |-> "none"]
    /\ tick' = Rest
    /\ UNCHANGED <<hook, made, lost, timer, slots, runs>>

PendingMutant(i) == FALSE          \* recoverWebhooks is not called

PendingLinkedMutant(i) ==          \* whether the row names a deployment is not asked
    hook[i].state = "accepted"

Pending(i) == hook[i].state = "accepted" /\ ~hook[i].linked

\* New: recoverWebhooks runs before the server listens.  It misses all of them when
\* its query fails, and the rows whose Scan fails.
Start(missed) ==
    /\ process = "down"
    /\ process' = "up"
    /\ task' = [i \in Delivery |-> IF Pending(i) /\ i \notin missed THEN "resolve"
                                                                   ELSE "none"]
    /\ lost' = missed
    /\ UNCHANGED <<hook, made, timerVars, ends>>

-----------------------------------------------------------------------------
Process(i) ==
    \/ CreateAtCommit(i) \/ RejectDelivery(i) \/ Interrupted(i) \/ LinkDelivery(i)

Scan == (\E s \in Schedule : TakeDue(s)) \/ CreateScheduled \/ EndTick

Next ==
    \/ \E i \in Delivery :
          \/ \E fits \in BOOLEAN : Receive(i, fits)
          \/ Process(i) \/ ResultIsLost(i)
          \/ PruneDelivery(i)
    \/ \E s \in Schedule : ComesDue(s) \/ Toggle(s)
    \/ Scan
    \/ Close \/ Exit \/ Crash
    \/ \E missed \in SUBSET {i \in Delivery : Pending(i)} : Start(missed)

Spec == Init /\ [][Next]_vars

\* Git commands end, by themselves or with the context; the scheduler scans every 15
\* seconds.  Nobody is assumed to start the server again, and no statement to fail.
Fairness ==
    /\ \A i \in Delivery : WF_vars(Process(i))
    /\ WF_vars(Scan)
    /\ WF_vars(Exit)

FairSpec == Spec /\ Fairness

-----------------------------------------------------------------------------
(* Properties *)

\* While the server runs, no accepted delivery is waiting without a goroutine that
\* takes care of it, unless this server ignored the error of a statement about it:
\* nothing else depends on the provider sending it again.
NoneForgotten ==
    process = "up" => \A i \in Delivery \ lost :
        hook[i].state = "accepted" /\ ~hook[i].linked => task[i] # "none"

\* A push is deployed once for its delivery, and once more at most for each time the
\* process ended; neither redelivery nor retention nor a start repeats it.
RepeatsAreInterruptions == \A i \in Delivery : made[i] <= 1 + ends

\* The promise of the webhooks (module AtLeastOnce): a delivery names its deployment
\* only after one was created, nothing is created for it afterwards, nor for one that
\* was refused.  A stop, a crash and the recovery change nothing of that.
PhaseOf(i) ==
    CASE hook[i].state = "unseen" -> "none"
      [] hook[i].state = "rejected" -> "withdrawn"
      [] hook[i].state = "accepted" -> IF hook[i].linked THEN "kept" ELSE "owed"

Promise == INSTANCE AtLeastOnce WITH
    Item   <- Delivery,
    Target <- {1},
    Need   <- [i \in Delivery |-> {1}],
    Busy   <- {"owed"},
    Limit  <- 1,           \* of no attempts: nothing is ever given up
    phase  <- [i \in Delivery |-> PhaseOf(i)],
    tries  <- [i \in Delivery |-> 0],
    renewals <- 0,
    done   <- [i \in Delivery |-> [t \in {1} |-> made[i]]]

ImplementsPromise == Promise!Spec

\* A slot of a schedule creates one deployment at most, through crashes, pauses and
\* late scans.
SlotsRunOnce ==
    \A s \in Schedule : runs[s] + (IF timer[s].due THEN 1 ELSE 0) <= slots[s]

\* What was accepted is deployed or rejected in the end, by this server or by the
\* next one, unless there is no server or it ignored the error of a statement about it.
AcceptedSettles ==
    \A i \in Delivery :
        hook[i].state = "accepted" /\ ~hook[i].linked
            ~> \/ hook[i].linked \/ hook[i].state = "rejected"
               \/ process = "down" \/ i \in lost
=============================================================================
