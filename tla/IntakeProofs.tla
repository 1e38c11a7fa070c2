----------------------------- MODULE IntakeProofs -----------------------------
(***************************************************************************)
(* For every set of deliveries and schedules: no accepted delivery is ever *)
(* forgotten by a running server, and a push is deployed again only for an *)
(* end of the process.  The second needs to know how often a delivery was  *)
(* deployed while its row names no deployment yet.                         *)
(***************************************************************************)
EXTENDS Intake, TLAPS

\* What one delivery has had done for it: nothing before it was seen; no more deployments
\* than ends of the process while a goroutine, this process's or that of the next start,
\* has still to create one; and a goroutine only while the process runs.
Account(i) ==
    /\ made[i] <= 1 + ends
    /\ hook[i].state = "unseen" => made[i] = 0 /\ task[i] = "none" /\ ~hook[i].linked
    /\ Pending(i) /\ (task[i] = "resolve" \/ process # "up") => made[i] <= ends
    /\ task[i] # "none" => Pending(i) /\ process # "down"
    /\ task[i] = "created" => made[i] > 0
    /\ hook[i].linked => hook[i].state = "accepted"

Accounts == \A i \in Delivery : Account(i)

IntakeInv == IntakeTypeOK /\ NoneForgotten /\ Accounts

\* The rows, the goroutines and the counters keep their types.
THEOREM IntakeTyped == Spec => []IntakeTypeOK
<1>1. Init => IntakeTypeOK
  BY IntakeAssumption DEF Init, IntakeTypeOK, Rest, NoSchedule
<1>2. IntakeTypeOK /\ [Next]_vars => IntakeTypeOK'
  <2> SUFFICES ASSUME IntakeTypeOK, [Next]_vars PROVE IntakeTypeOK'
    OBVIOUS
  <2> USE IntakeAssumption DEF IntakeTypeOK
  <2>1. ASSUME NEW i \in Delivery, NEW fits \in BOOLEAN, Receive(i, fits)
        PROVE  IntakeTypeOK'
    BY <2>1 DEF Receive, timerVars
  <2>2. ASSUME NEW i \in Delivery, Process(i) PROVE IntakeTypeOK'
    <3>1. ASSUME CreateAtCommit(i) PROVE IntakeTypeOK'
      BY <3>1 DEF CreateAtCommit, timerVars
    <3>2. ASSUME RejectDelivery(i) PROVE IntakeTypeOK'
      BY <3>2 DEF RejectDelivery, timerVars
    <3>3. ASSUME Interrupted(i) PROVE IntakeTypeOK'
      BY <3>3 DEF Interrupted, timerVars
    <3>4. ASSUME LinkDelivery(i) PROVE IntakeTypeOK'
      <4>1. hook[i] \in [state : {"unseen", "rejected", "accepted"}, linked : BOOLEAN]
        OBVIOUS
      <4>2. [hook[i] EXCEPT !.linked = TRUE]
               \in [state : {"unseen", "rejected", "accepted"}, linked : BOOLEAN]
        BY <4>1
      <4>3. hook' \in [Delivery -> [state  : {"unseen", "rejected", "accepted"},
                                    linked : BOOLEAN]]
        BY <3>4, <4>2 DEF LinkDelivery
      <4> QED BY <3>4, <4>3 DEF LinkDelivery, timerVars
    <3> QED BY <2>2, <3>1, <3>2, <3>3, <3>4 DEF Process
  <2>3. ASSUME NEW i \in Delivery, PruneDelivery(i) \/ ResultIsLost(i)
        PROVE  IntakeTypeOK'
    <3>1. CASE PruneDelivery(i)
      BY <3>1 DEF PruneDelivery, AfterPruning, timerVars
    <3>2. CASE ResultIsLost(i)
      BY <3>2 DEF ResultIsLost, timerVars
    <3> QED BY <2>3, <3>1, <3>2
  <2>4. ASSUME NEW s \in Schedule, ComesDue(s) \/ Toggle(s) PROVE IntakeTypeOK'
    <3>1. CASE ComesDue(s)
      <4>1. slots'[s] \in 0..MaxSlots
        BY <3>1 DEF ComesDue
      <4>2. timer' \in [Schedule -> [enabled : BOOLEAN, due : BOOLEAN]]
        BY <3>1 DEF ComesDue
      <4> QED BY <3>1, <4>1, <4>2 DEF ComesDue, hookVars
    <3>2. CASE Toggle(s)
      <4>1. timer[s] \in [enabled : BOOLEAN, due : BOOLEAN]
        OBVIOUS
      <4>2. [timer[s] EXCEPT !.enabled = ~timer[s].enabled]
               \in [enabled : BOOLEAN, due : BOOLEAN]
        BY <4>1, Zenon
      <4>3. timer' \in [Schedule -> [enabled : BOOLEAN, due : BOOLEAN]]
        BY <3>2, <4>2 DEF Toggle
      <4> QED BY <3>2, <4>3 DEF Toggle, hookVars
    <3> QED BY <2>4, <3>1, <3>2
  <2>5. ASSUME Scan PROVE IntakeTypeOK'
    <3>1. ASSUME NEW s \in Schedule, TakeDue(s) PROVE IntakeTypeOK'
      <4>1. timer[s] \in [enabled : BOOLEAN, due : BOOLEAN]
        OBVIOUS
      <4>2. [timer[s] EXCEPT !.due = FALSE] \in [enabled : BOOLEAN, due : BOOLEAN]
        BY <4>1
      <4>3. timer' \in [Schedule -> [enabled : BOOLEAN, due : BOOLEAN]]
        BY <3>1, <4>2 DEF TakeDue, Advanced
      <4> QED BY <3>1, <4>3 DEF TakeDue, hookVars
    <3>2. ASSUME CreateScheduled PROVE IntakeTypeOK'
      BY <3>2 DEF CreateScheduled, hookVars
    <3>3. ASSUME EndTick PROVE IntakeTypeOK'
      BY <3>3 DEF EndTick, Rest, NoSchedule, hookVars
    <3> QED BY <2>5, <3>1, <3>2, <3>3 DEF Scan
  <2>6. ASSUME Close \/ Exit \/ Crash PROVE IntakeTypeOK'
    BY <2>6 DEF Close, Exit, Crash, Rest, NoSchedule, hookVars, timerVars
  <2>7. ASSUME NEW missed \in SUBSET {i \in Delivery : Pending(i)}, Start(missed)
        PROVE  IntakeTypeOK'
    BY <2>7 DEF Start, timerVars
  <2>8. CASE UNCHANGED vars
    BY <2>8 DEF vars, hookVars, timerVars
  <2> QED BY <2>1, <2>2, <2>3, <2>4, <2>5, <2>6, <2>7, <2>8 DEF Next
<1> QED BY <1>1, <1>2, PTL DEF Spec

\* A step of one delivery keeps the account of all, when it leaves the others alone.
LEMMA OneDelivery ==
    ASSUME NEW i \in Delivery, IntakeInv, Process(i) \/ PruneDelivery(i)
                                 \/ ResultIsLost(i) \/ \E fits \in BOOLEAN : Receive(i, fits)
    PROVE  NoneForgotten' /\ Accounts'
<1> USE DEF IntakeInv, IntakeTypeOK, Accounts, Account, NoneForgotten, Pending
<1>1. CASE \E fits \in BOOLEAN : Receive(i, fits)
  BY <1>1 DEF Receive, IsDuplicate
<1>2. CASE CreateAtCommit(i)
  BY <1>2 DEF CreateAtCommit
<1>3. CASE RejectDelivery(i)
  BY <1>3 DEF RejectDelivery
<1>4. CASE Interrupted(i)
  BY <1>4 DEF Interrupted
<1>5. CASE LinkDelivery(i)
  BY <1>5 DEF LinkDelivery
<1>6. CASE PruneDelivery(i)
  BY <1>6 DEF PruneDelivery, AfterPruning
<1>7. CASE ResultIsLost(i)
  BY <1>7 DEF ResultIsLost
<1> QED BY <1>1, <1>2, <1>3, <1>4, <1>5, <1>6, <1>7 DEF Process

\* What the process and the schedules do keeps the accounts.
LEMMA OtherSteps ==
    ASSUME IntakeInv,
           \/ \E s \in Schedule : ComesDue(s) \/ Toggle(s)
           \/ Scan
           \/ Close \/ Exit \/ Crash
           \/ \E missed \in SUBSET {i \in Delivery : Pending(i)} : Start(missed)
           \/ UNCHANGED vars
    PROVE  NoneForgotten' /\ Accounts'
<1> USE DEF IntakeInv, IntakeTypeOK, Accounts, Account, NoneForgotten, Pending
<1>1. CASE UNCHANGED <<hookVars, process, ends>>
  BY <1>1 DEF hookVars
<1>2. CASE Close
  BY <1>2 DEF Close, hookVars
<1>3. CASE Exit
  BY <1>3 DEF Exit, hookVars
<1>4. CASE Crash
  BY <1>4 DEF Crash
<1>5. ASSUME NEW missed \in SUBSET {i \in Delivery : Pending(i)}, Start(missed)
      PROVE  NoneForgotten' /\ Accounts'
  BY <1>5 DEF Start
<1> QED BY <1>1, <1>2, <1>3, <1>4, <1>5
        DEF ComesDue, Toggle, Scan, TakeDue, CreateScheduled, EndTick, vars

LEMMA IntakeInductive == Spec => []IntakeInv
<1>1. Init => IntakeInv
  BY IntakeTyped, IntakeAssumption
     DEF Init, IntakeInv, IntakeTypeOK, NoneForgotten, Accounts, Account, Pending, Rest, NoSchedule
<1>2. IntakeInv /\ IntakeTypeOK' /\ [Next]_vars => IntakeInv'
  BY OneDelivery, OtherSteps DEF IntakeInv, Next
<1> QED BY <1>1, <1>2, IntakeTyped, PTL DEF Spec

\* While the server runs, each accepted delivery without a deployment has a goroutine,
\* unless this server ignored the error of a statement about it.
THEOREM NothingForgotten == Spec => []NoneForgotten
BY IntakeInductive, PTL DEF IntakeInv

\* A delivery is deployed once, and again only for ends of the process.
THEOREM RepeatsBounded == Spec => []RepeatsAreInterruptions
<1>1. IntakeInv => RepeatsAreInterruptions
  BY DEF IntakeInv, Accounts, Account, RepeatsAreInterruptions
<1> QED BY <1>1, IntakeInductive, PTL

-----------------------------------------------------------------------------
(* The webhooks implement the promise of module AtLeastOnce *)

\* A step that moves the row of one delivery moves the phase of that delivery only.
LEMMA OnePhase ==
    ASSUME IntakeTypeOK, NEW i \in Delivery, NEW r, hook' = [hook EXCEPT ![i] = r]
    PROVE  \A j \in Delivery : j # i => PhaseOf(j)' = PhaseOf(j)
BY DEF IntakeTypeOK, PhaseOf

LEMMA WithdrawStep ==
    ASSUME IntakeTypeOK, NEW i \in Delivery, NEW r,
           hook' = [hook EXCEPT ![i] = r], r.state = "rejected", made' = made
    PROVE  Promise!Withdraw({i})
<1>1. PhaseOf(i)' = "withdrawn"
  BY DEF IntakeTypeOK, PhaseOf
<1> QED BY <1>1, OnePhase DEF Promise!Withdraw

LEMMA PromiseStep ==
    ASSUME IntakeInv, IntakeTypeOK', [Next]_vars
    PROVE  [Promise!Next]_(Promise!vars)
<1>0. /\ IntakeTypeOK /\ hook \in [Delivery -> [state  : {"unseen", "rejected", "accepted"},
                                                linked : BOOLEAN]]
      /\ \A i \in Delivery : {i} \in SUBSET Delivery /\ Account(i)
      /\ \A i \in Delivery : \E t \in {1} : t = 1
  BY DEF IntakeInv, IntakeTypeOK, Accounts
<1>1. ASSUME UNCHANGED <<hook, made>> PROVE UNCHANGED Promise!vars
  BY <1>1 DEF Promise!vars, PhaseOf
<1>2. ASSUME NEW i \in Delivery, Receive(i, TRUE) PROVE Promise!Accept({i})
  <2> DEFINE r == [hook[i] EXCEPT !.state = "accepted"]
  <2>1. hook' = [hook EXCEPT ![i] = r] /\ hook[i].state = "unseen" /\ made' = made
    BY <1>2 DEF Receive, IsDuplicate
  <2>2. r.state = "accepted" /\ r.linked = FALSE
    BY <1>0, <2>1 DEF Account
  <2>3. PhaseOf(i)' = "owed" /\ PhaseOf(i) = "none"
    BY <1>0, <2>1, <2>2 DEF PhaseOf
  <2>4. \A j \in Delivery : j # i => PhaseOf(j)' = PhaseOf(j)
    BY <1>0, <2>1, OnePhase
  <2> QED BY <2>1, <2>3, <2>4 DEF Promise!Accept
<1>3. ASSUME NEW i \in Delivery, Receive(i, FALSE) PROVE Promise!Withdraw({i})
  <2>1. [hook[i] EXCEPT !.state = "rejected"].state = "rejected"
    BY <1>0
  <2> QED BY <1>0, <1>3, <2>1, WithdrawStep DEF Receive
<1>4. ASSUME NEW i \in Delivery, CreateAtCommit(i) PROVE Promise!Serve(i, 1)
  <2>1. PhaseOf(i) = "owed"
    BY <1>0, <1>4 DEF CreateAtCommit, Account, Pending, PhaseOf
  <2>2. made' = [made EXCEPT ![i] = @ + 1] /\ hook' = hook /\ made \in [Delivery -> Nat]
    BY <1>0, <1>4 DEF CreateAtCommit, IntakeTypeOK
  <2> DEFINE done == [j \in Delivery |-> [t \in {1} |-> made[j]]]
  <2>3. done' = [done EXCEPT ![i][1] = @ + 1]
    <3>1. done' = [j \in Delivery |-> [t \in {1} |-> IF j = i THEN made[i] + 1 ELSE made[j]]]
      BY <2>2
    <3>2. [done[i] EXCEPT ![1] = done[i][1] + 1] = [t \in {1} |-> made[i] + 1]
      OBVIOUS
    <3>3. [done EXCEPT ![i] = [t \in {1} |-> made[i] + 1]] = done'
      BY <3>1
    <3> HIDE DEF done
    <3> QED BY <3>2, <3>3
  <2>4. \A j \in Delivery : PhaseOf(j)' = PhaseOf(j)
    BY <2>2 DEF PhaseOf
  <2> QED BY <2>1, <2>3, <2>4 DEF Promise!Serve
<1>5. ASSUME NEW i \in Delivery, RejectDelivery(i) PROVE Promise!Withdraw({i})
  <2>1. [hook[i] EXCEPT !.state = "rejected"].state = "rejected"
    BY <1>0
  <2> QED BY <1>0, <1>5, <2>1, WithdrawStep DEF RejectDelivery
<1>6. ASSUME NEW i \in Delivery, LinkDelivery(i) PROVE Promise!Keep(i)
  <2> DEFINE r == [hook[i] EXCEPT !.linked = TRUE]
  <2>1. /\ hook' = [hook EXCEPT ![i] = r] /\ made' = made /\ made[i] > 0
        /\ hook[i].state = "accepted" /\ ~hook[i].linked
    BY <1>0, <1>6 DEF LinkDelivery, Account, Pending
  <2>2. r.state = "accepted" /\ r.linked
    BY <1>0, <2>1
  <2>3. PhaseOf(i)' = "kept" /\ PhaseOf(i) = "owed"
    BY <1>0, <2>1, <2>2 DEF PhaseOf
  <2>4. \A j \in Delivery : j # i => PhaseOf(j)' = PhaseOf(j)
    BY <1>0, <2>1, OnePhase
  <2> QED BY <2>1, <2>3, <2>4 DEF Promise!Keep
<1>7. ASSUME NEW i \in Delivery, PruneDelivery(i) PROVE Promise!Withdraw({i})
  BY <1>0, <1>7, WithdrawStep DEF PruneDelivery, AfterPruning
<1>8. CASE \E i \in Delivery : Interrupted(i) \/ ResultIsLost(i)
  BY <1>1, <1>8 DEF Interrupted, ResultIsLost
<1>9. CASE (\E s \in Schedule : ComesDue(s) \/ Toggle(s)) \/ Scan
  BY <1>1, <1>9 DEF ComesDue, Toggle, Scan, TakeDue, CreateScheduled, EndTick, hookVars
<1>10. CASE \/ Close \/ Exit \/ Crash \/ UNCHANGED vars
             \/ \E missed \in SUBSET {i \in Delivery : Pending(i)} : Start(missed)
  BY <1>1, <1>10 DEF Close, Exit, Crash, Start, vars, hookVars
<1> QED BY <1>0, <1>2, <1>3, <1>4, <1>5, <1>6, <1>7, <1>8, <1>9, <1>10
        DEF Next, Process, Promise!Next

\* A delivery names its deployment only after one was created for it, and none is created
\* afterwards or after a refusal, for any deliveries and ends of the process: a redelivery
\* is a duplicate, and the recovery starts again with those that name none.
THEOREM IntakeKeepsPromise == Spec => ImplementsPromise
<1>1. Init => Promise!Init
  BY DEF Init, Promise!Init, PhaseOf
<1>2. IntakeInv /\ IntakeTypeOK' /\ [Next]_vars => [Promise!Next]_(Promise!vars)
  BY PromiseStep
<1> QED BY <1>1, <1>2, IntakeInductive, IntakeTyped, PTL DEF Spec, ImplementsPromise, Promise!Spec

-----------------------------------------------------------------------------
One(condition) == IF condition THEN 1 ELSE 0

\* A slot is used up once: it is due, or its deployment is about to be created, or
\* that was done or failed.
SlotAccount(s) ==
    runs[s] + One(timer[s].due) + One(tick.at = "create" /\ s \in tick.of) <= slots[s]

SlotAccounts == \A s \in Schedule : SlotAccount(s)

LEMMA SlotStep ==
    ASSUME IntakeTypeOK, SlotAccounts, [Next]_vars
    PROVE  SlotAccounts'
<1> USE DEF SlotAccounts, SlotAccount, One
<1>0. /\ \A s \in Schedule : runs[s] \in Nat /\ slots[s] \in Nat
      /\ timer \in [Schedule -> [enabled : BOOLEAN, due : BOOLEAN]]
      /\ slots \in [Schedule -> 0..MaxSlots] /\ runs \in [Schedule -> Nat]
  BY DEF IntakeTypeOK
<1>1. CASE UNCHANGED timerVars
  BY <1>1 DEF timerVars
<1>2. ASSUME NEW s \in Schedule, ComesDue(s) PROVE SlotAccounts'
  BY <1>0, <1>2 DEF ComesDue
<1>3. ASSUME NEW s \in Schedule, Toggle(s) PROVE SlotAccounts'
  BY <1>0, <1>3 DEF Toggle
<1>4. ASSUME NEW s \in Schedule, TakeDue(s) PROVE SlotAccounts'
  BY <1>0, <1>4 DEF TakeDue, Advanced, Rest
<1>5. ASSUME CreateScheduled PROVE SlotAccounts'
  <2>1. tick' = [of |-> tick.of, at |-> "options"]
    BY <1>5 DEF CreateScheduled, IntakeTypeOK
  <2> QED BY <1>0, <1>5, <2>1 DEF CreateScheduled
<1>6. ASSUME EndTick PROVE SlotAccounts'
  BY <1>0, <1>6 DEF EndTick, Rest
<1>7. ASSUME Crash PROVE SlotAccounts'
  BY <1>0, <1>7 DEF Crash, Rest
<1> QED BY <1>1, <1>2, <1>3, <1>4, <1>5, <1>6, <1>7
        DEF Next, Scan, Process, Receive, CreateAtCommit, RejectDelivery, Interrupted,
            LinkDelivery, ResultIsLost, PruneDelivery, Close, Exit, Start, vars

\* A slot of a schedule creates one deployment at most, through crashes and pauses.
THEOREM SlotsAtMostOnce == Spec => []SlotsRunOnce
<1>1. Init => SlotAccounts
  BY DEF Init, SlotAccounts, SlotAccount, One, Rest
<1>2. IntakeTypeOK /\ SlotAccounts => SlotsRunOnce
  BY DEF SlotAccounts, SlotAccount, SlotsRunOnce, One, IntakeTypeOK
<1> QED BY <1>1, <1>2, SlotStep, IntakeTyped, PTL DEF Spec
=============================================================================
