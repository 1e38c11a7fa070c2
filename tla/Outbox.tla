-------------------------------- MODULE Outbox --------------------------------
(***************************************************************************)
(* The two outboxes: notification_deliveries, filled by a trigger when a   *)
(* deployment ends and emptied by the notification manager, and            *)
(* commit_status_deliveries, filled when one is queued and when it ends    *)
(* and emptied by the provider status manager.  Both managers run the same *)
(* loop: claim the oldest row that is due, POST, record the result.  They  *)
(* differ in who drains (Wake starts more goroutines), in what one row     *)
(* sends (a notification goes to every channel of the configuration), and  *)
(* in what a stop does to the write of the result.                         *)
(***************************************************************************)
EXTENDS Integers

CONSTANTS
    Deployment,
    Waker,           \* the goroutines Wake may have running besides the loops
    Configs,         \* the sets of outboxes a deployment's configuration may use
    Channels,        \* how many channels of a configuration want the event
    AttemptLimit,    \* the limit of both managers, 5 in the code
    MaxRetries,      \* bound: retries asked for by the owner
    MaxRestarts      \* bound: ends of the process

ASSUME OutboxAssumption ==
    /\ Configs \subseteq SUBSET {"notification", "status"}
    /\ Channels \in Nat
    /\ AttemptLimit \in Nat \ {0}
    /\ MaxRetries \in Nat
    /\ MaxRestarts \in Nat
    /\ Waker \cap {"notifier", "reporter"} = {}

VARIABLES
    status,      \* status[d]: as far as the triggers look at it
    uses,        \* uses[d]: the outboxes its configuration snapshots are not empty for
    row,         \* row[e]: the row of entry e
    lastId,      \* the last id given to a row
    job,         \* job[k]: what drain k holds between claim and result
    awake,       \* the wakers that are draining
    got,         \* got[e][t]: how often target t received e (history)
    stopping,    \* the managers' context is over
    retries,
    restarts

vars == <<status, uses, row, lastId, job, awake, got, stopping, retries, restarts>>

Kind   == {"queued", "ended", "notice"}
Entry  == Deployment \X Kind
Target == 1..(Channels + 1)
Drain  == {"notifier", "reporter"} \cup Waker
NoEntry == <<>>

\* The table of an entry, and the rows a drain works on.
TableOf(e) == IF e[2] = "notice" THEN "notification" ELSE "status"

Serves(k, e) == (k = "notifier") <=> (TableOf(e) = "notification")

TargetCount(e) == IF e[2] = "notice" THEN Channels ELSE 1

RowState == {"absent", "pending", "delivering", "delivered", "failed"}

Row == [state : RowState, attempts : Nat, due : BOOLEAN, id : Nat]

Job == [entry : Entry \cup {NoEntry}, attempts : Nat, next : Nat, error : BOOLEAN]

Absent == [state |-> "absent", attempts |-> 0, due |-> TRUE, id |-> 0]
Free   == [entry |-> NoEntry, attempts |-> 0, next |-> 1, error |-> FALSE]

OutboxTypeOK ==
    /\ status \in [Deployment -> {"none", "queued", "ended", "pruned"}]
    /\ uses \in [Deployment -> SUBSET {"notification", "status"}]
    /\ row \in [Entry -> Row]
    /\ lastId \in Nat
    /\ job \in [Drain -> Job]
    /\ awake \in SUBSET Waker
    /\ got \in [Entry -> [Target -> Nat]]
    /\ stopping \in BOOLEAN
    /\ retries \in 0..MaxRetries /\ restarts \in 0..MaxRestarts

Init ==
    /\ status = [d \in Deployment |-> "none"]
    /\ uses = [d \in Deployment |-> {}]
    /\ row = [e \in Entry |-> Absent]
    /\ lastId = 0
    /\ job = [k \in Drain |-> Free]
    /\ awake = {}
    /\ got = [e \in Entry |-> [t \in Target |-> 0]]
    /\ stopping = FALSE
    /\ retries = 0 /\ restarts = 0

-----------------------------------------------------------------------------
(* The deployments and their triggers *)

NewRow(id) == [state |-> "pending", attempts |-> 0, due |-> TRUE, id |-> id]

\* The rows with a new one for e, if the configuration asks for it.
WithRow(rows, e, config, id) ==
    IF TableOf(e) \in config THEN [rows EXCEPT ![e] = NewRow(id)] ELSE rows

Enqueue(d, config) ==
    /\ status[d] = "none"
    /\ status' = [status EXCEPT ![d] = "queued"]
    /\ uses' = [uses EXCEPT ![d] = config]
    /\ row' = WithRow(row, <<d, "queued">>, config, lastId + 1)
    /\ lastId' = lastId + 1
    /\ UNCHANGED <<job, awake, got, stopping, retries, restarts>>

\* A terminal status: one row in each table, with the update that causes them.
End(d) ==
    /\ status[d] = "queued"
    /\ status' = [status EXCEPT ![d] = "ended"]
    /\ row' = LET reported == WithRow(row, <<d, "ended">>, uses[d], lastId + 1)
              IN WithRow(reported, <<d, "notice">>, uses[d], lastId + 2)
    /\ lastId' = lastId + 2
    /\ UNCHANGED <<uses, job, awake, got, stopping, retries, restarts>>

\* Retention deletes the deployment, and by cascade its rows, at work or not.
Prune(d) ==
    /\ status[d] = "ended"
    /\ status' = [status EXCEPT ![d] = "pruned"]
    /\ row' = [e \in Entry |-> IF e[1] = d THEN Absent ELSE row[e]]
    /\ UNCHANGED <<uses, lastId, job, awake, got, stopping, retries, restarts>>

-----------------------------------------------------------------------------
(* drain *)

IsDueMutant(e) ==                  \* rows another drain is at are taken too
    row[e].state \in {"pending", "delivering"} /\ row[e].due

IsDue(e) == row[e].state = "pending" /\ row[e].due

Running(k) == job[k].entry # NoEntry

Claim(k, e) ==
    /\ ~stopping
    /\ ~Running(k)
    /\ k \in Waker => k \in awake
    /\ Serves(k, e) /\ IsDue(e)
    /\ \A f \in Entry : Serves(k, f) /\ IsDue(f) => row[e].id <= row[f].id
    /\ row' = [row EXCEPT ![e].state = "delivering", ![e].attempts = @ + 1]
    /\ job' = [job EXCEPT ![k] = [Free EXCEPT !.entry = e,
                                              !.attempts = row[e].attempts + 1]]
    /\ UNCHANGED <<status, uses, lastId, awake, got, stopping, retries, restarts>>

IsPostedMutant(k) == job[k].next >= TargetCount(job[k].entry)   \* all but the last

IsPosted(k) == job[k].next > TargetCount(job[k].entry)

\* One POST: it arrives or not, and what comes back is a 2xx or not; without the
\* Secret that holds the address, or after a stop, there is no 2xx.
Post(k) ==
    LET e == job[k].entry IN
    /\ Running(k) /\ ~job[k].error /\ ~IsPosted(k)
    /\ \E arrived, answered \in BOOLEAN :
          /\ answered => arrived /\ ~stopping
          /\ got' = IF arrived THEN [got EXCEPT ![e][job[k].next] = @ + 1] ELSE got
          /\ job' = IF answered THEN [job EXCEPT ![k].next = @ + 1]
                                ELSE [job EXCEPT ![k].error = TRUE]
    /\ UNCHANGED <<status, uses, row, lastId, awake, stopping, retries, restarts>>

GivesUpMutant(attempts) == attempts > AttemptLimit

GivesUp(attempts) == attempts >= AttemptLimit

Recorded(k) ==
    LET e == job[k].entry IN
    IF ~job[k].error
    THEN [row EXCEPT ![e].state = "delivered"]
    ELSE [row EXCEPT ![e].state = IF GivesUp(job[k].attempts) THEN "failed" ELSE "pending",
                     ![e].due = GivesUp(job[k].attempts)]

\* The update of the row, if retention has left it there.  The notification manager
\* writes with its own context, so after a stop the row stays as it is.
Record(k) ==
    /\ Running(k)
    /\ job[k].error \/ IsPosted(k)
    /\ row' = IF row[job[k].entry].state = "absent" \/ (k = "notifier" /\ stopping)
              THEN row ELSE Recorded(k)
    /\ job' = [job EXCEPT ![k] = Free]
    /\ UNCHANGED <<status, uses, lastId, awake, got, stopping, retries, restarts>>

\* A waker returns when claim finds nothing, or fails because of the stop.
Retire(k) ==
    /\ k \in awake /\ ~Running(k)
    /\ stopping \/ \A e \in Entry : Serves(k, e) => ~IsDue(e)
    /\ awake' = awake \ {k}
    /\ UNCHANGED <<status, uses, row, lastId, job, got, stopping, retries, restarts>>

BackoffPasses(e) ==
    /\ row[e].state = "pending" /\ ~row[e].due
    /\ row' = [row EXCEPT ![e].due = TRUE]
    /\ UNCHANGED <<status, uses, lastId, job, awake, got, stopping, retries, restarts>>

-----------------------------------------------------------------------------
(* The owner, the stop of the server and its start *)

\* retryCommitStatusDelivery: a failed row gets all its attempts again.
Retry(e, k) ==
    /\ e[2] # "notice" /\ row[e].state = "failed"
    /\ retries < MaxRetries
    /\ k \in Waker \ awake
    /\ row' = [row EXCEPT ![e].state = "pending", ![e].attempts = 0, ![e].due = TRUE]
    /\ awake' = awake \cup {k}
    /\ retries' = retries + 1
    /\ UNCHANGED <<status, uses, lastId, job, got, stopping, restarts>>

Stop ==
    /\ ~stopping /\ restarts < MaxRestarts
    /\ stopping' = TRUE
    /\ UNCHANGED <<status, uses, row, lastId, job, awake, got, retries, restarts>>

RequeuedMutant(state) == state     \* what was at work when the process ended is forgotten

RequeuedTypeMutant(state) ==       \* a status the CHECK of the column does not allow
    IF state = "delivering" THEN "queued" ELSE state

Requeued(state) == IF state = "delivering" THEN "pending" ELSE state

\* The process ends at any point, and both managers start with the same update.
Restart ==
    /\ restarts < MaxRestarts
    /\ restarts' = restarts + 1
    /\ row' = [e \in Entry |-> [row[e] EXCEPT !.state = Requeued(@)]]
    /\ job' = [k \in Drain |-> Free]
    /\ awake' = {}
    /\ stopping' = FALSE
    /\ UNCHANGED <<status, uses, lastId, got, retries>>

-----------------------------------------------------------------------------
DrainStep(k) == (\E e \in Entry : Claim(k, e)) \/ Post(k) \/ Record(k) \/ Retire(k)

Next ==
    \/ \E d \in Deployment :
          (\E config \in Configs : Enqueue(d, config)) \/ End(d) \/ Prune(d)
    \/ \E k \in Drain : DrainStep(k)
    \/ \E e \in Entry : BackoffPasses(e) \/ \E k \in Waker : Retry(e, k)
    \/ Stop
    \/ Restart

Spec == Init /\ [][Next]_vars

\* The loops scan every two seconds and a POST has a ten second timeout.
Fairness ==
    /\ \A k \in Drain : WF_vars(DrainStep(k))
    /\ \A e \in Entry : WF_vars(BackoffPasses(e))

FairSpec == Spec /\ Fairness

-----------------------------------------------------------------------------
(* Properties *)

\* Nothing is sent by two goroutines at a time, however many Wake has started, and
\* what a goroutine sends is marked as being sent.
OneSender ==
    \A k \in Drain : Running(k) =>
        /\ row[job[k].entry].state \in {"delivering", "absent"}
        /\ \A l \in Drain : job[l].entry = job[k].entry => l = k

\* The promise of both outboxes (module AtLeastOnce): a delivery is called delivered
\* after all its channels received it and is then never sent again; it fails only when
\* as many attempts as the limit allows are behind it, and then only the owner brings it
\* back.  A goroutine may go on sending what retention deletes.
PhaseOf(e) ==
    CASE row[e].state \in {"pending", "delivering"} -> "owed"
      [] row[e].state = "delivered" -> "kept"
      [] row[e].state = "failed" -> "given_up"
      [] row[e].state = "absent" -> IF status[e[1]] = "pruned" THEN "withdrawn" ELSE "none"

Promise == INSTANCE AtLeastOnce WITH
    Item  <- Entry,
    Need  <- [e \in Entry |-> 1..TargetCount(e)],
    Busy  <- {"owed", "withdrawn"},
    Limit <- AttemptLimit,
    phase <- [e \in Entry |-> PhaseOf(e)],
    tries <- [e \in Entry |-> row[e].attempts],
    renewals <- retries,
    done  <- got

ImplementsPromise == Promise!Spec

\* Every POST is paid for by an attempt written before it: a target receives an
\* event no more often than the limit allows, once more for each end of the process.
PostsArePaid ==
    \A e \in Entry, t \in Target :
        got[e][t] <= AttemptLimit * (1 + retries) + restarts

\* No delivery is forgotten: it is delivered or given up, through restarts, unless
\* the server is stopped.
EntriesSettle ==
    \A e \in Entry :
        row[e].state \in {"pending", "delivering"}
            ~> row[e].state \in {"delivered", "failed", "absent"} \/ stopping
=============================================================================
