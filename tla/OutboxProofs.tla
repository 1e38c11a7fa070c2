----------------------------- MODULE OutboxProofs -----------------------------
(***************************************************************************)
(* For every number of deployments, channels and goroutines: one goroutine *)
(* at a time sends a delivery, what is called delivered was received, and  *)
(* every POST is paid for.  The first needs to know that a row comes into  *)
(* being only once, the second how far the goroutine that holds a row has  *)
(* got, the third what is still left to be spent on a row.                 *)
(***************************************************************************)
EXTENDS Outbox, TLAPS

LEMMA RowsKeepType ==
    ASSUME OutboxTypeOK, NEW e \in Entry, NEW state \in RowState, NEW due \in BOOLEAN,
           NEW attempts \in Nat
    PROVE  /\ [row[e] EXCEPT !.state = state] \in Row
           /\ [row[e] EXCEPT !.state = state, !.due = due] \in Row
           /\ [row[e] EXCEPT !.state = state, !.attempts = attempts] \in Row
           /\ [row[e] EXCEPT !.due = due] \in Row
           /\ [row[e] EXCEPT !.state = state, !.attempts = attempts, !.due = due] \in Row
<1>1. row[e] \in Row
  BY DEF OutboxTypeOK
<1> QED BY <1>1 DEF Row

LEMMA NewRowTyped ==
    ASSUME OutboxTypeOK, NEW rows \in [Entry -> Row], NEW e \in Entry, NEW config,
           NEW id \in Nat
    PROVE  WithRow(rows, e, config, id) \in [Entry -> Row]
<1>1. NewRow(id) \in Row
  BY DEF NewRow, Row, RowState
<1> QED BY <1>1 DEF WithRow

LEMMA Bounds == MaxRetries \in Nat /\ MaxRestarts \in Nat
BY OutboxAssumption

LEMMA InitTyped == Init => OutboxTypeOK
<1> SUFFICES ASSUME Init PROVE OutboxTypeOK
  OBVIOUS
<1>1. Absent \in Row
  BY DEF Absent, Row, RowState
<1>2. Free \in Job
  BY DEF Free, Job
<1>3. /\ status \in [Deployment -> {"none", "queued", "ended", "pruned"}]
      /\ uses \in [Deployment -> SUBSET {"notification", "status"}]
      /\ got \in [Entry -> [Target -> Nat]]
  BY DEF Init
<1>4. row \in [Entry -> Row] /\ job \in [Drain -> Job]
  BY <1>1, <1>2 DEF Init
<1>5. lastId \in Nat /\ awake \in SUBSET Waker /\ stopping \in BOOLEAN
  BY DEF Init
<1>6. retries \in 0..MaxRetries /\ restarts \in 0..MaxRestarts
  <2>1. 0 \in 0..MaxRetries /\ 0 \in 0..MaxRestarts
    BY Bounds
  <2> QED BY <2>1 DEF Init
<1> QED BY <1>3, <1>4, <1>5, <1>6 DEF OutboxTypeOK

LEMMA TriggersTyped ==
    ASSUME OutboxTypeOK, NEW d \in Deployment,
           (\E config \in Configs : Enqueue(d, config)) \/ End(d) \/ Prune(d)
    PROVE  OutboxTypeOK'
<1>1. \A kind \in Kind : <<d, kind>> \in Entry
  BY DEF Entry
<1>2. ASSUME NEW config \in Configs, Enqueue(d, config) PROVE OutboxTypeOK'
  <2>1. row' \in [Entry -> Row]
    <3>1. row \in [Entry -> Row] /\ lastId + 1 \in Nat /\ <<d, "queued">> \in Entry
      BY <1>1 DEF OutboxTypeOK, Kind
    <3>2. row' = WithRow(row, <<d, "queued">>, config, lastId + 1)
      BY <1>2 DEF Enqueue
    <3> QED BY <3>1, <3>2, NewRowTyped
  <2>2. uses' \in [Deployment -> SUBSET {"notification", "status"}]
    BY <1>2, OutboxAssumption DEF Enqueue, OutboxTypeOK
  <2>3. status' \in [Deployment -> {"none", "queued", "ended", "pruned"}]
    BY <1>2 DEF Enqueue, OutboxTypeOK
  <2>4. lastId' \in Nat
    BY <1>2 DEF Enqueue, OutboxTypeOK
  <2>5. UNCHANGED <<job, awake, got, stopping, retries, restarts>>
    BY <1>2 DEF Enqueue
  <2> QED BY <2>1, <2>2, <2>3, <2>4, <2>5 DEF OutboxTypeOK
<1>3. ASSUME End(d) PROVE OutboxTypeOK'
  <2> DEFINE reported == WithRow(row, <<d, "ended">>, uses[d], lastId + 1)
  <2>0. row \in [Entry -> Row] /\ lastId + 1 \in Nat /\ lastId + 2 \in Nat
    BY DEF OutboxTypeOK
  <2>1. reported \in [Entry -> Row]
    BY <1>1, <2>0, NewRowTyped DEF Kind
  <2>2. row' = WithRow(reported, <<d, "notice">>, uses[d], lastId + 2)
    BY <1>3 DEF End
  <2> HIDE DEF reported
  <2>3. row' \in [Entry -> Row]
    BY <1>1, <2>0, <2>1, <2>2, NewRowTyped DEF Kind
  <2>4. status' \in [Deployment -> {"none", "queued", "ended", "pruned"}]
    BY <1>3 DEF End, OutboxTypeOK
  <2> QED BY <1>3, <2>3, <2>4 DEF End, OutboxTypeOK
<1>4. ASSUME Prune(d) PROVE OutboxTypeOK'
  <2>1. Absent \in Row
    BY DEF Absent, Row, RowState
  <2> QED BY <1>4, <2>1 DEF Prune, OutboxTypeOK
<1> QED BY <1>2, <1>3, <1>4

LEMMA DrainsTyped ==
    ASSUME OutboxTypeOK, NEW k \in Drain, DrainStep(k)
    PROVE  OutboxTypeOK'
<1>0. job[k] \in Job /\ Free \in Job
  BY DEF OutboxTypeOK, Free, Job
<1>1. ASSUME NEW e \in Entry, Claim(k, e) PROVE OutboxTypeOK'
  <2>1. row[e] \in Row /\ row[e].attempts + 1 \in Nat
    BY DEF OutboxTypeOK, Row
  <2>2. row' \in [Entry -> Row]
    BY <1>1, <2>1, RowsKeepType DEF Claim, OutboxTypeOK, RowState
  <2>3. [Free EXCEPT !.entry = e, !.attempts = row[e].attempts + 1] \in Job
    BY <2>1 DEF Free, Job
  <2> QED BY <1>1, <2>2, <2>3 DEF Claim, OutboxTypeOK
<1>2. ASSUME Post(k) PROVE OutboxTypeOK'
  <2>1. job[k].entry \in Entry /\ job[k].next \in Nat
    BY <1>0, <1>2 DEF Post, Running, Job
  <2> DEFINE sent == [got EXCEPT ![job[k].entry][job[k].next] = @ + 1]
  <2>5. got' = got \/ got' = sent
    BY <1>2 DEF Post
  <2>6. sent \in [Entry -> [Target -> Nat]]
    <3>1. /\ got \in [Entry -> [Target -> Nat]]
          /\ got[job[k].entry] \in [Target -> Nat]
      BY <2>1 DEF OutboxTypeOK
    <3> DEFINE f == got[job[k].entry]
               t == job[k].next
    <3>3. f \in [Target -> Nat] /\ t \in Nat
      BY <2>1, <3>1
    <3> HIDE DEF f, t
    <3>4. [f EXCEPT ![t] = @ + 1] \in [Target -> Nat]
      <4>1. \A u \in Target : f[u] + 1 \in Nat
        BY <3>3
      <4>2. [f EXCEPT ![t] = @ + 1] = [u \in Target |-> IF u = t THEN f[t] + 1 ELSE f[u]]
        BY <3>3
      <4> QED BY <3>3, <4>1, <4>2
    <3> USE DEF f, t
    <3> QED BY <2>1, <3>1, <3>4
  <2>2. got' \in [Entry -> [Target -> Nat]]
    BY <2>5, <2>6 DEF OutboxTypeOK
  <2>3. /\ [job[k] EXCEPT !.next = job[k].next + 1] \in Job
        /\ [job[k] EXCEPT !.error = TRUE] \in Job
    <3>1. TRUE \in BOOLEAN /\ job[k].next + 1 \in Nat
      BY <2>1
    <3> QED BY <1>0, <3>1 DEF Job
  <2>4. job' \in [Drain -> Job]
    BY <1>2, <2>3 DEF Post, OutboxTypeOK
  <2> QED BY <1>2, <2>2, <2>4 DEF Post, OutboxTypeOK
<1>3. ASSUME Record(k) PROVE OutboxTypeOK'
  <2>1. job[k].entry \in Entry /\ job[k].attempts \in Nat
    BY <1>0, <1>3 DEF Record, Running, Job
  <2>2. Recorded(k) \in [Entry -> Row]
    <3> DEFINE e == job[k].entry
               up == GivesUp(job[k].attempts)
               end == IF up THEN "failed" ELSE "pending"
    <3>1. row \in [Entry -> Row] /\ e \in Entry
      BY <2>1 DEF OutboxTypeOK
    <3>2. up \in BOOLEAN
      BY DEF GivesUp
    <3>3. end \in RowState /\ "delivered" \in RowState
      BY DEF RowState
    <3>4. Recorded(k) = IF ~job[k].error
                        THEN [row EXCEPT ![e] = [row[e] EXCEPT !.state = "delivered"]]
                        ELSE [row EXCEPT ![e] = [row[e] EXCEPT !.state = end, !.due = up]]
      BY <3>1 DEF Recorded
    <3> HIDE DEF e, up, end
    <3>5. /\ [row[e] EXCEPT !.state = "delivered"] \in Row
          /\ [row[e] EXCEPT !.state = end, !.due = up] \in Row
      BY <3>1, <3>2, <3>3, RowsKeepType
    <3> QED BY <3>1, <3>4, <3>5
  <2> QED BY <1>0, <1>3, <2>2 DEF Record, OutboxTypeOK
<1>4. ASSUME Retire(k) PROVE OutboxTypeOK'
  BY <1>4 DEF Retire, OutboxTypeOK
<1> QED BY <1>1, <1>2, <1>3, <1>4 DEF DrainStep

\* The rows of both tables and what each goroutine holds keep their types.
THEOREM OutboxTyped == Spec => []OutboxTypeOK
<1>1. OutboxTypeOK /\ [Next]_vars => OutboxTypeOK'
  <2> SUFFICES ASSUME OutboxTypeOK, [Next]_vars PROVE OutboxTypeOK'
    OBVIOUS
  <2>1. ASSUME NEW e \in Entry, BackoffPasses(e) PROVE OutboxTypeOK'
    <3>1. [row[e] EXCEPT !.due = TRUE] \in Row
      <4>1. row[e] \in Row
        BY DEF OutboxTypeOK
      <4> QED BY <4>1 DEF Row
    <3>2. row' \in [Entry -> Row]
      BY <2>1, <3>1 DEF BackoffPasses, OutboxTypeOK
    <3> QED BY <2>1, <3>2 DEF BackoffPasses, OutboxTypeOK
  <2>2. ASSUME NEW e \in Entry, NEW k \in Waker, Retry(e, k) PROVE OutboxTypeOK'
    <3>1. row' \in [Entry -> Row]
      BY <2>2, RowsKeepType DEF Retry, OutboxTypeOK, RowState
    <3> QED BY <2>2, <3>1, OutboxAssumption DEF Retry, OutboxTypeOK
  <2>3. ASSUME Stop PROVE OutboxTypeOK'
    BY <2>3 DEF Stop, OutboxTypeOK
  <2>4. ASSUME Restart PROVE OutboxTypeOK'
    <3>1. \A e \in Entry : Requeued(row[e].state) \in RowState
      BY DEF Requeued, OutboxTypeOK, Row, RowState
    <3>2. row' \in [Entry -> Row]
      BY <2>4, <3>1, RowsKeepType DEF Restart
    <3>3. Free \in Job
      BY DEF Free, Job
    <3>4. job' \in [Drain -> Job]
      BY <2>4, <3>3 DEF Restart
    <3>5. awake' \in SUBSET Waker /\ stopping' \in BOOLEAN
      BY <2>4 DEF Restart
    <3>6. restarts' \in 0..MaxRestarts
      <4>1. restarts \in 0..MaxRestarts
        BY DEF OutboxTypeOK
      <4>2. restarts < MaxRestarts /\ restarts' = restarts + 1
        BY <2>4 DEF Restart
      <4> QED BY <4>1, <4>2, Bounds
    <3> QED BY <2>4, <3>2, <3>4, <3>5, <3>6 DEF Restart, OutboxTypeOK
  <2>5. CASE UNCHANGED vars
    BY <2>5 DEF vars, OutboxTypeOK
  <2> QED BY <2>1, <2>2, <2>3, <2>4, <2>5, TriggersTyped, DrainsTyped DEF Next
<1> QED BY <1>1, InitTyped, PTL DEF Spec

-----------------------------------------------------------------------------
(* One sender *)

\* The transition that writes the row of e has been taken, and it is taken once.
Created(e) ==
    /\ status[e[1]] # "none"
    /\ e[2] # "queued" => status[e[1]] \in {"ended", "pruned"}

RowsAreCreated == \A e \in Entry : row[e].state # "absent" => Created(e)

HeldAreCreated == \A k \in Drain : Running(k) => Created(job[k].entry)

SendInv == OutboxTypeOK /\ RowsAreCreated /\ HeldAreCreated /\ OneSender

LEMMA EntryParts ==
    /\ \A e \in Entry : e[1] \in Deployment /\ e[2] \in Kind /\ e = <<e[1], e[2]>>
    /\ \A d \in Deployment, kind \in Kind : <<d, kind>> \in Entry
    /\ NoEntry \notin Entry
BY DEF Entry, NoEntry

LEMMA HeldIsEntry ==
    ASSUME OutboxTypeOK, NEW k \in Drain, Running(k)
    PROVE  job[k].entry \in Entry
<1>1. job[k] \in Job
  BY DEF OutboxTypeOK
<1> QED BY <1>1 DEF Job, Running

LEMMA WithRowElsewhere ==
    ASSUME NEW rows \in [Entry -> Row], NEW e \in Entry, NEW config, NEW id,
           NEW f \in Entry, f # e
    PROVE  WithRow(rows, e, config, id)[f] = rows[f]
BY DEF WithRow

\* A step that creates no entry anew, moves no held row and starts no drain.
LEMMA QuietStep ==
    ASSUME SendInv, OutboxTypeOK', job' = job,
           \A e \in Entry : Created(e) => Created(e)',
           \A e \in Entry : row'[e].state # "absent" => Created(e)',
           \A k \in Drain : Running(k) =>
              row'[job[k].entry].state \in {row[job[k].entry].state, "absent"}
    PROVE  SendInv'
<1>1. HeldAreCreated'
  BY HeldIsEntry DEF SendInv, HeldAreCreated, Running
<1>2. OneSender'
  BY DEF SendInv, OneSender, Running
<1> QED BY <1>1, <1>2 DEF SendInv, RowsAreCreated

LEMMA TriggersKeepSender ==
    ASSUME SendInv, OutboxTypeOK', NEW d \in Deployment,
           (\E config \in Configs : Enqueue(d, config)) \/ End(d) \/ Prune(d)
    PROVE  SendInv'
<1>0. /\ status \in [Deployment -> {"none", "queued", "ended", "pruned"}]
      /\ row \in [Entry -> Row] /\ lastId \in Nat
  BY DEF SendInv, OutboxTypeOK
<1>1. ASSUME NEW config \in Configs, Enqueue(d, config) PROVE SendInv'
  <2> DEFINE new == <<d, "queued">>
  <2>1. new \in Entry
    BY EntryParts DEF Kind
  <2>2. /\ status[d] = "none" /\ status' = [status EXCEPT ![d] = "queued"] /\ job' = job
        /\ row' = WithRow(row, new, config, lastId + 1)
    BY <1>1 DEF Enqueue
  <2>3. \A e \in Entry : e # new => row'[e] = row[e]
    BY <1>0, <2>1, <2>2, WithRowElsewhere
  <2>4. \A e \in Entry : Created(e) => Created(e)' /\ e # new
    BY <1>0, <2>2, EntryParts DEF Created
  <2>5. Created(new)'
    BY <1>0, <2>2 DEF Created
  <2> HIDE DEF new
  <2>6. \A e \in Entry : row'[e].state # "absent" => Created(e)'
    BY <2>3, <2>4, <2>5 DEF SendInv, RowsAreCreated
  <2>7. \A k \in Drain : Running(k) => row'[job[k].entry] = row[job[k].entry]
    BY <2>3, <2>4, HeldIsEntry DEF SendInv, HeldAreCreated
  <2> QED BY <2>2, <2>4, <2>6, <2>7, QuietStep
<1>2. ASSUME End(d) PROVE SendInv'
  <2> DEFINE report == <<d, "ended">>
             notice == <<d, "notice">>
             rows == WithRow(row, report, uses[d], lastId + 1)
  <2>1. report \in Entry /\ notice \in Entry
    BY EntryParts DEF Kind
  <2>2. /\ status[d] = "queued" /\ status' = [status EXCEPT ![d] = "ended"] /\ job' = job
        /\ row' = WithRow(rows, notice, uses[d], lastId + 2)
    BY <1>2 DEF End
  <2>3. \A e \in Entry : Created(e) => Created(e)' /\ e # report /\ e # notice
    BY <1>0, <2>2, EntryParts DEF Created
  <2>4. Created(report)' /\ Created(notice)'
    BY <1>0, <2>2 DEF Created
  <2>5. rows \in [Entry -> Row]
    BY <1>0, <2>1, NewRowTyped DEF SendInv
  <2>6. \A e \in Entry : e # report => rows[e] = row[e]
    BY <1>0, <2>1, WithRowElsewhere
  <2> HIDE DEF rows, report, notice
  <2>7. \A e \in Entry : e # report /\ e # notice => row'[e] = row[e]
    BY <2>1, <2>2, <2>5, <2>6, WithRowElsewhere
  <2>8. \A e \in Entry : row'[e].state # "absent" => Created(e)'
    BY <2>3, <2>4, <2>7 DEF SendInv, RowsAreCreated
  <2>9. \A k \in Drain : Running(k) => row'[job[k].entry] = row[job[k].entry]
    BY <2>3, <2>7, HeldIsEntry DEF SendInv, HeldAreCreated
  <2> QED BY <2>2, <2>3, <2>8, <2>9, QuietStep
<1>3. ASSUME Prune(d) PROVE SendInv'
  <2>1. /\ status[d] = "ended" /\ status' = [status EXCEPT ![d] = "pruned"] /\ job' = job
        /\ row' = [e \in Entry |-> IF e[1] = d THEN Absent ELSE row[e]]
    BY <1>3 DEF Prune
  <2>2. \A e \in Entry : Created(e) => Created(e)'
    BY <1>0, <2>1, EntryParts DEF Created
  <2>3. \A e \in Entry : row'[e].state \in {row[e].state, "absent"}
    BY <2>1 DEF Absent
  <2>4. \A e \in Entry : row'[e].state # "absent" => Created(e)'
    BY <2>2, <2>3 DEF SendInv, RowsAreCreated
  <2> QED BY <2>1, <2>2, <2>3, <2>4, HeldIsEntry, QuietStep DEF SendInv
<1> QED BY <1>1, <1>2, <1>3

LEMMA DrainsKeepSender ==
    ASSUME SendInv, OutboxTypeOK', NEW k \in Drain, DrainStep(k)
    PROVE  SendInv'
<1>0. /\ row \in [Entry -> Row] /\ job \in [Drain -> Job]
      /\ \A e \in Entry : row[e] \in Row
  BY DEF SendInv, OutboxTypeOK
<1>1. \A e \in Entry : Created(e)' = Created(e)
  BY DEF DrainStep, Claim, Post, Record, Retire, Created
<1>2. ASSUME NEW e \in Entry, Claim(k, e) PROVE SendInv'
  <2>1. /\ ~Running(k) /\ row[e].state = "pending"
        /\ row' = [row EXCEPT ![e].state = "delivering", ![e].attempts = @ + 1]
        /\ job' = [job EXCEPT ![k] = [Free EXCEPT !.entry = e,
                                                  !.attempts = row[e].attempts + 1]]
    BY <1>2 DEF Claim, IsDue
  <2>2. row'[e].state = "delivering" /\ \A f \in Entry : f # e => row'[f] = row[f]
    BY <1>0, <2>1 DEF Row
  <2>3. job'[k].entry = e /\ \A l \in Drain : l # k => job'[l] = job[l]
    BY <1>0, <2>1 DEF Free
  <2>4. \A l \in Drain : job[l].entry # e
    BY <2>1, EntryParts DEF SendInv, OneSender, Running
  <2>5. RowsAreCreated'
    BY <1>1, <2>1, <2>2 DEF SendInv, RowsAreCreated
  <2>6. HeldAreCreated'
    BY <1>1, <2>1, <2>3, HeldIsEntry DEF SendInv, HeldAreCreated, RowsAreCreated, Running
  <2>7. OneSender'
    BY <2>2, <2>3, <2>4, HeldIsEntry DEF SendInv, OneSender, Running
  <2> QED BY <2>5, <2>6, <2>7 DEF SendInv
<1>3. ASSUME Post(k) PROVE SendInv'
  <2>1. Running(k) /\ row' = row
        /\ \/ job' = [job EXCEPT ![k].next = @ + 1]
           \/ job' = [job EXCEPT ![k].error = TRUE]
    BY <1>3 DEF Post
  <2>2. \A l \in Drain : job'[l].entry = job[l].entry
    BY <1>0, <2>1 DEF Job
  <2>3. RowsAreCreated' /\ HeldAreCreated'
    BY <1>1, <2>1, <2>2, HeldIsEntry
       DEF SendInv, RowsAreCreated, HeldAreCreated, Running
  <2>4. OneSender'
    BY <2>1, <2>2 DEF SendInv, OneSender, Running
  <2> QED BY <2>3, <2>4 DEF SendInv
<1>4. ASSUME Record(k) PROVE SendInv'
  <2> DEFINE e == job[k].entry
  <2>1. Running(k) /\ e \in Entry
    BY <1>4, HeldIsEntry DEF Record, SendInv
  <2>2. job'[k].entry = NoEntry /\ \A l \in Drain : l # k => job'[l] = job[l]
    BY <1>0, <1>4 DEF Record, Free
  <2>3. \A f \in Entry : f # e => row'[f] = row[f]
    BY <1>0, <1>4, <2>1 DEF Record, Recorded
  <2>4. \A l \in Drain : Running(l)' => l # k /\ Running(l) /\ job[l].entry # e
    BY <2>1, <2>2 DEF SendInv, OneSender, Running
  <2>5. Created(e)
    BY <2>1 DEF SendInv, HeldAreCreated
  <2> HIDE DEF e
  <2>6. RowsAreCreated'
    BY <1>1, <2>3, <2>5 DEF SendInv, RowsAreCreated
  <2>7. HeldAreCreated'
    BY <1>1, <2>2, <2>4, HeldIsEntry DEF SendInv, HeldAreCreated
  <2>8. OneSender'
    BY <2>2, <2>3, <2>4, HeldIsEntry, EntryParts DEF SendInv, OneSender
  <2> QED BY <2>6, <2>7, <2>8 DEF SendInv
<1>5. ASSUME Retire(k) PROVE SendInv'
  <2>1. row' = row /\ job' = job
    BY <1>5 DEF Retire
  <2> QED BY <1>1, <2>1, QuietStep DEF SendInv, RowsAreCreated
<1> QED BY <1>2, <1>3, <1>4, <1>5 DEF DrainStep

LEMMA SendAlways == Spec => []SendInv
<1>1. Init => SendInv
  BY InitTyped, EntryParts
     DEF Init, SendInv, RowsAreCreated, HeldAreCreated, OneSender, Running, Free, Absent
<1>2. SendInv /\ OutboxTypeOK' /\ [Next]_vars => SendInv'
  <2> SUFFICES ASSUME SendInv, OutboxTypeOK', [Next]_vars PROVE SendInv'
    OBVIOUS
  <2>0. row \in [Entry -> Row] /\ \A e \in Entry : row[e] \in Row
    BY DEF SendInv, OutboxTypeOK
  <2>1. ASSUME NEW e \in Entry, BackoffPasses(e) PROVE SendInv'
    <3>1. job' = job /\ \A f \in Entry : row'[f].state = row[f].state
      BY <2>0, <2>1 DEF BackoffPasses, Row
    <3>2. \A f \in Entry : Created(f)' = Created(f)
      BY <2>1 DEF BackoffPasses, Created
    <3> QED BY <3>1, <3>2, HeldIsEntry, QuietStep DEF SendInv, RowsAreCreated
  <2>2. ASSUME NEW e \in Entry, NEW k \in Waker, Retry(e, k) PROVE SendInv'
    <3>1. /\ job' = job /\ row[e].state = "failed"
          /\ \A f \in Entry : f # e => row'[f] = row[f]
      BY <2>0, <2>2 DEF Retry
    <3>2. \A f \in Entry : Created(f)' = Created(f)
      BY <2>2 DEF Retry, Created
    <3>3. \A l \in Drain : Running(l) => job[l].entry # e
      BY <3>1 DEF SendInv, OneSender
    <3>4. \A f \in Entry : row'[f].state # "absent" => Created(f)'
      BY <3>1, <3>2 DEF SendInv, RowsAreCreated
    <3>5. \A l \in Drain : Running(l) => row'[job[l].entry] = row[job[l].entry]
      BY <3>1, <3>3, HeldIsEntry DEF SendInv
    <3> QED BY <3>1, <3>2, <3>4, <3>5, QuietStep
  <2>3. ASSUME Restart PROVE SendInv'
    <3>1. \A l \in Drain : ~Running(l)'
      BY <2>3 DEF Restart, Running, Free
    <3>2. \A f \in Entry : Created(f)' = Created(f)
      BY <2>3 DEF Restart, Created
    <3>3. \A f \in Entry : row[f].state = "absent" => row'[f].state = "absent"
      BY <2>0, <2>3 DEF Restart, Requeued, Row
    <3>4. RowsAreCreated'
      BY <3>2, <3>3 DEF SendInv, RowsAreCreated
    <3> QED BY <3>1, <3>4 DEF SendInv, HeldAreCreated, OneSender
  <2>4. CASE Stop \/ UNCHANGED vars
    <3>1. row' = row /\ job' = job /\ status' = status
      BY <2>4 DEF Stop, vars
    <3>2. \A f \in Entry : Created(f)' = Created(f)
      BY <3>1 DEF Created
    <3> QED BY <3>1, <3>2, QuietStep DEF SendInv, RowsAreCreated
  <2> QED BY <2>1, <2>2, <2>3, <2>4, TriggersKeepSender, DrainsKeepSender DEF Next
<1> QED BY <1>1, <1>2, OutboxTyped, PTL DEF Spec

\* Nothing is sent by two goroutines at a time, however many Wake has started: a held
\* row is marked, or retention has deleted it and no trigger brings it back.
THEOREM SenderIsAlone == Spec => []OneSender
<1>1. SendInv => OneSender
  BY DEF SendInv
<1> QED BY <1>1, SendAlways, PTL

-----------------------------------------------------------------------------
(* Delivered means received *)

\* The targets a drain has passed have received what it sends.
PassedReceived ==
    \A k \in Drain : Running(k) =>
        \A t \in 1..TargetCount(job[k].entry) :
            t < job[k].next => got[job[k].entry][t] > 0

\* What the word in the row claims.
DeliveredWasReceived ==
    \A e \in Entry : row[e].state = "delivered" =>
        \A t \in 1..TargetCount(e) : got[e][t] > 0

ReceiptInv == OutboxTypeOK /\ PassedReceived /\ DeliveredWasReceived

LEMMA TargetCounts ==
    ASSUME NEW e
    PROVE  TargetCount(e) \in Nat /\ 1..TargetCount(e) \subseteq Target
<1>1. Channels \in Nat
  BY OutboxAssumption
<1> QED BY <1>1 DEF TargetCount, Target

\* A step that sends nothing and calls nothing delivered.
LEMMA SilentStep ==
    ASSUME ReceiptInv, OutboxTypeOK', got' = got,
           \A k \in Drain : Running(k)' => job'[k] = job[k] \/ job'[k].next = 1,
           \A e \in Entry : row'[e].state = "delivered" => row[e].state = "delivered"
    PROVE  ReceiptInv'
<1>1. PassedReceived'
  <2> SUFFICES ASSUME NEW k \in Drain, Running(k)',
                      NEW t \in 1..TargetCount(job'[k].entry), t < job'[k].next
               PROVE  got[job'[k].entry][t] > 0
    BY DEF PassedReceived
  <2>1. t \in Int /\ t >= 1
    BY TargetCounts
  <2>2. job'[k] = job[k]
    BY <2>1
  <2> QED BY <2>2 DEF ReceiptInv, PassedReceived, Running
<1>2. DeliveredWasReceived'
  BY DEF ReceiptInv, DeliveredWasReceived
<1> QED BY <1>1, <1>2 DEF ReceiptInv

LEMMA NewRowsAreSilent ==
    ASSUME NEW rows \in [Entry -> Row], NEW e \in Entry, NEW config, NEW id,
           NEW f \in Entry, WithRow(rows, e, config, id)[f].state = "delivered"
    PROVE  rows[f].state = "delivered"
<1>1. NewRow(id).state = "pending"
  BY DEF NewRow
<1>2. CASE f = e
  BY <1>1, <1>2 DEF WithRow
<1>3. CASE f # e
  BY <1>3 DEF WithRow
<1> QED BY <1>2, <1>3

LEMMA TriggersKeepReceipts ==
    ASSUME ReceiptInv, OutboxTypeOK', NEW d \in Deployment,
           (\E config \in Configs : Enqueue(d, config)) \/ End(d) \/ Prune(d)
    PROVE  ReceiptInv'
<1>0. row \in [Entry -> Row] /\ lastId \in Nat /\ OutboxTypeOK
  BY DEF ReceiptInv, OutboxTypeOK
<1>1. \A kind \in Kind : <<d, kind>> \in Entry
  BY EntryParts
<1>2. got' = got /\ job' = job
  BY DEF Enqueue, End, Prune
<1>3. ASSUME NEW config \in Configs, Enqueue(d, config), NEW f \in Entry,
             row'[f].state = "delivered"
      PROVE  row[f].state = "delivered"
  <2>1. row' = WithRow(row, <<d, "queued">>, config, lastId + 1)
    BY <1>3 DEF Enqueue
  <2> QED BY <1>0, <1>1, <1>3, <2>1, NewRowsAreSilent DEF Kind
<1>4. ASSUME End(d), NEW f \in Entry, row'[f].state = "delivered"
      PROVE  row[f].state = "delivered"
  <2> DEFINE rows == WithRow(row, <<d, "ended">>, uses[d], lastId + 1)
  <2>1. rows \in [Entry -> Row]
    BY <1>0, <1>1, NewRowTyped DEF Kind
  <2>2. row' = WithRow(rows, <<d, "notice">>, uses[d], lastId + 2)
    BY <1>4 DEF End
  <2>3. rows[f].state = "delivered" => row[f].state = "delivered"
    BY <1>0, <1>1, NewRowsAreSilent DEF Kind
  <2> HIDE DEF rows
  <2> QED BY <1>1, <1>4, <2>1, <2>2, <2>3, NewRowsAreSilent DEF Kind
<1>5. ASSUME Prune(d), NEW f \in Entry, row'[f].state = "delivered"
      PROVE  row[f].state = "delivered"
  BY <1>5 DEF Prune, Absent
<1> QED BY <1>2, <1>3, <1>4, <1>5, SilentStep DEF Running

LEMMA DrainsKeepReceipts ==
    ASSUME ReceiptInv, OutboxTypeOK', NEW k \in Drain, DrainStep(k)
    PROVE  ReceiptInv'
<1>0. /\ row \in [Entry -> Row] /\ job \in [Drain -> Job] /\ job[k] \in Job
      /\ got \in [Entry -> [Target -> Nat]]
      /\ \A e \in Entry : row[e] \in Row
  BY DEF ReceiptInv, OutboxTypeOK
<1>1. ASSUME NEW e \in Entry, Claim(k, e) PROVE ReceiptInv'
  <2>1. /\ got' = got
        /\ row' = [row EXCEPT ![e].state = "delivering", ![e].attempts = @ + 1]
        /\ job' = [job EXCEPT ![k] = [Free EXCEPT !.entry = e,
                                                  !.attempts = row[e].attempts + 1]]
    BY <1>1 DEF Claim
  <2>2. \A f \in Entry : row'[f].state = "delivered" => row[f].state = "delivered"
    BY <1>0, <2>1 DEF Row
  <2>3. \A l \in Drain : job'[l] = job[l] \/ job'[l].next = 1
    BY <1>0, <2>1 DEF Free
  <2> QED BY <2>1, <2>2, <2>3, SilentStep
<1>2. ASSUME Post(k) PROVE ReceiptInv'
  <2> DEFINE e == job[k].entry
             n == job[k].next
  <2>1. Running(k) /\ e \in Entry /\ n \in Nat /\ row' = row
    BY <1>0, <1>2, HeldIsEntry DEF Post, ReceiptInv, Job
  <2>2. /\ got' = got \/ got' = [got EXCEPT ![e][n] = @ + 1]
        /\ \/ /\ got' = [got EXCEPT ![e][n] = @ + 1]
              /\ job' = [job EXCEPT ![k].next = @ + 1]
           \/ job' = [job EXCEPT ![k].error = TRUE]
    BY <1>2 DEF Post
  <2>3. \A l \in Drain : job'[l].entry = job[l].entry /\ (l # k => job'[l] = job[l])
    BY <1>0, <2>2 DEF Job
  <2> HIDE DEF e, n
  <2>4. \A f \in Entry, t \in Target : got[f][t] > 0 => got'[f][t] > 0
    BY <1>0, <2>1, <2>2
  <2>5. \/ job'[k].next = n
        \/ job'[k].next = n + 1 /\ (n \in Target => got'[e][n] > 0)
    BY <1>0, <2>1, <2>2 DEF Job, n
  <2>6. DeliveredWasReceived'
    BY <2>1, <2>4, TargetCounts DEF ReceiptInv, DeliveredWasReceived
  <2>7. ASSUME NEW l \in Drain, Running(l)',
               NEW t \in 1..TargetCount(job'[l].entry), t < job'[l].next
        PROVE  got'[job'[l].entry][t] > 0
    <3>1. /\ Running(l) /\ job[l].entry \in Entry /\ job'[l].entry = job[l].entry
          /\ t \in Target /\ t \in Int
      BY <2>3, <2>7, HeldIsEntry, TargetCounts DEF Running, ReceiptInv
    <3>2. t < job[l].next => got'[job[l].entry][t] > 0
      BY <2>4, <2>7, <3>1 DEF ReceiptInv, PassedReceived
    <3>3. CASE l # k
      BY <2>3, <2>7, <3>1, <3>2, <3>3
    <3>4. CASE l = k
      BY <2>1, <2>5, <2>7, <3>1, <3>2, <3>4 DEF e, n
    <3> QED BY <3>3, <3>4
  <2> QED BY <2>6, <2>7 DEF ReceiptInv, PassedReceived
<1>3. ASSUME Record(k) PROVE ReceiptInv'
  <2> DEFINE e == job[k].entry
  <2>1. Running(k) /\ e \in Entry /\ job[k].next \in Nat /\ got' = got
    BY <1>0, <1>3, HeldIsEntry DEF Record, ReceiptInv, Job
  <2>2. \A l \in Drain : Running(l)' => job'[l] = job[l]
    BY <1>0, <1>3 DEF Record, Running, Free
  <2>3. PassedReceived'
    BY <2>1, <2>2 DEF ReceiptInv, PassedReceived, Running
  <2>4. \A f \in Entry : f # e => row'[f] = row[f]
    BY <1>0, <1>3, <2>1 DEF Record, Recorded
  <2>5. \/ row'[e] = row[e]
        \/ row'[e].state \in {"failed", "pending"}
        \/ ~job[k].error
    BY <1>0, <1>3, <2>1 DEF Record, Recorded, Row
  <2>6. ~job[k].error => \A t \in 1..TargetCount(e) : got[e][t] > 0
    BY <1>3, <2>1, TargetCounts DEF Record, IsPosted, ReceiptInv, PassedReceived
  <2> HIDE DEF e
  <2>7. DeliveredWasReceived'
    BY <2>1, <2>4, <2>5, <2>6 DEF ReceiptInv, DeliveredWasReceived
  <2> QED BY <2>3, <2>7 DEF ReceiptInv
<1>4. ASSUME Retire(k) PROVE ReceiptInv'
  <2>1. row' = row /\ job' = job /\ got' = got
    BY <1>4 DEF Retire
  <2> QED BY <2>1, SilentStep
<1> QED BY <1>1, <1>2, <1>3, <1>4 DEF DrainStep

LEMMA ReceiptsAlways == Spec => []ReceiptInv
<1>1. Init => ReceiptInv
  BY InitTyped
     DEF Init, ReceiptInv, PassedReceived, DeliveredWasReceived, Running, Free, Absent
<1>2. ReceiptInv /\ OutboxTypeOK' /\ [Next]_vars => ReceiptInv'
  <2> SUFFICES ASSUME ReceiptInv, OutboxTypeOK', [Next]_vars PROVE ReceiptInv'
    OBVIOUS
  <2>0. row \in [Entry -> Row] /\ \A e \in Entry : row[e] \in Row
    BY DEF ReceiptInv, OutboxTypeOK
  <2>1. ASSUME NEW e \in Entry, BackoffPasses(e) PROVE ReceiptInv'
    <3>1. got' = got /\ job' = job /\ \A f \in Entry : row'[f].state = row[f].state
      BY <2>0, <2>1 DEF BackoffPasses, Row
    <3> QED BY <3>1, SilentStep
  <2>2. ASSUME NEW e \in Entry, NEW k \in Waker, Retry(e, k) PROVE ReceiptInv'
    <3>1. /\ got' = got /\ job' = job
          /\ \A f \in Entry : row'[f].state = "delivered" => row[f].state = "delivered"
      BY <2>0, <2>2 DEF Retry, Row
    <3> QED BY <3>1, SilentStep
  <2>3. ASSUME Restart PROVE ReceiptInv'
    <3>1. got' = got /\ \A l \in Drain : job'[l].next = 1
      BY <2>3 DEF Restart, Free
    <3>2. \A f \in Entry : row'[f].state = "delivered" => row[f].state = "delivered"
      BY <2>0, <2>3 DEF Restart, Requeued, Row
    <3> QED BY <3>1, <3>2, SilentStep
  <2>4. CASE Stop \/ UNCHANGED vars
    BY <2>4, SilentStep DEF Stop, vars
  <2> QED BY <2>1, <2>2, <2>3, <2>4, TriggersKeepReceipts, DrainsKeepReceipts DEF Next
<1> QED BY <1>1, <1>2, OutboxTyped, PTL DEF Spec

\* A delivery is called delivered only when each of its targets received it, whatever
\* was lost, retried, cut off by a stop or started again in between.
THEOREM DeliveredIsTrue == Spec => []DeliveredWasReceived
<1>1. ReceiptInv => DeliveredWasReceived
  BY DEF ReceiptInv
<1> QED BY <1>1, ReceiptsAlways, PTL

-----------------------------------------------------------------------------
(* Every POST is paid for.  The attempts a row has left, and the POST a     *)
(* goroutine may still make for it, are part of what has been granted: five *)
(* at first and at each retry of the owner, one at each end of the process. *)

Granted == AttemptLimit * (1 + retries) + restarts

\* What a row may still cost: a row that waits costs one attempt at least.
Left(r) ==
    IF r.state = "absent" THEN 0
    ELSE IF r.attempts < AttemptLimit THEN AttemptLimit - r.attempts
    ELSE IF r.state = "pending" THEN 1 ELSE 0

Paid == \A e \in Entry, t \in Target : got[e][t] + Left(row[e]) <= Granted

\* Drain k has yet to send to t.
SendsTo(k, t) == Running(k) /\ ~job[k].error /\ job[k].next <= t

PaidAhead ==
    \A k \in Drain, t \in Target : SendsTo(k, t) =>
        got[job[k].entry][t] + Left(row[job[k].entry]) + 1 <= Granted

AttemptsAgree ==
    \A k \in Drain : Running(k) /\ row[job[k].entry].state # "absent" =>
        row[job[k].entry].attempts = job[k].attempts

UnsentBefore == \A e \in Entry, t \in Target : ~Created(e) => got[e][t] = 0

PayInv == SendInv /\ Paid /\ PaidAhead /\ AttemptsAgree /\ UnsentBefore

LEMMA GrantedIsNat ==
    ASSUME NEW r \in Nat, NEW s \in Nat
    PROVE  /\ AttemptLimit * (1 + r) + s \in Nat
           /\ AttemptLimit * (1 + r) + s >= AttemptLimit
           /\ AttemptLimit * (1 + (r + 1)) + s = AttemptLimit * (1 + r) + s + AttemptLimit
<1> DEFINE l == AttemptLimit
<1>1. l \in Nat
  BY OutboxAssumption
<1> HIDE DEF l
<1>2. l * (1 + r) = l + l * r /\ l * (1 + (r + 1)) = l + l * r + l /\ l * r \in Nat
  BY <1>1
<1> QED BY <1>1, <1>2 DEF l

LEMMA LeftIsNat ==
    ASSUME NEW r \in Row
    PROVE  /\ Left(r) \in Nat
           /\ r.attempts \in Nat /\ Left(r) <= AttemptLimit
<1>1. r.attempts \in Nat /\ AttemptLimit \in Nat \ {0}
  BY OutboxAssumption DEF Row
<1> QED BY <1>1 DEF Left

LEMMA PayTypes ==
    ASSUME OutboxTypeOK
    PROVE  /\ Granted \in Nat
           /\ \A e \in Entry : Left(row[e]) \in Nat /\ row[e] \in Row
           /\ \A e \in Entry, t \in Target : got[e][t] \in Nat
<1>1. retries \in Nat /\ restarts \in Nat
  BY Bounds DEF OutboxTypeOK
<1>2. Granted \in Nat
  BY <1>1, GrantedIsNat DEF Granted
<1>3. \A e \in Entry : row[e] \in Row
  BY DEF OutboxTypeOK
<1> QED BY <1>2, <1>3, LeftIsNat DEF OutboxTypeOK

\* A step that sends nothing and starts no drain: what a row may cost rises by no more
\* than what is granted, or the row is new.
LEMMA UnpostedStep ==
    ASSUME PayInv, OutboxTypeOK', SendInv', got' = got,
           NEW more \in Nat, Granted' = Granted + more,
           \A k \in Drain : Running(k)' => job'[k] = job[k],
           \A e \in Entry : Created(e) => Created(e)',
           \A e \in Entry : \/ Left(row'[e]) <= Left(row[e]) + more
                            \/ ~Created(e) /\ Left(row'[e]) <= Granted',
           \A k \in Drain : Running(k)' /\ row'[job[k].entry].state # "absent" =>
               /\ row[job[k].entry].state # "absent"
               /\ row'[job[k].entry].attempts = row[job[k].entry].attempts
    PROVE  PayInv'
<1>0. OutboxTypeOK
  BY DEF PayInv, SendInv
<1>1. /\ Granted \in Nat
      /\ \A e \in Entry : Left(row[e]) \in Nat /\ Left(row'[e]) \in Nat
      /\ \A e \in Entry, t \in Target : got[e][t] \in Nat
  <2>1. \A e \in Entry : row'[e] \in Row
    BY DEF OutboxTypeOK
  <2> QED BY <1>0, <2>1, PayTypes, LeftIsNat
<1>2. Paid'
  <2> SUFFICES ASSUME NEW e \in Entry, NEW t \in Target
               PROVE  got[e][t] + Left(row'[e]) <= Granted'
    BY DEF Paid, Left, Granted
  <2>1. got[e][t] + Left(row[e]) <= Granted
    BY DEF PayInv, Paid
  <2>2. ~Created(e) => got[e][t] = 0
    BY DEF PayInv, UnsentBefore
  <2> HIDE DEF Granted, Created, Left
  <2> QED BY <1>1, <2>1, <2>2
<1>3. \A k \in Drain : Running(k)' =>
         /\ Running(k) /\ job'[k] = job[k] /\ job[k].entry \in Entry
         /\ Created(job[k].entry)
  <2>1. \A k \in Drain : Running(k)' => Running(k)
    BY DEF Running
  <2> QED BY <1>0, <2>1, HeldIsEntry DEF PayInv, SendInv, HeldAreCreated
<1>4. PaidAhead'
  <2> SUFFICES ASSUME NEW k \in Drain, NEW t \in Target, SendsTo(k, t)'
               PROVE  got[job'[k].entry][t] + Left(row'[job'[k].entry]) + 1 <= Granted'
    BY DEF PaidAhead, Left, Granted
  <2>1. /\ Running(k) /\ job'[k] = job[k] /\ job[k].entry \in Entry
        /\ Created(job[k].entry)
    BY <1>3 DEF SendsTo
  <2>2. SendsTo(k, t)
    BY <2>1 DEF SendsTo
  <2>3. got[job[k].entry][t] + Left(row[job[k].entry]) + 1 <= Granted
    BY <2>2 DEF PayInv, PaidAhead
  <2>4. Left(row'[job[k].entry]) <= Left(row[job[k].entry]) + more
    BY <2>1
  <2> HIDE DEF Granted, Created, Left
  <2> QED BY <1>1, <2>1, <2>3, <2>4
<1>5. AttemptsAgree'
  BY <1>3 DEF PayInv, AttemptsAgree
<1>6. UnsentBefore'
  BY DEF PayInv, UnsentBefore
<1> QED BY <1>2, <1>4, <1>5, <1>6 DEF PayInv

\* What most steps do to a row: nothing, or they write a new one, or delete it, or
\* leave it with no more than it had left.
LEMMA QuietPay ==
    ASSUME PayInv, OutboxTypeOK', SendInv', got' = got,
           UNCHANGED <<retries, restarts>>,
           \A k \in Drain : Running(k)' => job'[k] = job[k],
           \A e \in Entry : Created(e) => Created(e)',
           \A e \in Entry :
               \/ row'[e] = row[e]
               \/ ~Created(e)
               \/ row'[e].state = "absent"
               \/ /\ row[e].state # "absent" /\ Left(row'[e]) <= Left(row[e])
                  /\ row'[e].attempts = row[e].attempts
    PROVE  PayInv'
<1>0. OutboxTypeOK /\ retries \in Nat /\ restarts \in Nat
  BY Bounds DEF PayInv, SendInv, OutboxTypeOK
<1>1. Granted \in Nat /\ Granted >= AttemptLimit
  BY <1>0, GrantedIsNat DEF Granted
<1>2. 0 \in Nat /\ Granted' = Granted + 0
  <2>1. Granted' = Granted
    BY DEF Granted
  <2> HIDE DEF Granted
  <2> QED BY <1>1, <2>1
<1>3. \A e \in Entry : /\ Left(row[e]) \in Nat /\ Left(row'[e]) \in Nat
                       /\ Left(row'[e]) <= AttemptLimit
  <2>1. \A e \in Entry : row'[e] \in Row
    BY DEF OutboxTypeOK
  <2> QED BY <1>0, <2>1, PayTypes, LeftIsNat
<1>4. ASSUME NEW e \in Entry
      PROVE  \/ Left(row'[e]) <= Left(row[e]) + 0
             \/ ~Created(e) /\ Left(row'[e]) <= Granted'
  <2>1. row'[e].state = "absent" => Left(row'[e]) = 0
    BY DEF Left
  <2>2. AttemptLimit \in Nat
    BY OutboxAssumption
  <2>3. row'[e] = row[e] => Left(row'[e]) = Left(row[e])
    OBVIOUS
  <2>4. Left(row'[e]) <= Granted'
    <3> HIDE DEF Granted, Left
    <3> QED BY <1>1, <1>2, <1>3, <2>2
  <2> HIDE DEF Granted, Left, Created
  <2> QED BY <1>3, <2>1, <2>3, <2>4
<1>5. ASSUME NEW k \in Drain, Running(k)', row'[job[k].entry].state # "absent"
      PROVE  /\ row[job[k].entry].state # "absent"
             /\ row'[job[k].entry].attempts = row[job[k].entry].attempts
  <2>1. Running(k) /\ job[k].entry \in Entry /\ Created(job[k].entry)
    <3>1. Running(k)
      BY <1>5 DEF Running
    <3> QED BY <1>0, <3>1, HeldIsEntry DEF PayInv, SendInv, HeldAreCreated
  <2> QED BY <1>5, <2>1
<1> HIDE DEF Granted
<1> QED BY <1>2, <1>4, <1>5, UnpostedStep

LEMMA TriggersPay ==
    ASSUME PayInv, OutboxTypeOK', SendInv', NEW d \in Deployment,
           (\E config \in Configs : Enqueue(d, config)) \/ End(d) \/ Prune(d)
    PROVE  PayInv'
<1>0. /\ status \in [Deployment -> {"none", "queued", "ended", "pruned"}]
      /\ row \in [Entry -> Row] /\ lastId \in Nat /\ OutboxTypeOK
  BY DEF PayInv, SendInv, OutboxTypeOK
<1>1. got' = got /\ job' = job /\ UNCHANGED <<retries, restarts>>
  BY DEF Enqueue, End, Prune
<1>2. \A e \in Entry : Created(e) => Created(e)'
  BY <1>0, EntryParts DEF Enqueue, End, Prune, Created
<1>3. ASSUME NEW config \in Configs, Enqueue(d, config), NEW e \in Entry
      PROVE  row'[e] = row[e] \/ ~Created(e)
  <2> DEFINE new == <<d, "queued">>
  <2>1. new \in Entry /\ ~Created(new)
    BY <1>3, EntryParts DEF Enqueue, Created, Kind
  <2>2. row' = WithRow(row, new, config, lastId + 1)
    BY <1>3 DEF Enqueue
  <2> HIDE DEF new
  <2> QED BY <1>0, <2>1, <2>2, WithRowElsewhere
<1>4. ASSUME End(d), NEW e \in Entry PROVE row'[e] = row[e] \/ ~Created(e)
  <2> DEFINE report == <<d, "ended">>
             notice == <<d, "notice">>
             rows == WithRow(row, report, uses[d], lastId + 1)
  <2>1. report \in Entry /\ notice \in Entry
    BY EntryParts DEF Kind
  <2>2. ~Created(report) /\ ~Created(notice)
    BY <1>4 DEF End, Created
  <2>3. row' = WithRow(rows, notice, uses[d], lastId + 2)
    BY <1>4 DEF End
  <2>4. rows \in [Entry -> Row] /\ (e # report => rows[e] = row[e])
    BY <1>0, <2>1, NewRowTyped, WithRowElsewhere
  <2> HIDE DEF report, notice, rows
  <2> QED BY <2>1, <2>2, <2>3, <2>4, WithRowElsewhere
<1>5. ASSUME Prune(d), NEW e \in Entry PROVE row'[e] = row[e] \/ row'[e].state = "absent"
  BY <1>5 DEF Prune, Absent
<1> QED BY <1>1, <1>2, <1>3, <1>4, <1>5, QuietPay DEF Running

\* A claim moves one attempt from the row to the goroutine.
LEMMA ClaimPays ==
    ASSUME PayInv, OutboxTypeOK', SendInv', NEW k \in Drain, NEW e \in Entry, Claim(k, e)
    PROVE  PayInv'
<1>0. /\ row \in [Entry -> Row] /\ job \in [Drain -> Job] /\ OutboxTypeOK
      /\ row[e] \in Row /\ row[e].attempts \in Nat
  BY DEF PayInv, SendInv, OutboxTypeOK, Row
<1>1. /\ ~Running(k) /\ row[e].state = "pending" /\ got' = got
      /\ row' = [row EXCEPT ![e].state = "delivering", ![e].attempts = @ + 1]
      /\ job' = [job EXCEPT ![k] = [Free EXCEPT !.entry = e,
                                                !.attempts = row[e].attempts + 1]]
      /\ Granted' = Granted
      /\ \A f \in Entry : Created(f)' = Created(f)
  BY DEF Claim, IsDue, Granted, Created
<1>2. /\ row'[e].state = "delivering" /\ row'[e].attempts = row[e].attempts + 1
      /\ \A f \in Entry : f # e => row'[f] = row[f]
  <2>1. row' = [row EXCEPT ![e] = [row[e] EXCEPT !.state = "delivering",
                                                 !.attempts = row[e].attempts + 1]]
    BY <1>0, <1>1
  <2> QED BY <1>0, <2>1 DEF Row
<1>3. /\ job'[k].entry = e /\ job'[k].attempts = row[e].attempts + 1
      /\ \A l \in Drain : l # k => job'[l] = job[l]
  BY <1>0, <1>1 DEF Free
<1>4. \A l \in Drain : job[l].entry # e
  BY <1>1, EntryParts DEF PayInv, SendInv, OneSender, Running
<1>5. Left(row'[e]) + 1 = Left(row[e])
  <2>1. AttemptLimit \in Nat \ {0}
    BY OutboxAssumption
  <2> QED BY <1>0, <1>1, <1>2, <2>1 DEF Left
<1>6. /\ Granted \in Nat
      /\ \A f \in Entry : Left(row[f]) \in Nat /\ Left(row'[f]) \in Nat
      /\ \A f \in Entry, t \in Target : got[f][t] \in Nat
  <2>1. \A f \in Entry : row'[f] \in Row
    BY DEF OutboxTypeOK
  <2> QED BY <1>0, <2>1, PayTypes, LeftIsNat
<1>7. Paid'
  <2> SUFFICES ASSUME NEW f \in Entry, NEW t \in Target
               PROVE  got[f][t] + Left(row'[f]) <= Granted
    BY <1>1 DEF Paid, Left
  <2>1. got[f][t] + Left(row[f]) <= Granted
    BY DEF PayInv, Paid
  <2>2. CASE f = e
    <3> HIDE DEF Granted, Left
    <3> QED BY <1>5, <1>6, <2>1, <2>2
  <2>3. CASE f # e
    BY <1>2, <2>1, <2>3
  <2> QED BY <2>2, <2>3
<1>8. PaidAhead'
  <2> SUFFICES ASSUME NEW l \in Drain, NEW t \in Target, SendsTo(l, t)'
               PROVE  got[job'[l].entry][t] + Left(row'[job'[l].entry]) + 1 <= Granted
    BY <1>1 DEF PaidAhead, Left
  <2>1. CASE l = k
    <3>1. got[e][t] + Left(row[e]) <= Granted
      BY DEF PayInv, Paid
    <3>2. job'[l].entry = e
      BY <1>3, <2>1
    <3> HIDE DEF Granted, Left
    <3> QED BY <1>5, <1>6, <3>1, <3>2
  <2>2. CASE l # k
    <3>1. job'[l] = job[l] /\ SendsTo(l, t) /\ Running(l)
      BY <1>3, <2>2 DEF SendsTo, Running
    <3>2. job[l].entry \in Entry /\ row'[job[l].entry] = row[job[l].entry]
      BY <1>0, <1>2, <1>4, <3>1, HeldIsEntry
    <3> QED BY <3>1, <3>2 DEF PayInv, PaidAhead
  <2> QED BY <2>1, <2>2
<1>9. AttemptsAgree'
  <2> SUFFICES ASSUME NEW l \in Drain, Running(l)', row'[job'[l].entry].state # "absent"
               PROVE  row'[job'[l].entry].attempts = job'[l].attempts
    BY DEF AttemptsAgree
  <2>1. CASE l = k
    BY <1>2, <1>3, <2>1
  <2>2. CASE l # k
    <3>1. job'[l] = job[l] /\ Running(l)
      BY <1>3, <2>2 DEF Running
    <3>2. row'[job[l].entry] = row[job[l].entry]
      BY <1>0, <1>2, <1>4, <3>1, HeldIsEntry
    <3> QED BY <3>1, <3>2 DEF PayInv, AttemptsAgree
  <2> QED BY <2>1, <2>2
<1>10. UnsentBefore'
  BY <1>1 DEF PayInv, UnsentBefore
<1> QED BY <1>7, <1>8, <1>9, <1>10 DEF PayInv

\* A POST uses up what its goroutine had ahead of it at that target.
LEMMA PostPays ==
    ASSUME PayInv, OutboxTypeOK', SendInv', NEW k \in Drain, Post(k)
    PROVE  PayInv'
<1> DEFINE e == job[k].entry
           n == job[k].next
<1>0. /\ job \in [Drain -> Job] /\ job[k] \in Job /\ got \in [Entry -> [Target -> Nat]]
      /\ OutboxTypeOK
  BY DEF PayInv, SendInv, OutboxTypeOK
<1>1. /\ Running(k) /\ ~job[k].error /\ row' = row /\ Granted' = Granted
      /\ \A f \in Entry : Created(f)' = Created(f)
      /\ got' = got \/ got' = [got EXCEPT ![e][n] = @ + 1]
      /\ \/ job' = [job EXCEPT ![k].next = @ + 1]
         \/ job' = [job EXCEPT ![k].error = TRUE]
  BY DEF Post, Granted, Created
<1>2. e \in Entry /\ n \in Nat /\ Created(e)
  BY <1>0, <1>1, HeldIsEntry DEF Job, PayInv, SendInv, HeldAreCreated
<1>3. /\ \A l \in Drain : /\ job'[l].entry = job[l].entry
                          /\ job'[l].attempts = job[l].attempts
                          /\ l # k => job'[l] = job[l]
      /\ job'[k].error \/ job'[k].next = n + 1
  BY <1>0, <1>1 DEF Job
<1>4. \A l \in Drain : l # k /\ Running(l) => job[l].entry # e
  BY <1>1 DEF PayInv, SendInv, OneSender
<1>5. /\ Granted \in Nat
      /\ \A f \in Entry : Left(row[f]) \in Nat
      /\ \A f \in Entry, t \in Target : got[f][t] \in Nat
  BY <1>0, PayTypes
<1>6. \A t \in Target : n <= t => got[e][t] + Left(row[e]) + 1 <= Granted
  BY <1>1 DEF PayInv, PaidAhead, SendsTo
<1> HIDE DEF e, n
<1>7. ASSUME NEW f \in Entry, NEW t \in Target
      PROVE  \/ got'[f][t] = got[f][t]
             \/ f = e /\ t = n /\ got'[f][t] = got[f][t] + 1
  BY <1>0, <1>1, <1>2
<1>8. Paid'
  <2> SUFFICES ASSUME NEW f \in Entry, NEW t \in Target
               PROVE  got'[f][t] + Left(row[f]) <= Granted
    BY <1>1 DEF Paid, Left
  <2>1. got[f][t] + Left(row[f]) <= Granted
    BY DEF PayInv, Paid
  <2>2. f = e /\ t = n => got[f][t] + Left(row[f]) + 1 <= Granted
    <3>1. t = n => n <= t
      BY <1>2
    <3> QED BY <1>6, <3>1
  <2> HIDE DEF Granted, Left
  <2> QED BY <1>5, <1>7, <2>1, <2>2
<1>9. PaidAhead'
  <2> SUFFICES ASSUME NEW l \in Drain, NEW t \in Target, SendsTo(l, t)'
               PROVE  got'[job[l].entry][t] + Left(row[job[l].entry]) + 1 <= Granted
    BY <1>1, <1>3 DEF PaidAhead, Left
  <2>1. Running(l) /\ job[l].entry \in Entry
    BY <1>0, <1>3, HeldIsEntry DEF SendsTo, Running
  <2>2. CASE l = k
    <3>1. n + 1 <= t /\ t \in Nat
      BY <1>3, <2>2, OutboxAssumption DEF SendsTo, Target
    <3>2. n <= t /\ t # n
      BY <1>2, <3>1
    <3> QED BY <1>2, <1>6, <1>7, <2>2, <3>2 DEF e
  <2>3. CASE l # k
    <3>1. job'[l] = job[l] /\ SendsTo(l, t)
      BY <1>3, <2>1, <2>3 DEF SendsTo
    <3>2. got[job[l].entry][t] + Left(row[job[l].entry]) + 1 <= Granted
      BY <3>1 DEF PayInv, PaidAhead
    <3>3. got'[job[l].entry][t] = got[job[l].entry][t]
      BY <1>4, <1>7, <2>1, <2>3
    <3> QED BY <3>2, <3>3
  <2> QED BY <2>2, <2>3
<1>10. AttemptsAgree'
  BY <1>1, <1>3 DEF PayInv, AttemptsAgree, Running
<1>11. UnsentBefore'
  BY <1>1, <1>2, <1>7 DEF PayInv, UnsentBefore
<1> QED BY <1>8, <1>9, <1>10, <1>11 DEF PayInv

LEMMA RecordPays ==
    ASSUME PayInv, OutboxTypeOK', SendInv', NEW k \in Drain, Record(k)
    PROVE  PayInv'
<1> DEFINE e == job[k].entry
<1>0. /\ row \in [Entry -> Row] /\ job \in [Drain -> Job] /\ job[k] \in Job /\ OutboxTypeOK
  BY DEF PayInv, SendInv, OutboxTypeOK
<1>1. /\ Running(k) /\ e \in Entry /\ got' = got /\ UNCHANGED <<retries, restarts>>
      /\ \A f \in Entry : Created(f)' = Created(f)
  BY <1>0, HeldIsEntry DEF Record, Created
<1>2. \A l \in Drain : Running(l)' => job'[l] = job[l]
  BY <1>0 DEF Record, Running, Free
<1>3. \/ row' = row
      \/ row[e].state # "absent" /\ row' = Recorded(k)
  BY DEF Record
<1>4. ASSUME row[e].state # "absent", row' = Recorded(k)
      PROVE  /\ \A f \in Entry : f # e => row'[f] = row[f]
             /\ Left(row'[e]) <= Left(row[e]) /\ row'[e].attempts = row[e].attempts
  <2>1. /\ row[e].attempts = job[k].attempts /\ row[e] \in Row
        /\ row[e].attempts \in Nat /\ AttemptLimit \in Nat \ {0}
    BY <1>0, <1>1, <1>4, OutboxAssumption DEF PayInv, AttemptsAgree, Row
  <2>2. /\ \A f \in Entry : f # e => row'[f] = row[f]
        /\ row'[e].attempts = row[e].attempts
        /\ \/ row'[e].state = "delivered"
           \/ row'[e].state = "failed"
           \/ row'[e].state = "pending" /\ job[k].attempts < AttemptLimit
    BY <1>0, <1>1, <1>4, <2>1 DEF Recorded, GivesUp, Row
  <2> HIDE DEF e
  <2>3. Left(row'[e]) <= Left(row[e])
    BY <1>4, <2>1, <2>2 DEF Left
  <2> QED BY <2>2, <2>3
<1> HIDE DEF e
<1> QED BY <1>1, <1>2, <1>3, <1>4, QuietPay

LEMMA RetryPays ==
    ASSUME PayInv, OutboxTypeOK', SendInv', NEW e \in Entry, NEW k \in Waker, Retry(e, k)
    PROVE  PayInv'
<1>0. /\ row \in [Entry -> Row] /\ row[e] \in Row /\ OutboxTypeOK
      /\ retries \in Nat /\ restarts \in Nat /\ AttemptLimit \in Nat
  BY Bounds, OutboxAssumption DEF PayInv, SendInv, OutboxTypeOK
<1>1. /\ row[e].state = "failed" /\ got' = got /\ job' = job
      /\ retries' = retries + 1 /\ restarts' = restarts
      /\ \A f \in Entry : Created(f)' = Created(f)
      /\ \A f \in Entry : f # e => row'[f] = row[f]
  BY <1>0 DEF Retry, Created
<1>2. Granted' = Granted + AttemptLimit
  BY <1>0, <1>1, GrantedIsNat DEF Granted
<1>3. \A f \in Entry : /\ Left(row[f]) \in Nat /\ Left(row'[f]) \in Nat
                       /\ Left(row'[f]) <= AttemptLimit
  <2>1. \A f \in Entry : row'[f] \in Row
    BY DEF OutboxTypeOK
  <2> QED BY <1>0, <2>1, PayTypes, LeftIsNat
<1>4. \A f \in Entry : Left(row'[f]) <= Left(row[f]) + AttemptLimit
  <2> HIDE DEF Left
  <2> QED BY <1>0, <1>3
<1>5. \A l \in Drain : Running(l) => job[l].entry \in Entry /\ job[l].entry # e
  BY <1>0, <1>1, HeldIsEntry DEF PayInv, SendInv, OneSender
<1>6. \A l \in Drain : Running(l)' => job'[l] = job[l] /\ row'[job[l].entry] = row[job[l].entry]
  BY <1>1, <1>5 DEF Running
<1> HIDE DEF Granted, Left
<1> QED BY <1>0, <1>1, <1>2, <1>4, <1>6, UnpostedStep

LEMMA RestartPays ==
    ASSUME PayInv, OutboxTypeOK', SendInv', Restart
    PROVE  PayInv'
<1>0. /\ OutboxTypeOK /\ retries \in Nat /\ restarts \in Nat /\ AttemptLimit \in Nat \ {0}
      /\ \A e \in Entry : row[e] \in Row /\ row[e].attempts \in Nat
  BY Bounds, OutboxAssumption DEF PayInv, SendInv, OutboxTypeOK, Row
<1>1. /\ got' = got /\ retries' = retries /\ restarts' = restarts + 1
      /\ \A f \in Entry : Created(f)' = Created(f)
      /\ \A l \in Drain : ~Running(l)'
  BY DEF Restart, Created, Running, Free
<1>2. 1 \in Nat /\ Granted' = Granted + 1
  <2> DEFINE paid == AttemptLimit * (1 + retries)
  <2>1. paid + restarts \in Nat /\ paid \in Nat
    <3>1. AttemptLimit * (1 + retries) + 0 \in Nat /\ paid \in Int
      BY <1>0, GrantedIsNat
    <3> QED BY <1>0, <3>1, GrantedIsNat
  <2>2. Granted = paid + restarts /\ Granted' = paid + (restarts + 1)
    BY <1>1 DEF Granted
  <2> HIDE DEF paid
  <2> QED BY <1>0, <2>1, <2>2
<1>3. ASSUME NEW e \in Entry PROVE Left(row'[e]) <= Left(row[e]) + 1
  <2>1. /\ row'[e].attempts = row[e].attempts
        /\ \/ row'[e].state = row[e].state
           \/ row[e].state = "delivering" /\ row'[e].state = "pending"
    BY <1>0 DEF Restart, Requeued, Row
  <2> QED BY <1>0, <2>1 DEF Left
<1> HIDE DEF Granted, Left
<1> QED BY <1>1, <1>2, <1>3, UnpostedStep

LEMMA InitPaid == Init => PayInv
<1> SUFFICES ASSUME Init PROVE PayInv
  OBVIOUS
<1>1. OutboxTypeOK
  BY InitTyped
<1>2. /\ \A e \in Entry, t \in Target : got[e][t] = 0
      /\ \A e \in Entry : row[e].state = "absent"
      /\ \A k \in Drain : ~Running(k)
  BY DEF Init, Absent, Free, Running
<1>3. SendInv
  BY <1>1, <1>2 DEF SendInv, RowsAreCreated, HeldAreCreated, OneSender
<1>4. Paid
  <2>1. Granted \in Nat /\ \A e \in Entry : Left(row[e]) = 0
    BY <1>1, <1>2, PayTypes DEF Left
  <2> HIDE DEF Granted, Left
  <2> QED BY <1>2, <2>1 DEF Paid
<1> QED BY <1>2, <1>3, <1>4 DEF PayInv, PaidAhead, SendsTo, AttemptsAgree, UnsentBefore

LEMMA PayAlways == Spec => []PayInv
<1>1. PayInv /\ OutboxTypeOK' /\ SendInv' /\ [Next]_vars => PayInv'
  <2> SUFFICES ASSUME PayInv, OutboxTypeOK', SendInv', [Next]_vars PROVE PayInv'
    OBVIOUS
  <2>0. row \in [Entry -> Row] /\ \A e \in Entry : row[e] \in Row
    BY DEF PayInv, SendInv, OutboxTypeOK
  <2>1. ASSUME NEW k \in Drain, DrainStep(k) PROVE PayInv'
    <3>1. ASSUME Retire(k) PROVE PayInv'
      <4>1. /\ row' = row /\ job' = job /\ got' = got /\ UNCHANGED <<retries, restarts>>
            /\ \A e \in Entry : Created(e)' = Created(e)
        BY <3>1 DEF Retire, Created
      <4> QED BY <4>1, QuietPay
    <3> QED BY <2>1, <3>1, ClaimPays, PostPays, RecordPays DEF DrainStep
  <2>2. ASSUME NEW e \in Entry, BackoffPasses(e) PROVE PayInv'
    <3>1. /\ job' = job /\ got' = got /\ UNCHANGED <<retries, restarts>>
          /\ \A f \in Entry : Created(f)' = Created(f)
          /\ \A f \in Entry : f # e => row'[f] = row[f]
      BY <2>0, <2>2 DEF BackoffPasses, Created
    <3>2. /\ row[e].state # "absent"
          /\ row'[e].state = row[e].state /\ row'[e].attempts = row[e].attempts
      BY <2>0, <2>2 DEF BackoffPasses, Row
    <3>3. Left(row'[e]) = Left(row[e]) /\ Left(row[e]) \in Nat
      BY <2>0, <3>2, LeftIsNat DEF Left
    <3>4. Left(row'[e]) <= Left(row[e])
      <4> HIDE DEF Left
      <4> QED BY <3>3
    <3> HIDE DEF Left
    <3> QED BY <3>1, <3>2, <3>4, QuietPay
  <2>3. CASE Stop \/ UNCHANGED vars
    <3>1. /\ row' = row /\ job' = job /\ got' = got /\ UNCHANGED <<retries, restarts>>
          /\ \A e \in Entry : Created(e)' = Created(e)
      BY <2>3 DEF Stop, vars, Created
    <3> QED BY <3>1, QuietPay
  <2> QED BY <2>1, <2>2, <2>3, TriggersPay, RetryPays, RestartPays DEF Next
<1> QED BY <1>1, InitPaid, OutboxTyped, SendAlways, PTL DEF Spec

\* Every POST is paid for: however deliveries fail, are retried by the owner and taken
\* up again by a new process, no target receives an event more often than the limit
\* has been granted, and one time more for each end of the process.
THEOREM PostsPaidFor == Spec => []PostsArePaid
<1>1. PayInv => PostsArePaid
  <2> SUFFICES ASSUME PayInv, NEW e \in Entry, NEW t \in Target
               PROVE  got[e][t] <= Granted
    BY DEF PostsArePaid, Granted
  <2>1. OutboxTypeOK /\ got[e][t] + Left(row[e]) <= Granted
    BY DEF PayInv, SendInv, Paid
  <2>2. Granted \in Nat /\ Left(row[e]) \in Nat /\ got[e][t] \in Nat
    BY <2>1, PayTypes
  <2> HIDE DEF Granted, Left
  <2> QED BY <2>1, <2>2
<1> QED BY <1>1, PayAlways, PTL

-----------------------------------------------------------------------------
(* The outboxes implement the promise of module AtLeastOnce.  A goroutine    *)
(* whose row is gone knows that retention has taken it; one whose row is     *)
(* there holds as many attempts as the row does (AttemptsAgree), so what it  *)
(* gives up has had them all.                                                *)

LostArePruned ==
    \A k \in Drain : Running(k) /\ row[job[k].entry].state = "absent" =>
        status[job[k].entry[1]] = "pruned"

PromiseInv == SendInv /\ ReceiptInv /\ AttemptsAgree /\ LostArePruned

\* The rows that a trigger writes are new.
LEMMA TriggerRows ==
    ASSUME OutboxTypeOK, NEW d \in Deployment, (\E config \in Configs : Enqueue(d, config)) \/ End(d),
           NEW f \in Entry
    PROVE  \/ row'[f] = row[f]
           \/ /\ f[1] = d /\ ~Created(f)
              /\ row'[f].state = "pending" /\ row'[f].attempts = 0
<1>0. /\ row \in [Entry -> Row] /\ lastId \in Nat
      /\ \A id : NewRow(id).state = "pending" /\ NewRow(id).attempts = 0
      /\ \A kind \in Kind : <<d, kind>> \in Entry
  BY EntryParts DEF OutboxTypeOK, NewRow
<1>1. ASSUME NEW rows \in [Entry -> Row], NEW e \in Entry, NEW config, NEW id
      PROVE  \/ WithRow(rows, e, config, id)[f] = rows[f]
             \/ /\ f = e
                /\ WithRow(rows, e, config, id)[f].state = "pending"
                /\ WithRow(rows, e, config, id)[f].attempts = 0
  BY <1>0 DEF WithRow
<1>2. ASSUME NEW config \in Configs, Enqueue(d, config)
      PROVE  \/ row'[f] = row[f]
             \/ /\ f[1] = d /\ ~Created(f)
                /\ row'[f].state = "pending" /\ row'[f].attempts = 0
  <2> DEFINE new == <<d, "queued">>
  <2>1. new \in Entry /\ new[1] = d /\ ~Created(new)
    BY <1>0, <1>2 DEF Kind, Enqueue, Created
  <2>2. row' = WithRow(row, new, config, lastId + 1)
    BY <1>2 DEF Enqueue
  <2> HIDE DEF new
  <2> QED BY <1>0, <1>1, <2>1, <2>2
<1>3. ASSUME End(d)
      PROVE  \/ row'[f] = row[f]
             \/ /\ f[1] = d /\ ~Created(f)
                /\ row'[f].state = "pending" /\ row'[f].attempts = 0
  <2> DEFINE report == <<d, "ended">>
             notice == <<d, "notice">>
             rows == WithRow(row, report, uses[d], lastId + 1)
  <2>1. /\ report \in Entry /\ report[1] = d /\ ~Created(report)
        /\ notice \in Entry /\ notice[1] = d /\ ~Created(notice)
    BY <1>0, <1>3 DEF Kind, End, Created
  <2>2. row' = WithRow(rows, notice, uses[d], lastId + 2)
    BY <1>3 DEF End
  <2> HIDE DEF report, notice
  <2>3. rows \in [Entry -> Row]
    BY <1>0, <2>1, NewRowTyped
  <2>4. rows[f] = row[f] \/ (f = report /\ rows[f].state = "pending" /\ rows[f].attempts = 0)
    BY <1>0, <1>1, <2>1
  <2> HIDE DEF rows
  <2>5. \/ row'[f] = rows[f]
        \/ f = notice /\ row'[f].state = "pending" /\ row'[f].attempts = 0
    BY <1>1, <2>1, <2>2, <2>3
  <2> QED BY <2>1, <2>4, <2>5
<1>4. CASE \E config \in Configs : Enqueue(d, config)
  <2>1. PICK config \in Configs : Enqueue(d, config)
    BY <1>4
  <2> QED BY <1>2, <2>1
<1> QED BY <1>3, <1>4

LEMMA OnlyPruningRemoves ==
    ASSUME OutboxTypeOK, [Next]_vars, NEW f \in Entry, row'[f].state = "absent"
    PROVE  row[f].state = "absent" \/ status'[f[1]] = "pruned"
<1>0. /\ row \in [Entry -> Row] /\ job \in [Drain -> Job] /\ row[f] \in Row
      /\ \A e \in Entry : row[e] \in Row
      /\ status \in [Deployment -> {"none", "queued", "ended", "pruned"}]
  BY DEF OutboxTypeOK
<1>1. ASSUME NEW d \in Deployment, (\E config \in Configs : Enqueue(d, config)) \/ End(d)
      PROVE  row[f].state = "absent"
  BY <1>1, TriggerRows
<1>2. ASSUME NEW d \in Deployment, Prune(d)
      PROVE  row[f].state = "absent" \/ status'[f[1]] = "pruned"
  BY <1>0, <1>2 DEF Prune
<1>3. ASSUME NEW k \in Drain, NEW e \in Entry, Claim(k, e) PROVE row[f].state = "absent"
  BY <1>0, <1>3 DEF Claim, Row
<1>4. ASSUME NEW k \in Drain, Record(k) PROVE row[f].state = "absent"
  <2>1. job[k].entry \in Entry
    BY <1>4, HeldIsEntry DEF Record
  <2> QED BY <1>0, <1>4, <2>1 DEF Record, Recorded, Row
<1>5. ASSUME NEW e \in Entry, BackoffPasses(e) \/ \E k \in Waker : Retry(e, k)
      PROVE  row[f].state = "absent"
  BY <1>0, <1>5 DEF BackoffPasses, Retry, Row
<1>6. ASSUME Restart PROVE row[f].state = "absent"
  BY <1>0, <1>6 DEF Restart, Requeued, Row
<1>7. CASE UNCHANGED row
  BY <1>7
<1> QED BY <1>1, <1>2, <1>3, <1>4, <1>5, <1>6, <1>7
        DEF Next, DrainStep, Post, Retire, Stop, vars

LEMMA LostStep ==
    ASSUME PromiseInv, OutboxTypeOK', [Next]_vars
    PROVE  LostArePruned'
<1>0. /\ OutboxTypeOK /\ row \in [Entry -> Row] /\ job \in [Drain -> Job]
      /\ \A e \in Entry : row[e] \in Row /\ e[1] \in Deployment
      /\ status \in [Deployment -> {"none", "queued", "ended", "pruned"}]
  BY EntryParts DEF PromiseInv, SendInv, OutboxTypeOK
<1>1. \A d \in Deployment : status[d] = "pruned" => status'[d] = "pruned"
  BY <1>0 DEF Next, Enqueue, End, Prune, DrainStep, Claim, Post, Record, Retire,
              BackoffPasses, Retry, Stop, Restart, vars
<1>2. ASSUME NEW k \in Drain, Running(k)'
      PROVE  \/ job'[k].entry = job[k].entry
             \/ row'[job'[k].entry].state # "absent"
  <2>1. ASSUME NEW l \in Drain, NEW e \in Entry, Claim(l, e)
        PROVE  \/ job'[k].entry = job[k].entry
               \/ row'[job'[k].entry].state # "absent"
    <3>1. row'[e].state = "delivering"
      BY <1>0, <2>1 DEF Claim, Row
    <3>2. job'[l].entry = e /\ (k # l => job'[k] = job[k])
      BY <1>0, <2>1 DEF Claim, Free
    <3> QED BY <3>1, <3>2
  <2>2. ASSUME NEW l \in Drain, Post(l) PROVE job'[k].entry = job[k].entry
    BY <1>0, <2>2 DEF Post, Job
  <2>3. ASSUME NEW l \in Drain, Record(l) PROVE job'[k].entry = job[k].entry
    <3>1. job' = [job EXCEPT ![l] = Free]
      BY <2>3 DEF Record
    <3> QED BY <1>0, <1>2, <3>1 DEF Running, Free
  <2>4. CASE Restart
    BY <1>2, <2>4 DEF Restart, Running, Free
  <2>5. CASE UNCHANGED job
    BY <2>5
  <2> QED BY <2>1, <2>2, <2>3, <2>4, <2>5
          DEF Next, Enqueue, End, Prune, DrainStep, Retire, BackoffPasses, Retry, Stop, vars
<1>3. SUFFICES ASSUME NEW k \in Drain, Running(k)', row'[job'[k].entry].state = "absent"
               PROVE  status'[job'[k].entry[1]] = "pruned"
  BY DEF LostArePruned
<1>4. job'[k].entry = job[k].entry /\ Running(k)
  BY <1>2, <1>3 DEF Running
<1>5. job[k].entry \in Entry
  BY <1>0, <1>4, HeldIsEntry
<1>6. CASE row[job[k].entry].state = "absent"
  BY <1>0, <1>1, <1>4, <1>5, <1>6 DEF PromiseInv, LostArePruned
<1>7. CASE row[job[k].entry].state # "absent"
  BY <1>0, <1>3, <1>4, <1>5, <1>7, OnlyPruningRemoves
<1> QED BY <1>6, <1>7

LEMMA SamePhases ==
    ASSUME \A e \in Entry : PhaseOf(e)' = PhaseOf(e), got' = got, retries' = retries,
           \A e \in Entry : row'[e].attempts = row[e].attempts
    PROVE  UNCHANGED Promise!vars
BY DEF Promise!vars

LEMMA TriggersPromise ==
    ASSUME PromiseInv, OutboxTypeOK', NEW d \in Deployment,
           (\E config \in Configs : Enqueue(d, config)) \/ End(d) \/ Prune(d)
    PROVE  Promise!Next
<1>0. /\ OutboxTypeOK /\ \A e \in Entry : row[e].state \in RowState /\ e[1] \in Deployment
      /\ status \in [Deployment -> {"none", "queued", "ended", "pruned"}]
      /\ got' = got /\ retries' = retries
  BY EntryParts DEF PromiseInv, SendInv, OutboxTypeOK, Row, Enqueue, End, Prune
<1>1. CASE Prune(d)
  <2> DEFINE S == {e \in Entry : e[1] = d}
  <2>1. /\ status' = [status EXCEPT ![d] = "pruned"]
        /\ row' = [e \in Entry |-> IF e[1] = d THEN Absent ELSE row[e]]
    BY <1>1 DEF Prune
  <2>2. ASSUME NEW e \in S PROVE PhaseOf(e)' = "withdrawn"
    <3>1. row'[e].state = "absent" /\ status'[e[1]] = "pruned"
      BY <1>0, <2>1 DEF Absent
    <3> QED BY <3>1 DEF PhaseOf
  <2>3. ASSUME NEW e \in Entry, e \notin S PROVE PhaseOf(e)' = PhaseOf(e)
    <3>1. row'[e] = row[e] /\ status'[e[1]] = status[e[1]]
      BY <1>0, <2>1, <2>3
    <3> QED BY <3>1 DEF PhaseOf
  <2>4. \A e \in Entry : row'[e].attempts = IF e \in S THEN 0 ELSE row[e].attempts
    BY <2>1 DEF Absent
  <2>5. Promise!Withdraw(S)
    BY <1>0, <2>2, <2>3, <2>4 DEF Promise!Withdraw
  <2> QED BY <2>5 DEF Promise!Next
<1>2. CASE (\E config \in Configs : Enqueue(d, config)) \/ End(d)
  <2>0. PICK S \in SUBSET Entry : S = {e \in Entry : row'[e] # row[e]}
    OBVIOUS
  <2>1. /\ status[d] \in {"none", "queued"} /\ status'[d] \in {"queued", "ended"}
        /\ \A c \in Deployment : c # d => status'[c] = status[c]
    BY <1>0, <1>2 DEF Enqueue, End
  <2>2. ASSUME NEW e \in S PROVE PhaseOf(e) = "none" /\ PhaseOf(e)' = "owed"
    <3>1. e[1] = d /\ ~Created(e) /\ row'[e].state = "pending"
      BY <1>0, <1>2, <2>0, TriggerRows
    <3>2. row[e].state = "absent" /\ status[e[1]] # "pruned"
      BY <1>0, <2>1, <3>1 DEF PromiseInv, SendInv, RowsAreCreated
    <3> QED BY <3>1, <3>2 DEF PhaseOf
  <2>3. ASSUME NEW e \in Entry, e \notin S PROVE PhaseOf(e)' = PhaseOf(e)
    <3>1. row'[e] = row[e] /\ ((status'[e[1]] = "pruned") <=> (status[e[1]] = "pruned"))
      BY <1>0, <2>0, <2>1, <2>3
    <3> QED BY <3>1 DEF PhaseOf
  <2>4. \A e \in Entry : row'[e].attempts = IF e \in S THEN 0 ELSE row[e].attempts
    <3>1. \A e \in S : row'[e].attempts = 0
      BY <1>0, <1>2, <2>0, TriggerRows
    <3> QED BY <2>0, <3>1
  <2>5. Promise!Accept(S)
    BY <1>0, <2>2, <2>3, <2>4 DEF Promise!Accept
  <2> QED BY <2>5 DEF Promise!Next
<1> QED BY <1>1, <1>2

LEMMA PostPromise ==
    ASSUME PromiseInv, NEW k \in Drain, Post(k)
    PROVE  [Promise!Next]_(Promise!vars)
<1> DEFINE e == job[k].entry
           n == job[k].next
<1>1. /\ Running(k) /\ e \in Entry /\ n \in Nat /\ row' = row /\ status' = status
      /\ retries' = retries /\ got \in [Entry -> [Target -> Nat]]
  BY HeldIsEntry DEF Post, PromiseInv, SendInv, OutboxTypeOK, Job
<1>2. \A f \in Entry : PhaseOf(f)' = PhaseOf(f)
  BY <1>1 DEF PhaseOf
<1>3. CASE got' = got
  BY <1>1, <1>2, <1>3, SamePhases
<1>4. CASE got' = [got EXCEPT ![e][n] = @ + 1] /\ n \in Target
  <2>1. PhaseOf(e) \in {"owed", "withdrawn"}
    <3>1. /\ row[e].state \in {"delivering", "absent"}
          /\ row[e].state = "absent" => status[e[1]] = "pruned"
      BY <1>1 DEF PromiseInv, SendInv, OneSender, LostArePruned
    <3> HIDE DEF e
    <3> QED BY <3>1 DEF PhaseOf
  <2> HIDE DEF e, n
  <2>2. Promise!Serve(e, n)
    BY <1>1, <1>2, <1>4, <2>1 DEF Promise!Serve
  <2> QED BY <1>1, <1>4, <2>2 DEF Promise!Next
<1>5. CASE got' = [got EXCEPT ![e][n] = @ + 1] /\ n \notin Target
  <2> HIDE DEF e, n
  <2>1. [got[e] EXCEPT ![n] = got[e][n] + 1] = got[e]
    BY <1>1, <1>5
  <2>2. got' = got
    BY <1>1, <1>5, <2>1
  <2> QED BY <1>1, <1>2, <2>2, SamePhases
<1> QED BY <1>3, <1>4, <1>5 DEF Post

LEMMA RecordPromise ==
    ASSUME PromiseInv, ReceiptInv', NEW k \in Drain, Record(k)
    PROVE  [Promise!Next]_(Promise!vars)
<1>0. PICK e \in Entry : e = job[k].entry
  BY HeldIsEntry DEF Record, PromiseInv, SendInv
<1>1. /\ Running(k) /\ status' = status /\ got' = got /\ retries' = retries
      /\ row \in [Entry -> Row] /\ row[e] \in Row
      /\ row[e].state \in {"delivering", "absent"}
  BY <1>0 DEF Record, PromiseInv, SendInv, OutboxTypeOK, OneSender
<1>2. CASE row' = row
  <2>1. \A f \in Entry : PhaseOf(f)' = PhaseOf(f)
    BY <1>1, <1>2 DEF PhaseOf
  <2> QED BY <1>1, <1>2, <2>1, SamePhases
<1>3. CASE row[e].state # "absent" /\ row' = Recorded(k)
  <2>1. /\ \A f \in Entry : f # e => row'[f] = row[f]
        /\ row'[e].state \in {"delivered", "failed", "pending"}
    BY <1>0, <1>1, <1>3 DEF Recorded, Row
  <2>6. \A f \in Entry : row'[f].attempts = row[f].attempts
    <3>1. row'[e].attempts = row[e].attempts
      BY <1>0, <1>1, <1>3 DEF Recorded, Row
    <3> QED BY <2>1, <3>1
  <2>7. row'[e].state = "failed" => row[e].attempts >= AttemptLimit
    <3>1. row'[e].state = "failed" => GivesUp(job[k].attempts)
      BY <1>0, <1>1, <1>3 DEF Recorded, Row
    <3>2. row[e].attempts = job[k].attempts
      BY <1>0, <1>1, <1>3 DEF PromiseInv, AttemptsAgree
    <3> QED BY <3>1, <3>2 DEF GivesUp
  <2>2. PhaseOf(e) = "owed" /\ \A f \in Entry : f # e => PhaseOf(f)' = PhaseOf(f)
    BY <1>1, <1>3, <2>1 DEF PhaseOf
  <2>3. CASE row'[e].state = "delivered"
    <3>1. PhaseOf(e)' = "kept"
      BY <2>3 DEF PhaseOf
    <3>2. \A t \in 1..TargetCount(e) : got[e][t] > 0
      BY <1>1, <2>3 DEF ReceiptInv, DeliveredWasReceived
    <3>3. Promise!Keep(e)
      BY <1>1, <2>2, <2>6, <3>1, <3>2 DEF Promise!Keep
    <3> QED BY <1>1, <3>3 DEF Promise!Next
  <2>4. CASE row'[e].state = "failed"
    <3>1. PhaseOf(e)' = "given_up"
      BY <2>4 DEF PhaseOf
    <3>2. Promise!GiveUp(e)
      BY <1>1, <2>2, <2>4, <2>6, <2>7, <3>1 DEF Promise!GiveUp
    <3> QED BY <1>1, <3>2 DEF Promise!Next
  <2>5. CASE row'[e].state = "pending"
    <3>1. PhaseOf(e)' = "owed"
      BY <2>5 DEF PhaseOf
    <3> QED BY <1>1, <2>2, <2>6, <3>1, SamePhases
  <2> QED BY <2>1, <2>3, <2>4, <2>5
<1> QED BY <1>0, <1>2, <1>3 DEF Record

LEMMA PromiseStep ==
    ASSUME PromiseInv, PromiseInv', OutboxTypeOK', [Next]_vars
    PROVE  [Promise!Next]_(Promise!vars)
<1>0. /\ row \in [Entry -> Row] /\ \A e \in Entry : row[e] \in Row
  BY DEF PromiseInv, SendInv, OutboxTypeOK
<1>1. ASSUME status' = status, got' = got, retries' = retries,
             \A e \in Entry : row'[e].attempts = row[e].attempts,
             \A e \in Entry : \/ row'[e].state = row[e].state
                              \/ {row[e].state, row'[e].state} \subseteq {"pending", "delivering"}
      PROVE  [Promise!Next]_(Promise!vars)
  <2>1. \A e \in Entry : PhaseOf(e)' = PhaseOf(e)
    BY <1>1 DEF PhaseOf
  <2> QED BY <1>1, <2>1, SamePhases
<1>2. ASSUME NEW k \in Drain, NEW e \in Entry, Claim(k, e)
      PROVE  [Promise!Next]_(Promise!vars)
  <2>1. /\ row[e].state = "pending" /\ row'[e].state = "delivering"
        /\ row'[e].attempts = row[e].attempts + 1
        /\ \A f \in Entry : f # e => row'[f] = row[f]
        /\ status' = status /\ got' = got /\ retries' = retries
    BY <1>0, <1>2 DEF Claim, IsDue, Row
  <2>2. PhaseOf(e) = "owed" /\ \A f \in Entry : PhaseOf(f)' = PhaseOf(f)
    BY <2>1 DEF PhaseOf
  <2>3. Promise!Try(e)
    BY <2>1, <2>2 DEF Promise!Try
  <2> QED BY <2>3 DEF Promise!Next
<1>3. ASSUME NEW e \in Entry, BackoffPasses(e)
      PROVE  [Promise!Next]_(Promise!vars)
  <2>1. \A f \in Entry : row'[f].state = row[f].state /\ row'[f].attempts = row[f].attempts
    BY <1>0, <1>3 DEF BackoffPasses, Row
  <2> QED BY <1>1, <1>3, <2>1 DEF BackoffPasses
<1>4. ASSUME NEW e \in Entry, NEW k \in Waker, Retry(e, k)
      PROVE  [Promise!Next]_(Promise!vars)
  <2>1. /\ row[e].state = "failed" /\ row'[e].state = "pending"
        /\ \A f \in Entry : f # e => row'[f] = row[f]
        /\ row'[e].attempts = 0 /\ retries' = retries + 1
        /\ status' = status /\ got' = got
    BY <1>0, <1>4 DEF Retry, Row
  <2>2. /\ PhaseOf(e) = "given_up" /\ PhaseOf(e)' = "owed"
        /\ \A f \in Entry : f # e => PhaseOf(f)' = PhaseOf(f)
    BY <2>1 DEF PhaseOf
  <2>3. Promise!Renew(e)
    BY <2>1, <2>2 DEF Promise!Renew
  <2> QED BY <2>3 DEF Promise!Next
<1>5. CASE Restart
  <2>1. \A f \in Entry : \/ row'[f].state = row[f].state
                         \/ {row[f].state, row'[f].state} \subseteq {"pending", "delivering"}
    BY <1>0, <1>5 DEF Restart, Requeued, Row
  <2>2. \A f \in Entry : row'[f].attempts = row[f].attempts
    BY <1>0, <1>5 DEF Restart, Row
  <2> QED BY <1>1, <1>5, <2>1, <2>2 DEF Restart
<1>6. CASE Stop \/ UNCHANGED vars \/ \E k \in Drain : Retire(k)
  BY <1>1, <1>6 DEF Stop, vars, Retire
<1>7. CASE \E k \in Drain : Post(k) \/ Record(k)
  BY <1>7, PostPromise, RecordPromise DEF PromiseInv
<1>8. CASE \E d \in Deployment : (\E config \in Configs : Enqueue(d, config)) \/ End(d) \/ Prune(d)
  BY <1>8, TriggersPromise
<1> QED BY <1>2, <1>3, <1>4, <1>5, <1>6, <1>7, <1>8 DEF Next, DrainStep

\* A delivery is called delivered only after each of its channels received it, and is
\* not sent again then; it fails only when it has had all the attempts of the limit
\* since it was written or the owner last asked for it, and only the owner's retry
\* brings it back: for any limit and any number of channels, goroutines and restarts.
THEOREM OutboxKeepsPromise == Spec => ImplementsPromise
<1>1. Init => Promise!Init /\ LostArePruned
  <2> SUFFICES ASSUME Init PROVE Promise!Init /\ LostArePruned
    OBVIOUS
  <2>1. \A e \in Entry : PhaseOf(e) = "none"
    BY EntryParts DEF Init, PhaseOf, Absent
  <2> QED BY <2>1 DEF Init, Promise!Init, LostArePruned, Running, Free, Absent
<1>2. Spec => [](SendInv /\ ReceiptInv /\ AttemptsAgree /\ OutboxTypeOK)
  <2>1. PayInv => AttemptsAgree
    BY DEF PayInv
  <2> QED BY <2>1, SendAlways, ReceiptsAlways, PayAlways, OutboxTyped, PTL
<1>3. PromiseInv /\ OutboxTypeOK' /\ [Next]_vars => LostArePruned'
  BY LostStep
<1>4. PromiseInv /\ PromiseInv' /\ OutboxTypeOK' /\ [Next]_vars => [Promise!Next]_(Promise!vars)
  BY PromiseStep
<1> QED BY <1>1, <1>2, <1>3, <1>4, PTL DEF Spec, PromiseInv, ImplementsPromise, Promise!Spec
=============================================================================
