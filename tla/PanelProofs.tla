----------------------------- MODULE PanelProofs -----------------------------
(***************************************************************************)
(* For every panel, any number of writes and any bounds: a query keeps its *)
(* type, and what it shows never goes back.  The second needs to know that *)
(* an answer on its way is at least as new as the data, and no newer than  *)
(* the resource.                                                           *)
(***************************************************************************)
EXTENDS Panels, TLAPS

\* The answer that will count is not older than the data, and the resource is not
\* older than either.
AnswerIsNewer ==
    /\ data # NoData => data.n <= resource.n
    /\ fetch.at = "answered" =>
          /\ fetch.answer \in Snapshot
          /\ fetch.answer.n <= resource.n
          /\ data # NoData => data.n <= fetch.answer.n

PanelInv == PanelsTypeOK /\ AnswerIsNewer

-----------------------------------------------------------------------------
\* A query is never retried more than once.
LEMMA RetryBound == \A p \in Panels : p.retry \in 0..1
BY DEF Panels, DashboardPage, ProjectListPage, EditorPage, ProjectPage, ApplicationPage,
       ArtifactPage, DeploymentPage, SettingsPage, Panel, DefaultRetry

LEMMA NoDataIsNone == NoData \notin Snapshot
<1>1. Snapshot \subseteq [n : Nat, ended : BOOLEAN]
  BY PanelsAssumption DEF Snapshot
<1> QED BY <1>1, PanelsAssumption

LEMMA FetchRecords == Idle \in Fetch /\ Fresh \in Fetch
BY DEF Idle, Fresh, Fetch

LEMMA WriteRecords == NoWrite \in WriteState
<1>1. 0 \in 0..MaxChanges /\ {} \in SUBSET {"settings", "secrets", "derived"}
  BY PanelsAssumption
<1> QED BY <1>1 DEF NoWrite, WriteState

\* The bounded counters.
LEMMA Moved == ASSUME moves \in 0..MaxMoves, CanMove PROVE moves' \in 0..MaxMoves
BY PanelsAssumption DEF CanMove

\* What joining and refreshing make of a fetch.
LEMMA JoinTyped ==
    ASSUME PanelsTypeOK, Join
    PROVE  fetch' \in Fetch /\ fetch'.retried <= panel.retry /\ stray' = stray
<1>1. panel.retry \in 0..1 /\ fetch.retried <= panel.retry /\ fetch \in Fetch
  BY RetryBound DEF PanelsTypeOK
<1>2. fetch' = fetch \/ fetch' = Fresh
  BY DEF Join
<1>3. Fresh.retried = 0
  BY DEF Fresh
<1> QED BY <1>1, <1>2, <1>3, FetchRecords DEF Join

LEMMA RefreshTyped ==
    ASSUME PanelsTypeOK, Refresh
    PROVE  fetch' \in Fetch /\ fetch'.retried <= panel.retry /\ stray' \in Fetch
<1>1. panel.retry \in 0..1 /\ stray \in Fetch /\ fetch \in Fetch
  BY RetryBound DEF PanelsTypeOK
<1>2. Fresh.retried = 0
  BY DEF Fresh
<1>3. CASE Join
  BY <1>1, <1>3, JoinTyped
<1>4. CASE fetch' = Fresh /\ stray' = fetch
  BY <1>1, <1>2, <1>4, FetchRecords
<1> QED BY <1>3, <1>4 DEF Refresh

\* Neither puts an answer into a fetch.
LEMMA NoNewAnswer ==
    ASSUME Join \/ Refresh
    PROVE  fetch' = fetch \/ fetch'.at = "asked"
BY DEF Join, Refresh, Fresh

\* The steps of a query keep its type.
LEMMA QueryTyped ==
    ASSUME PanelsTypeOK, QueryStep
    PROVE  PanelsTypeOK'
<1> USE PanelsAssumption DEF PanelsTypeOK
<1>0. panel.retry \in 0..1
  BY RetryBound
<1>1. CASE Tick
  BY <1>1, JoinTyped DEF Tick, screen
<1>2. CASE Answer
  <2>1. [fetch EXCEPT !.at = "answered", !.answer = resource] \in Fetch
    BY DEF Fetch
  <2>2. [fetch EXCEPT !.at = "answered", !.answer = resource].retried = fetch.retried
    BY DEF Fetch
  <2> QED BY <1>2, <2>1, <2>2 DEF Answer, screen
<1>3. CASE Break
  <2>1. [fetch EXCEPT !.at = "broken", !.answer = NoData] \in Fetch
    BY DEF Fetch
  <2>2. [fetch EXCEPT !.at = "broken", !.answer = NoData].retried = fetch.retried
    BY DEF Fetch
  <2>3. faults' \in 0..MaxFaults
    BY <1>3 DEF Break, CanFail
  <2> QED BY <1>3, <2>1, <2>2, <2>3 DEF Break, screen
<1>4. CASE Arrive
  <2>1. data' \in Snapshot \cup {NoData}
    BY <1>4 DEF Arrive, Fetch
  <2>2. form' \in SUBSET {"settings", "secrets", "derived"}
    BY <1>4 DEF Arrive, Filled, LoadedFields, ProjectFields
  <2>3. fetch' = Idle /\ Idle.retried = 0
    BY <1>4 DEF Arrive, Idle
  <2> QED BY <1>0, <1>4, <2>1, <2>2, <2>3, FetchRecords DEF Arrive
<1>5. CASE ArriveBroken
  <2>1. CASE MayRetry
    <3>1. fetch.retried \in 0..1 /\ fetch.retried + 1 <= panel.retry
      BY <1>0, <2>1 DEF MayRetry, Fetch
    <3>4. fetch.retried + 1 \in 0..1
      BY <1>0, <3>1
    <3>2. [fetch EXCEPT !.at = "waiting", !.retried = @ + 1] \in Fetch
      BY <3>4 DEF Fetch
    <3>3. [fetch EXCEPT !.at = "waiting", !.retried = @ + 1].retried = fetch.retried + 1
      BY DEF Fetch
    <3> QED BY <1>5, <2>1, <3>1, <3>2, <3>3 DEF ArriveBroken, screen
  <2>2. CASE ~MayRetry
    <3>1. fetch' = Idle /\ Idle.retried = 0
      BY <1>5, <2>2 DEF ArriveBroken, Idle
    <3>2. fetch' \in Fetch /\ fetch'.retried <= panel.retry
      BY <1>0, <3>1, FetchRecords
    <3> QED BY <1>5, <3>2 DEF ArriveBroken, screen
  <2> QED BY <2>1, <2>2
<1>6. CASE RetryFetch
  <2>1. [fetch EXCEPT !.at = "asked"] \in Fetch
    BY DEF Fetch
  <2>2. [fetch EXCEPT !.at = "asked"].retried = fetch.retried /\ Idle.retried = 0
    BY DEF Fetch, Idle
  <2> QED BY <1>0, <1>6, <2>1, <2>2, FetchRecords DEF RetryFetch, screen
<1>7. CASE StrayIsAnswered
  <2>1. [stray EXCEPT !.at = "answered", !.answer = resource] \in Fetch
    BY DEF Fetch
  <2> QED BY <1>7, <2>1 DEF StrayIsAnswered, screen
<1>8. CASE StrayArrives
  BY <1>8, FetchRecords DEF StrayArrives, AfterStray, screen
<1> QED BY <1>1, <1>2, <1>3, <1>4, <1>5, <1>6, <1>7, <1>8 DEF QueryStep
\* So do those of a user, and what changes the resource.
LEMMA UserTyped ==
    ASSUME PanelsTypeOK, User
    PROVE  PanelsTypeOK'
<1> USE PanelsAssumption DEF PanelsTypeOK
<1>0. panel.retry \in 0..1 /\ Idle.retried = 0 /\ Idle.retried <= panel.retry
  BY RetryBound DEF Idle
<1>a. {} \in SUBSET {"settings", "secrets", "derived"}
  OBVIOUS
<1>1. CASE Open
  <2>1. form' \in SUBSET {"settings", "secrets", "derived"}
    BY <1>1 DEF Open, BlankFields, LoadedFields, ProjectFields
  <2>2. fetch' \in Fetch /\ fetch'.retried <= panel.retry /\ stray' = stray
    BY <1>1, JoinTyped DEF Open
  <2> QED BY <1>1, <2>1, <2>2 DEF Open
<1>2. CASE Leave
  <2>1. moves' \in 0..MaxMoves
    BY <1>2, Moved DEF Leave
  <2> QED BY <1>2, <1>a, <2>1 DEF Leave, query
<1>3. CASE Collect
  BY <1>3 DEF Collect, screen
<1>4. CASE Reload
  <2>1. NoWrite \in WriteState /\ [NoWrite EXCEPT !.at = "done"] \in WriteState
    BY WriteRecords DEF WriteState
  <2>2. write' \in [Write -> WriteState]
    BY <1>4, <2>1 DEF Reload
  <2>3. moves' \in 0..MaxMoves
    BY <1>4, Moved DEF Reload
  <2>4. fetch' = Idle /\ stray' = Idle /\ form' = {} /\ data' = NoData /\ mounted' = FALSE
    BY <1>4 DEF Reload
  <2>5. fetch' \in Fetch /\ stray' \in Fetch /\ fetch'.retried <= panel.retry
    BY <1>0, <2>4, FetchRecords
  <2> QED BY <1>4, <1>a, <2>2, <2>3, <2>4, <2>5 DEF Reload
<1>5. CASE Hide
  <2>1. moves' \in 0..MaxMoves
    BY <1>5, Moved DEF Hide
  <2> QED BY <1>5, <2>1 DEF Hide, query
<1>6. CASE Show
  BY <1>6 DEF Show, query
<1> QED BY <1>1, <1>2, <1>3, <1>4, <1>5, <1>6 DEF User

LEMMA ChangedTyped ==
    ASSUME PanelsTypeOK, resource.n < MaxChanges, NEW ends \in MayEnd
    PROVE  Changed(resource, ends) \in Snapshot /\ Changed(resource, ends).n = resource.n + 1
<1>1. resource.n \in 0..MaxChanges /\ resource.ended \in BOOLEAN /\ ends \in BOOLEAN
  BY DEF PanelsTypeOK, Snapshot, MayEnd
<1>2. resource.n + 1 \in 0..MaxChanges
  BY <1>1, PanelsAssumption
<1> QED BY <1>1, <1>2 DEF Changed, Snapshot

LEMMA WriteTyped ==
    ASSUME PanelsTypeOK, NEW w \in Write, WriteStep(w)
    PROVE  PanelsTypeOK'
<1> USE PanelsAssumption DEF PanelsTypeOK
<1>0. write[w] \in WriteState
  OBVIOUS
<1>1. CASE Submit(w)
  <2>1. [NoWrite EXCEPT !.at = "sent", !.fields = form] \in WriteState
    BY WriteRecords DEF WriteState
  <2>2. write' \in [Write -> WriteState]
    BY <1>1, <2>1 DEF Submit
  <2> QED BY <1>1, <2>2 DEF Submit, query, screen
<1>2. CASE Apply(w)
  <2>1. PICK ends \in MayEnd : resource' = Changed(resource, ends)
    BY <1>2 DEF Apply
  <2>2. resource' \in Snapshot /\ resource'.n = resource.n + 1
    BY <1>2, <2>1, ChangedTyped DEF Apply
  <2>3. resource.n + 1 \in 0..MaxChanges
    BY <2>2 DEF Snapshot
  <2>4. [write[w] EXCEPT !.at = "applied", !.n = resource.n + 1] \in WriteState
    BY <1>0, <2>3 DEF WriteState
  <2>5. write' = [write EXCEPT ![w] = [write[w] EXCEPT !.at = "applied", !.n = resource.n + 1]]
    BY <1>2 DEF Apply
  <2>6. write' \in [Write -> WriteState]
    BY <2>4, <2>5
  <2> QED BY <1>2, <2>2, <2>6 DEF Apply, query, screen
<1>3. CASE Refuse(w)
  <2>1. [write[w] EXCEPT !.at = "refused"] \in WriteState
    BY <1>0 DEF WriteState
  <2>2. write' \in [Write -> WriteState]
    BY <1>3, <2>1 DEF Refuse
  <2> QED BY <1>3, <2>2 DEF Refuse, query, screen
<1>4. CASE Lose(w)
  <2>1. [write[w] EXCEPT !.at = "lost"] \in WriteState
    BY <1>0 DEF WriteState
  <2>2. write' \in [Write -> WriteState]
    BY <1>4, <2>1 DEF Lose
  <2>3. faults' \in 0..MaxFaults
    BY <1>4 DEF Lose, CanFail
  <2> QED BY <1>4, <2>2, <2>3 DEF Lose, query, screen
<1>5. CASE Acknowledge(w)
  <2> DEFINE owes == Refreshes /\ mounted /\ data # NoData
  <2>1. owes \in BOOLEAN
    OBVIOUS
  <2>2. [write[w] EXCEPT !.at = "done", !.owed = owes] \in WriteState
    BY <1>0, <2>1 DEF WriteState
  <2>3. write' = [write EXCEPT ![w] = [write[w] EXCEPT !.at = "done", !.owed = owes]]
    BY <1>5 DEF Acknowledge
  <2>4. write' \in [Write -> WriteState]
    BY <2>2, <2>3
  <2> HIDE DEF owes
  <2>5. /\ fetch' \in Fetch /\ fetch'.retried <= panel.retry /\ stray' \in Fetch
    BY <1>5, JoinTyped, RefreshTyped DEF Acknowledge
  <2>6. mounted' \in BOOLEAN /\ form' \in SUBSET {"settings", "secrets", "derived"}
    BY <1>5 DEF Acknowledge
  <2> QED BY <1>5, <2>4, <2>5, <2>6 DEF Acknowledge
<1>6. CASE Reject(w)
  <2>1. [write[w] EXCEPT !.at = "done"] \in WriteState
    BY <1>0 DEF WriteState
  <2>2. write' \in [Write -> WriteState]
    BY <1>6, <2>1 DEF Reject
  <2> QED BY <1>6, <2>2 DEF Reject, query, screen
<1> QED BY <1>1, <1>2, <1>3, <1>4, <1>5, <1>6 DEF WriteStep

LEMMA StepTyped ==
    ASSUME PanelsTypeOK, [Next]_vars
    PROVE  PanelsTypeOK'
<1>1. CASE Change
  <2>1. PICK ends \in MayEnd : resource' = Changed(resource, ends)
    BY <1>1 DEF Change
  <2>2. resource' \in Snapshot
    BY <1>1, <2>1, ChangedTyped DEF Change
  <2> QED BY <1>1, <2>2 DEF Change, PanelsTypeOK, query, screen
<1>2. CASE UNCHANGED vars
  BY <1>2 DEF vars, query, screen, PanelsTypeOK
<1> QED BY <1>1, <1>2, QueryTyped, UserTyped, WriteTyped DEF Next

LEMMA InitTyped == Init => PanelsTypeOK
<1> SUFFICES ASSUME Init PROVE PanelsTypeOK
  OBVIOUS
<1>1. write \in [Write -> WriteState]
  BY WriteRecords DEF Init
<1>2. panel.retry \in 0..1 /\ Idle.retried = 0
  BY RetryBound DEF Init, Idle
<1>3. fetch \in Fetch /\ stray \in Fetch /\ fetch.retried <= panel.retry
  BY <1>2, FetchRecords DEF Init
<1>4. resource \in Snapshot
  BY PanelsAssumption DEF Init, Snapshot
<1>5. faults \in 0..MaxFaults /\ moves \in 0..MaxMoves
  BY PanelsAssumption DEF Init
<1>6. form \in SUBSET {"settings", "secrets", "derived"}
  BY DEF Init
<1> QED BY <1>1, <1>3, <1>4, <1>5, <1>6 DEF Init, PanelsTypeOK

\* The panel, its query and the writes keep their types, and no fetch is retried more
\* often than its query says.
THEOREM PanelsTyped == Spec => []PanelsTypeOK
BY InitTyped, StepTyped, PTL DEF Spec

-----------------------------------------------------------------------------
\* A step that answers nothing and takes no answer keeps what is known of them.
LEMMA QuietStep ==
    ASSUME PanelInv,
           data' = data \/ data' = NoData,
           fetch' = fetch \/ fetch'.at # "answered",
           resource' \in Snapshot, resource.n <= resource'.n
    PROVE  AnswerIsNewer'
<1>1. resource.n \in Nat /\ resource'.n \in Nat
  BY PanelsAssumption DEF PanelInv, PanelsTypeOK, Snapshot
<1>2. data # NoData => data.n \in Nat
  BY PanelsAssumption DEF PanelInv, PanelsTypeOK, Snapshot
<1>3. fetch.at = "answered" => fetch.answer.n \in Nat
  BY PanelsAssumption DEF PanelInv, AnswerIsNewer, Snapshot
<1> QED BY <1>1, <1>2, <1>3 DEF PanelInv, AnswerIsNewer

\* No step brings older data, or an answer older than the data.
LEMMA StepIsNewer ==
    ASSUME PanelInv, [Next]_vars
    PROVE  /\ AnswerIsNewer'
           /\ data # NoData /\ data' # NoData => data'.n >= data.n
<1> USE DEF PanelInv
<1>0. /\ resource \in Snapshot /\ resource.n \in Nat
      /\ data # NoData => data.n \in Nat
  BY PanelsAssumption DEF PanelsTypeOK, Snapshot
<1>1. CASE Answer
  <2>1. fetch'.at = "answered" /\ fetch'.answer = resource
    BY <1>1 DEF Answer, PanelsTypeOK, Fetch
  <2> QED BY <1>0, <1>1, <2>1 DEF Answer, AnswerIsNewer
<1>2. CASE Arrive
  <2>1. data' = fetch.answer /\ resource' = resource /\ fetch'.at = "idle"
    BY <1>2 DEF Arrive, Idle
  <2>2. fetch.answer.n \in Nat /\ fetch.answer.n <= resource.n
    BY <1>2, PanelsAssumption DEF Arrive, AnswerIsNewer, Snapshot
  <2>3. data # NoData => data.n <= fetch.answer.n
    BY <1>2 DEF Arrive, AnswerIsNewer
  <2> QED BY <1>0, <2>1, <2>2, <2>3 DEF AnswerIsNewer
<1>3. ASSUME data' = data \/ data' = NoData,
             fetch' = fetch \/ fetch'.at # "answered",
             resource' \in Snapshot, resource.n <= resource'.n
      PROVE  /\ AnswerIsNewer'
             /\ data # NoData /\ data' # NoData => data'.n >= data.n
  BY <1>0, <1>3, QuietStep
<1>4. CASE Tick \/ Open
  <2>1. fetch' = fetch \/ fetch'.at = "asked"
    BY <1>4, NoNewAnswer DEF Tick, Open
  <2> QED BY <1>0, <1>3, <1>4, <2>1 DEF Tick, Open
<1>5. CASE Break \/ ArriveBroken \/ RetryFetch
  <2>1. fetch'.at # "answered"
    <3>1. CASE Break
      BY <3>1 DEF Break, PanelsTypeOK, Fetch
    <3>2. CASE ArriveBroken
      <4>1. [fetch EXCEPT !.at = "waiting", !.retried = @ + 1].at = "waiting"
        BY DEF PanelsTypeOK, Fetch
      <4> QED BY <3>2, <4>1 DEF ArriveBroken, Idle
    <3>3. CASE RetryFetch
      <4>1. [fetch EXCEPT !.at = "asked"].at = "asked"
        BY DEF PanelsTypeOK, Fetch
      <4> QED BY <3>3, <4>1 DEF RetryFetch, Idle
    <3> QED BY <1>5, <3>1, <3>2, <3>3
  <2> QED BY <1>0, <1>3, <1>5, <2>1 DEF Break, ArriveBroken, RetryFetch
<1>6. CASE StrayIsAnswered \/ StrayArrives \/ Leave \/ Hide \/ Show
  BY <1>0, <1>3, <1>6 DEF StrayIsAnswered, StrayArrives, AfterStray, Leave, Hide, Show, query
<1>7. CASE Collect \/ Reload
  <2>1. fetch' = fetch \/ fetch'.at # "answered"
    BY <1>7 DEF Collect, Reload, Idle
  <2> QED BY <1>0, <1>3, <1>7, <2>1 DEF Collect, Reload
<1>8. ASSUME resource.n < MaxChanges, \E ends \in MayEnd : resource' = Changed(resource, ends),
             UNCHANGED query
      PROVE  /\ AnswerIsNewer'
             /\ data # NoData /\ data' # NoData => data'.n >= data.n
  <2>1. resource' \in Snapshot /\ resource'.n = resource.n + 1
    BY <1>8, ChangedTyped
  <2> QED BY <1>0, <1>3, <1>8, <2>1 DEF query
<1>9. ASSUME NEW w \in Write, WriteStep(w)
      PROVE  /\ AnswerIsNewer'
             /\ data # NoData /\ data' # NoData => data'.n >= data.n
  <2>1. CASE Submit(w) \/ Refuse(w) \/ Lose(w) \/ Reject(w)
    BY <1>0, <1>3, <2>1 DEF Submit, Refuse, Lose, Reject, query
  <2>2. CASE Apply(w)
    BY <1>8, <2>2 DEF Apply
  <2>3. CASE Acknowledge(w)
    <3>1. fetch' = fetch \/ fetch'.at = "asked"
      BY <2>3, NoNewAnswer DEF Acknowledge
    <3> QED BY <1>0, <1>3, <2>3, <3>1 DEF Acknowledge
  <2> QED BY <1>9, <2>1, <2>2, <2>3 DEF WriteStep
<1>10. CASE Change
  BY <1>8, <1>10 DEF Change
<1>11. CASE UNCHANGED vars
  BY <1>0, <1>3, <1>11 DEF vars, query
<1> QED BY <1>1, <1>2, <1>4, <1>5, <1>6, <1>7, <1>9, <1>10, <1>11
        DEF Next, QueryStep, User

LEMMA PanelInvariant == Spec => []PanelInv
<1>1. Init => PanelInv
  BY InitTyped DEF Init, PanelInv, AnswerIsNewer, Idle
<1>2. PanelInv /\ [Next]_vars => PanelInv'
  BY StepTyped, StepIsNewer DEF PanelInv
<1> QED BY <1>1, <1>2, PTL DEF Spec

\* A panel never goes back to an older state, however its requests are delayed,
\* cancelled, retried and repeated.
THEOREM NeverOlderHolds == Spec => NeverOlder
<1>1. PanelInv /\ [Next]_vars =>
          [data # NoData /\ data' # NoData => data'.n >= data.n]_vars
  BY StepIsNewer
<1> QED BY <1>1, PanelInvariant, PTL DEF Spec, NeverOlder
-----------------------------------------------------------------------------
(* What is written is covered.  The invariant counts the requests that     *)
(* failed: every retry of a fetch was paid for by a fault.                 *)

WritesAreOld == \A w \in Write : write[w].n <= resource.n

RetriesArePaid ==
    /\ fetch.retried <= faults
    /\ fetch.at = "broken" => fetch.retried < faults

OwedIsDone == \A w \in Write : write[w].owed => write[w].at = "done"

CoverInv == PanelInv /\ WritesAreOld /\ RetriesArePaid /\ OwedIsDone /\ WritesAreCovered

\* What one owed write needs of the query.
Covered(n) ==
    /\ fetch.at = "answered" => fetch.answer.n >= n
    /\ Shows(n) \/ fetch.at # "idle" \/ ~mounted \/ faults > panel.retry

LEMMA CoveredEach == WritesAreCovered <=> \A w \in Write : write[w].owed => Covered(write[w].n)
BY DEF WritesAreCovered, Covered

LEMMA CoveredEachNext ==
    WritesAreCovered' <=> \A w \in Write : write'[w].owed => Covered(write[w].n)'
BY DEF WritesAreCovered, Covered

LEMMA Numbers ==
    ASSUME CoverInv
    PROVE  /\ resource.n \in Nat /\ faults \in Nat /\ panel.retry \in 0..1
           /\ fetch \in Fetch /\ fetch.retried \in 0..1
           /\ data # NoData => data.n \in Nat
           /\ \A w \in Write : write[w] \in WriteState /\ write[w].n \in Nat
           /\ fetch.at = "answered" => fetch.answer.n \in Nat
<1>1. PanelsTypeOK /\ AnswerIsNewer
  BY DEF CoverInv, PanelInv
<1>2. \A w \in Write : write[w] \in WriteState
  BY <1>1 DEF PanelsTypeOK
<1> QED BY <1>1, <1>2, RetryBound, PanelsAssumption
        DEF PanelsTypeOK, AnswerIsNewer, Snapshot, Fetch, WriteState

\* Joining and refreshing never leave the query idle, keep what was asked after a write
\* and ask again otherwise.
LEMMA JoinCovers ==
    ASSUME CoverInv, Join \/ Refresh, UNCHANGED <<data, panel, faults>>
    PROVE  /\ RetriesArePaid' /\ fetch'.at # "idle"
           /\ \A n \in Nat : Covered(n) => Covered(n)'
<1>1. (fetch' = fetch /\ fetch.at # "idle") \/ fetch' = Fresh
  BY DEF Join, Refresh
<1>2. Fresh.at = "asked" /\ Fresh.retried = 0 /\ faults \in Nat
  BY Numbers DEF Fresh
<1> QED BY <1>1, <1>2 DEF Covered, RetriesArePaid, CoverInv

\* Neither an answer nor an owed write: whatever else happens to the page, to the
\* writes and to the resource covers what was covered.
LEMMA QuietCovers ==
    ASSUME CoverInv, resource.n <= resource'.n, resource'.n \in Nat,
           UNCHANGED <<panel, data, fetch>>, faults' \in Nat, faults <= faults',
           mounted' => mounted,
           \A w \in Write : /\ write'[w].owed => write[w].owed /\ write'[w].n = write[w].n
                            /\ write'[w].n = write[w].n \/ write'[w].n <= resource'.n
    PROVE  WritesAreOld' /\ RetriesArePaid' /\ WritesAreCovered'
<1>1. WritesAreOld'
  BY Numbers DEF CoverInv, WritesAreOld
<1>2. RetriesArePaid'
  BY Numbers DEF CoverInv, RetriesArePaid
<1>3. ASSUME NEW w \in Write, write'[w].owed
      PROVE  Covered(write[w].n)'
  <2>1. Covered(write[w].n) /\ write'[w].n = write[w].n
    BY <1>3, CoveredEach DEF CoverInv
  <2> QED BY <2>1, Numbers DEF Covered, Shows
<1> QED BY <1>1, <1>2, <1>3, CoveredEachNext

\* The steps of a fetch.
LEMMA FetchCovers ==
    ASSUME CoverInv, QueryStep
    PROVE  WritesAreOld' /\ RetriesArePaid' /\ WritesAreCovered'
<1>n. /\ resource.n \in Nat /\ faults \in Nat /\ panel.retry \in 0..1 /\ fetch \in Fetch
      /\ fetch.retried \in 0..1 /\ \A w \in Write : write[w].n \in Nat
  BY Numbers
<1>u. UNCHANGED <<panel, resource, mounted, write>>
  BY DEF QueryStep, Tick, Answer, Break, Arrive, ArriveBroken, RetryFetch, StrayIsAnswered,
         StrayArrives, screen
<1>o. WritesAreOld' /\ \A w \in Write : write[w].owed => Covered(write[w].n)
  BY <1>u, CoveredEach DEF CoverInv, WritesAreOld
<1>s. ASSUME RetriesArePaid', \A w \in Write : write[w].owed => Covered(write[w].n)'
      PROVE  WritesAreOld' /\ RetriesArePaid' /\ WritesAreCovered'
  BY <1>u, <1>o, <1>s, CoveredEachNext
<1>1. CASE Tick
  <2>1. Join /\ UNCHANGED <<data, panel, faults>>
    BY <1>1 DEF Tick
  <2> QED BY <1>n, <1>o, <1>s, <1>u, <2>1, JoinCovers
<1>2. CASE Answer
  <2>1. /\ fetch'.at = "answered" /\ fetch'.answer = resource /\ fetch'.retried = fetch.retried
        /\ faults' = faults
    BY <1>2, <1>n DEF Answer, Fetch
  <2> QED BY <1>n, <1>o, <1>s, <1>u, <2>1 DEF Covered, Shows, RetriesArePaid, CoverInv, WritesAreOld
<1>3. CASE Break
  <2>1. /\ fetch'.at = "broken" /\ fetch'.retried = fetch.retried
        /\ faults' = faults + 1 /\ data' = data
    BY <1>3, <1>n DEF Break, CanFail, Fetch
  <2> QED BY <1>n, <1>o, <1>s, <2>1 DEF Covered, RetriesArePaid, CoverInv
<1>4. CASE Arrive
  <2>1. /\ fetch.at = "answered" /\ data' = fetch.answer /\ fetch'.at = "idle"
        /\ fetch'.retried = 0 /\ faults' = faults
    BY <1>4 DEF Arrive, Idle
  <2>2. data' # NoData
    BY <2>1, NoDataIsNone DEF CoverInv, PanelInv, AnswerIsNewer
  <2>3. ASSUME NEW w \in Write, write[w].owed
        PROVE  Covered(write[w].n)'
    BY <1>n, <1>o, <1>u, <2>1, <2>2, <2>3 DEF Covered, Shows
  <2> QED BY <1>n, <1>s, <2>1, <2>3 DEF RetriesArePaid
<1>5. CASE ArriveBroken
  <2>1. fetch.at = "broken" /\ fetch.retried < faults /\ UNCHANGED <<data, faults>>
    BY <1>5 DEF ArriveBroken, CoverInv, RetriesArePaid
  <2>2. CASE MayRetry
    <3>1. fetch'.at = "waiting" /\ fetch'.retried = fetch.retried + 1
      BY <1>5, <1>n, <2>2 DEF ArriveBroken, Fetch
    <3> QED BY <1>n, <1>s, <2>1, <3>1 DEF Covered, RetriesArePaid
  <2>3. CASE ~MayRetry
    <3>1. fetch'.at = "idle" /\ fetch'.retried = 0
      BY <1>5, <2>3 DEF ArriveBroken, Idle
    <3>2. ~mounted \/ faults > panel.retry
      BY <1>n, <2>1, <2>3 DEF MayRetry
    <3> QED BY <1>n, <1>s, <1>u, <2>1, <3>1, <3>2 DEF Covered, RetriesArePaid
  <2> QED BY <2>2, <2>3
<1>6. CASE RetryFetch
  <2>1. fetch.at = "waiting" /\ UNCHANGED <<data, faults>>
    BY <1>6 DEF RetryFetch
  <2>2. CASE mounted
    <3>1. fetch'.at = "asked" /\ fetch'.retried = fetch.retried
      BY <1>6, <1>n, <2>2 DEF RetryFetch, Fetch
    <3> QED BY <1>n, <1>s, <2>1, <3>1 DEF Covered, RetriesArePaid, CoverInv
  <2>3. CASE ~mounted
    <3>1. fetch'.at = "idle" /\ fetch'.retried = 0
      BY <1>6, <2>3 DEF RetryFetch, Idle
    <3> QED BY <1>n, <1>s, <1>u, <2>1, <2>3, <3>1 DEF Covered, RetriesArePaid
  <2> QED BY <2>2, <2>3
<1>7. CASE StrayIsAnswered \/ StrayArrives
  <2>1. UNCHANGED <<panel, resource, data, fetch, mounted, write, faults>>
    BY <1>7 DEF StrayIsAnswered, StrayArrives, AfterStray, screen
  <2> QED BY <1>n, <2>1, QuietCovers
<1> QED BY <1>1, <1>2, <1>3, <1>4, <1>5, <1>6, <1>7 DEF QueryStep

\* The steps of a user.  A page that opens again asks again.
LEMMA UserCovers ==
    ASSUME CoverInv, User
    PROVE  WritesAreOld' /\ RetriesArePaid' /\ WritesAreCovered'
<1>n. /\ resource.n \in Nat /\ faults \in Nat /\ panel.retry \in 0..1 /\ fetch \in Fetch
      /\ \A w \in Write : write[w].n \in Nat
  BY Numbers
<1>o. \A w \in Write : write[w].owed => Covered(write[w].n)
  BY CoveredEach DEF CoverInv
<1>1. CASE Open
  <2>1. Join /\ UNCHANGED <<data, panel, faults, resource, write>>
    BY <1>1 DEF Open
  <2>2. \A w \in Write : write[w].owed => Covered(write[w].n)'
    BY <1>n, <1>o, <2>1, JoinCovers
  <2> QED BY <2>1, <2>2, JoinCovers, CoveredEachNext DEF CoverInv, WritesAreOld
<1>2. CASE Leave \/ Hide \/ Show
  <2>1. UNCHANGED <<panel, resource, data, fetch, write, faults>> /\ (mounted' => mounted)
    BY <1>2 DEF Leave, Hide, Show, query
  <2> QED BY <1>n, <2>1, QuietCovers
<1>3. CASE Collect
  <2>1. ~mounted' /\ fetch.at = "idle" /\ UNCHANGED <<panel, resource, fetch, write, faults>>
    BY <1>3 DEF Collect, screen
  <2> QED BY <1>n, <2>1, CoveredEachNext DEF Covered, CoverInv, WritesAreOld, RetriesArePaid
<1>4. CASE Reload
  <2>1. fetch' = Idle /\ UNCHANGED <<panel, resource, faults>>
        /\ \A w \in Write : ~write'[w].owed /\ write'[w].n = 0
    BY <1>4 DEF Reload, NoWrite
  <2>2. Idle.at = "idle" /\ Idle.retried = 0
    BY DEF Idle
  <2> QED BY <1>n, <2>1, <2>2, CoveredEachNext DEF WritesAreOld, RetriesArePaid
<1> QED BY <1>1, <1>2, <1>3, <1>4 DEF User

\* The steps of a write: the one that is answered for refreshes the query.
LEMMA WriteCovers ==
    ASSUME CoverInv, NEW w \in Write, WriteStep(w)
    PROVE  WritesAreOld' /\ RetriesArePaid' /\ WritesAreCovered'
<1>n. /\ resource.n \in Nat /\ faults \in Nat /\ panel.retry \in 0..1 /\ fetch \in Fetch
      /\ \A v \in Write : write[v] \in WriteState /\ write[v].n \in Nat
      /\ write \in [Write -> WriteState] /\ write[w].n <= resource.n
  BY Numbers DEF CoverInv, PanelInv, PanelsTypeOK, WritesAreOld
<1>o. \A v \in Write : write[v].owed => Covered(write[v].n)
  BY CoveredEach DEF CoverInv
<1>1. CASE Submit(w)
  <2>1. /\ write'[w].owed = FALSE /\ write'[w].n = 0
        /\ \A v \in Write \ {w} : write'[v] = write[v]
        /\ UNCHANGED <<panel, resource, query, mounted, faults>>
    BY <1>1, <1>n DEF Submit, NoWrite, screen
  <2> QED BY <1>n, <2>1, QuietCovers DEF query
<1>2. CASE Apply(w)
  <2>1. resource'.n = resource.n + 1 /\ UNCHANGED <<panel, query, mounted, faults>>
    <3>1. PICK ends \in MayEnd : resource' = Changed(resource, ends)
      BY <1>2 DEF Apply
    <3> QED BY <1>2, <3>1, ChangedTyped DEF Apply, CoverInv, PanelInv, screen
  <2>2. /\ write'[w].n = resource.n + 1 /\ write'[w].owed = write[w].owed
        /\ \A v \in Write \ {w} : write'[v] = write[v]
    BY <1>2, <1>n DEF Apply, WriteState
  <2>3. ~write[w].owed
    BY <1>2 DEF Apply, CoverInv, OwedIsDone
  <2> QED BY <1>n, <2>1, <2>2, <2>3, QuietCovers DEF query
<1>3. CASE Refuse(w) \/ Lose(w) \/ Reject(w)
  <2>1. /\ write'[w].n = write[w].n /\ write'[w].owed = write[w].owed
        /\ \A v \in Write \ {w} : write'[v] = write[v]
    BY <1>3, <1>n DEF Refuse, Lose, Reject, WriteState
  <2>2. UNCHANGED <<panel, resource, query, mounted>> /\ (faults' = faults \/ faults' = faults + 1)
    BY <1>3 DEF Refuse, Lose, Reject, screen, CanFail
  <2> QED BY <1>n, <2>1, <2>2, QuietCovers DEF query
<1>4. CASE Acknowledge(w)
  <2>1. /\ write'[w].n = write[w].n
        /\ write'[w].owed = (Refreshes /\ mounted /\ data # NoData)
        /\ \A v \in Write \ {w} : write'[v] = write[v]
    BY <1>4, <1>n DEF Acknowledge, WriteState
  <2>2. UNCHANGED <<panel, resource, data, faults>>
    BY <1>4 DEF Acknowledge
  <2>3. WritesAreOld'
    BY <2>1, <2>2 DEF CoverInv, WritesAreOld
  <2>4. CASE Refreshes /\ Refresh
    <3>1. /\ RetriesArePaid' /\ fetch'.at # "idle"
          /\ \A v \in Write \ {w} : write'[v].owed => Covered(write[v].n)'
      BY <1>n, <1>o, <2>1, <2>2, <2>4, JoinCovers
    <3>2. write'[w].owed => fetch' = Fresh
      BY <2>1, <2>4 DEF Refresh, Join
    <3>3. write'[w].owed => Covered(write[w].n)'
      BY <3>1, <3>2 DEF Covered, Fresh
    <3> QED BY <2>3, <3>1, <3>3, CoveredEachNext
  <2>5. CASE ~Refreshes
    <3>1. ~write'[w].owed
      BY <2>1, <2>5
    <3>2. CASE Join
      <4>1. /\ RetriesArePaid'
            /\ \A v \in Write \ {w} : write'[v].owed => Covered(write[v].n)'
        BY <1>n, <1>o, <2>1, <2>2, <3>2, JoinCovers
      <4> QED BY <2>3, <3>1, <4>1, CoveredEachNext
    <3>3. CASE fetch' = fetch /\ (mounted' => mounted)
      BY <1>n, <2>1, <2>2, <3>1, <3>3, QuietCovers
    <3> QED BY <1>4, <2>5, <3>2, <3>3 DEF Acknowledge
  <2> QED BY <1>4, <2>4, <2>5 DEF Acknowledge, Refreshes
<1> QED BY <1>1, <1>2, <1>3, <1>4 DEF WriteStep

\* A write is answered for once.
LEMMA OwedStep ==
    ASSUME PanelsTypeOK, OwedIsDone, [Next]_vars
    PROVE  OwedIsDone'
<1> USE DEF OwedIsDone
<1>1. write \in [Write -> WriteState]
  BY DEF PanelsTypeOK
<1>2. CASE UNCHANGED write
  BY <1>2
<1>3. CASE Reload
  BY <1>3 DEF Reload, NoWrite
<1>4. ASSUME NEW w \in Write, WriteStep(w)
      PROVE  OwedIsDone'
  <2>1. \A v \in Write \ {w} : write'[v] = write[v]
    BY <1>1, <1>4 DEF WriteStep, Submit, Apply, Refuse, Lose, Acknowledge, Reject
  <2>2. write'[w].owed => write'[w].at = "done"
    <3>1. CASE Submit(w)
      BY <1>1, <3>1 DEF Submit, NoWrite
    <3>2. CASE Acknowledge(w)
      BY <1>1, <3>2 DEF Acknowledge, WriteState
    <3>3. CASE Apply(w) \/ Refuse(w) \/ Lose(w)
      <4>1. write[w].at # "done" /\ write'[w].owed = write[w].owed
        BY <1>1, <3>3 DEF Apply, Refuse, Lose, WriteState
      <4> QED BY <4>1
    <3>4. CASE Reject(w)
      BY <1>1, <3>4 DEF Reject, WriteState
    <3> QED BY <1>4, <3>1, <3>2, <3>3, <3>4 DEF WriteStep
  <2> QED BY <2>1, <2>2
<1>5. CASE QueryStep \/ Change \/ (User /\ ~Reload) \/ UNCHANGED vars
  BY <1>2, <1>5 DEF QueryStep, Tick, Answer, Break, Arrive, ArriveBroken, RetryFetch,
     StrayIsAnswered, StrayArrives, User, Open, Leave, Collect, Hide, Show, Change, vars
<1> QED BY <1>3, <1>4, <1>5 DEF Next

LEMMA CoverStep ==
    ASSUME CoverInv, [Next]_vars
    PROVE  WritesAreOld' /\ RetriesArePaid' /\ WritesAreCovered'
<1>n. resource.n \in Nat /\ faults \in Nat
  BY Numbers
<1>1. CASE Change
  <2>1. PICK ends \in MayEnd : resource' = Changed(resource, ends)
    BY <1>1 DEF Change
  <2>2. resource'.n = resource.n + 1
    BY <1>1, <2>1, ChangedTyped DEF Change, CoverInv, PanelInv
  <2> QED BY <1>1, <1>n, <2>2, QuietCovers DEF Change, query, screen
<1>2. CASE UNCHANGED vars
  BY <1>2, <1>n, QuietCovers DEF vars, query, screen
<1> QED BY <1>1, <1>2, FetchCovers, UserCovers, WriteCovers DEF Next

\* For every panel and any number of writes, changes and failures: the refresh after a
\* write is not lost to a fetch that was asked before it, to a page that is left and
\* opened again, or to a failure that the query retries.
THEOREM WritesCovered == Spec => []WritesAreCovered
<1>1. Init => CoverInv
  BY InitTyped, PanelsAssumption
     DEF Init, CoverInv, PanelInv, AnswerIsNewer, WritesAreOld, RetriesArePaid, OwedIsDone,
         WritesAreCovered, Idle, NoWrite
<1>2. CoverInv /\ [Next]_vars => CoverInv'
  BY StepTyped, StepIsNewer, CoverStep, OwedStep DEF CoverInv, PanelInv
<1>3. CoverInv => WritesAreCovered
  BY DEF CoverInv
<1> QED BY <1>1, <1>2, <1>3, PTL DEF Spec
=============================================================================
