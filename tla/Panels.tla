------------------------------- MODULE Panels -------------------------------
(***************************************************************************)
(* A panel of the web interface and the resource of the server it shows.   *)
(* A panel reads through one query of the QueryClient: the query has at    *)
(* most one fetch whose answer counts, is repeated by a timer, and is      *)
(* refreshed by what the panel itself writes.  The panels of App.tsx       *)
(* differ in how they poll, how often a fetch is retried and what they do  *)
(* after a write; a behaviour is about one of them.  The project editor is *)
(* a panel whose query fills a form, which is what it writes.              *)
(***************************************************************************)
EXTENDS Integers

CONSTANTS
    Write,         \* the writes a user makes on the panel
    NoData,
    MaxChanges,    \* bound: changes of the resource
    MaxFaults,     \* bound: requests lost or answered with an error
    MaxMoves       \* bound: pages left or loaded again, windows hidden

ASSUME PanelsAssumption ==
    /\ MaxChanges \in Nat /\ MaxFaults \in Nat /\ MaxMoves \in Nat
    /\ NoData \notin [n : Nat, ended : BOOLEAN]

VARIABLES
    panel,         \* the panel: how its query and its writes are set up
    resource,      \* what the server would answer now
    data,          \* what the query holds, and the panel shows
    fetch,         \* its fetch
    stray,         \* a fetch that was cancelled, and is still under way
    mounted,       \* the panel is on the page
    focused,       \* the window is visible
    form,          \* the form of the project editor: the fields it has
    write,         \* write[w]: a request that changes the resource
    faults, moves

query == <<data, fetch, stray>>
screen == <<mounted, focused, form>>
vars == <<panel, resource, query, screen, write, faults, moves>>

-----------------------------------------------------------------------------
(* The panels *)

Poll == {"never", "always", "untilEnded"}

\* none: it writes nothing.  invalidate, refetch: what its handler calls when the
\* write is answered.  leave, save: it goes to another page.
AfterWrite == {"none", "invalidate", "refetch", "leave", "save"}

DefaultRetry == 1

Panel(poll, after) == [poll |-> poll, after |-> after, retry |-> DefaultRetry]

\* A list of projects or the numbers of the dashboard: read when the page opens.
DashboardPage == {Panel("never", "none")}

ProjectListPage == {Panel("never", "none")}

EditorPage == {Panel("never", "save")}

\* The project (which can be archived), its deployments (a new one leads to its own
\* page), deliveries of hooks and notifications; statuses and schedules; variables.
ProjectPage ==
    {Panel("never", "leave"), Panel("always", "leave"), Panel("never", "none"),
     Panel("always", "none"), Panel("always", "refetch"), Panel("never", "invalidate")}

ApplicationPage == {[Panel("never", "refetch") EXCEPT !.retry = 0]}

ArtifactPage == {Panel("never", "none")}

\* The deployment itself and its steps.
DeploymentPage == {Panel("untilEnded", "invalidate"), Panel("always", "none")}

\* Checks, storage and audit events; sessions, which can be ended.
SettingsPage == {Panel("never", "none"), Panel("never", "invalidate")}

Panels == DashboardPage \cup ProjectListPage \cup EditorPage \cup ProjectPage
          \cup ApplicationPage \cup ArtifactPage \cup DeploymentPage \cup SettingsPage

IsEditor == panel.after = "save"

-----------------------------------------------------------------------------
(* Types *)

\* n counts the changes; ended: the status of a deployment is terminal.
Snapshot == [n : 0..MaxChanges, ended : BOOLEAN]

\* idle; asked: the request is under way; answered, broken: its outcome is; waiting:
\* for the retry.
Fetch == [at : {"idle", "asked", "answered", "broken", "waiting"},
          retried : 0..1,
          answer : Snapshot \cup {NoData}]

Idle  == [at |-> "idle", retried |-> 0, answer |-> NoData]
Fresh == [at |-> "asked", retried |-> 0, answer |-> NoData]

\* The fields of a project the server reads, those of a project it answers with,
\* and those a form starts with.  "derived": id, has..., createdAt and updatedAt.
InputFields   == {"settings", "secrets"}
ProjectFields == {"settings", "derived"}
BlankFields   == {"settings", "secrets"}
LoadedFields  == ProjectFields \cup {"secrets"}

\* sent, applied, refused: the request, and its answer, under way; lost: neither
\* arrives; owed: its panel showed data when the answer came and refreshes it.
WriteState == [at : {"none", "sent", "applied", "refused", "lost", "done"},
               fields : SUBSET {"settings", "secrets", "derived"},
               n : 0..MaxChanges,
               owed : BOOLEAN]

NoWrite == [at |-> "none", fields |-> {}, n |-> 0, owed |-> FALSE]

PanelsTypeOK ==
    /\ panel \in Panels
    /\ resource \in Snapshot
    /\ data \in Snapshot \cup {NoData}
    /\ fetch \in Fetch /\ fetch.retried <= panel.retry
    /\ stray \in Fetch
    /\ mounted \in BOOLEAN /\ focused \in BOOLEAN
    /\ form \in SUBSET {"settings", "secrets", "derived"}
    /\ write \in [Write -> WriteState]
    /\ faults \in 0..MaxFaults /\ moves \in 0..MaxMoves

Init ==
    /\ panel \in Panels
    /\ resource = [n |-> 0, ended |-> FALSE]
    /\ data = NoData
    /\ fetch = Idle /\ stray = Idle
    /\ mounted = FALSE /\ focused = TRUE
    /\ form = {}
    /\ write = [w \in Write |-> NoWrite]
    /\ faults = 0 /\ moves = 0

CanMove == moves < MaxMoves /\ moves' = moves + 1
CanFail == faults < MaxFaults /\ faults' = faults + 1

-----------------------------------------------------------------------------
(* The query *)

\* A mount, a timer: a fetch that is under way is joined.
Join ==
    /\ fetch' = IF fetch.at = "idle" THEN Fresh ELSE fetch
    /\ UNCHANGED stray

\* Mutant: a refresh joins the fetch it finds.
RefreshMutant == Join

\* invalidateQueries, refetch: a fetch that is under way is cancelled and its answer
\* ignored, but the first fetch of a query is joined.
Refresh ==
    IF fetch.at = "idle" \/ data = NoData
    THEN Join
    ELSE /\ fetch' = Fresh
         /\ stray' = fetch

\* Mutant: every answer counts.
AfterStrayMutant(d, answer) == IF answer = NoData THEN d ELSE answer

\* What a cancelled fetch leaves of the data when it is answered.
AfterStray(d, answer) == d

\* Mutant: the list of statuses that end the polling has one too many.
PollsForMutant(d) ==
    \/ panel.poll = "always"
    \/ panel.poll = "untilEnded" /\ (d # NoData => ~d.ended /\ d.n # 1)

PollsFor(d) ==
    \/ panel.poll = "always"
    \/ panel.poll = "untilEnded" /\ (d # NoData => ~d.ended)

\* The timer of refetchInterval, which a hidden window stops.
Tick ==
    /\ mounted /\ focused
    /\ PollsFor(data)
    /\ fetch.at = "idle"
    /\ Join
    /\ UNCHANGED <<panel, resource, data, screen, write, faults, moves>>

Answer ==
    /\ fetch.at = "asked"
    /\ fetch' = [fetch EXCEPT !.at = "answered", !.answer = resource]
    /\ UNCHANGED <<panel, resource, data, stray, screen, write, faults, moves>>

Break ==
    /\ fetch.at \in {"asked", "answered"}
    /\ CanFail
    /\ fetch' = [fetch EXCEPT !.at = "broken", !.answer = NoData]
    /\ UNCHANGED <<panel, resource, data, stray, screen, write, moves>>

\* Data that differs runs the effect of the editor: what was typed is replaced.
Filled(d) ==
    IF IsEditor /\ mounted /\ form # {} /\ d # data THEN LoadedFields ELSE form

Arrive ==
    /\ fetch.at = "answered"
    /\ data' = fetch.answer
    /\ form' = Filled(fetch.answer)
    /\ fetch' = Idle
    /\ UNCHANGED <<panel, resource, stray, mounted, focused, write, faults, moves>>

\* Mutant: one retry too many.
MayRetryMutant == mounted /\ fetch.retried <= panel.retry

MayRetry == mounted /\ fetch.retried < panel.retry

\* A failed fetch waits for its retry, or ends: the data stays.
ArriveBroken ==
    /\ fetch.at = "broken"
    /\ fetch' = IF MayRetry
                THEN [fetch EXCEPT !.at = "waiting", !.retried = @ + 1]
                ELSE Idle
    /\ UNCHANGED <<panel, resource, data, stray, screen, write, faults, moves>>

\* The delay is over and the window visible: a page that was left retries nothing.
RetryFetch ==
    /\ fetch.at = "waiting"
    /\ focused
    /\ fetch' = IF mounted THEN [fetch EXCEPT !.at = "asked"] ELSE Idle
    /\ UNCHANGED <<panel, resource, data, stray, screen, write, faults, moves>>

StrayIsAnswered ==
    /\ stray.at = "asked"
    /\ stray' = [stray EXCEPT !.at = "answered", !.answer = resource]
    /\ UNCHANGED <<panel, resource, data, fetch, screen, write, faults, moves>>

StrayArrives ==
    /\ stray.at \in {"answered", "broken", "waiting"}
    /\ stray' = Idle
    /\ data' = AfterStray(data, stray.answer)
    /\ UNCHANGED <<panel, resource, fetch, screen, write, faults, moves>>

-----------------------------------------------------------------------------
(* The page *)

\* The page opens: the editor with a blank form, which the data it finds replaces.
Open ==
    /\ ~mounted
    /\ mounted' = TRUE
    /\ form' = IF ~IsEditor THEN {} ELSE IF data = NoData THEN BlankFields
                                                          ELSE LoadedFields
    /\ Join
    /\ UNCHANGED <<panel, resource, data, focused, write, faults, moves>>

\* A link, the back button, another environment in the key of the variables.
Leave ==
    /\ mounted
    /\ CanMove
    /\ mounted' = FALSE /\ form' = {}
    /\ UNCHANGED <<panel, resource, query, focused, write, faults>>

\* A query that nobody looks at is dropped after five minutes.
Collect ==
    /\ ~mounted
    /\ fetch.at = "idle" /\ data # NoData
    /\ data' = NoData
    /\ UNCHANGED <<panel, resource, fetch, stray, screen, write, faults, moves>>

\* A full load, by the user or by location.href after a rollback or a redeploy:
\* nothing is left of the cache, and nobody waits for the writes.  (One that still
\* reaches the server is a Change.)
Reload ==
    /\ CanMove
    /\ data' = NoData /\ fetch' = Idle /\ stray' = Idle
    /\ mounted' = FALSE /\ form' = {}
    /\ write' = [w \in Write |-> IF write[w].at = "none" THEN NoWrite
                                 ELSE [NoWrite EXCEPT !.at = "done"]]
    /\ UNCHANGED <<panel, resource, focused, faults>>

Hide ==
    /\ focused
    /\ CanMove
    /\ focused' = FALSE
    /\ UNCHANGED <<panel, resource, query, mounted, form, write, faults>>

Show ==
    /\ ~focused
    /\ focused' = TRUE
    /\ UNCHANGED <<panel, resource, query, mounted, form, write, faults, moves>>

-----------------------------------------------------------------------------
(* The resource and the writes *)

\* What a change makes of it.  A deployment may reach its last status, and its row
\* may change after that.
Changed(r, ends) == [n |-> r.n + 1, ended |-> r.ended \/ ends]

MayEnd == IF panel.poll = "untilEnded" THEN BOOLEAN ELSE {FALSE}

\* Runners, schedules, other users.
Change ==
    /\ resource.n < MaxChanges
    /\ \E ends \in MayEnd : resource' = Changed(resource, ends)
    /\ UNCHANGED <<panel, query, screen, write, faults, moves>>

\* The buttons stay enabled, but for the one that deploys.
MaySubmit == panel.after = "leave" => \A w \in Write : write[w].at \in {"none", "done"}

Submit(w) ==
    /\ mounted
    /\ panel.after # "none"
    /\ write[w].at = "none"
    /\ MaySubmit /\ (IsEditor => form # {})
    /\ write' = [write EXCEPT ![w] = [NoWrite EXCEPT !.at = "sent", !.fields = form]]
    /\ UNCHANGED <<panel, resource, query, screen, faults, moves>>

\* decodeJSON knows the fields of Input, and an ended deployment takes no decision.
Accepted(fields) == fields \subseteq InputFields /\ ~resource.ended

Apply(w) ==
    /\ write[w].at = "sent"
    /\ Accepted(write[w].fields)
    /\ resource.n < MaxChanges
    /\ \E ends \in MayEnd : resource' = Changed(resource, ends)
    /\ write' = [write EXCEPT ![w].at = "applied", ![w].n = resource.n + 1]
    /\ UNCHANGED <<panel, query, screen, faults, moves>>

Refuse(w) ==
    /\ write[w].at = "sent"
    /\ ~Accepted(write[w].fields)
    /\ write' = [write EXCEPT ![w].at = "refused"]
    /\ UNCHANGED <<panel, resource, query, screen, faults, moves>>

Lose(w) ==
    /\ write[w].at \in {"sent", "applied"}
    /\ CanFail
    /\ write' = [write EXCEPT ![w].at = "lost"]
    /\ UNCHANGED <<panel, resource, query, screen, moves>>

Refreshes == panel.after = "refetch" \/ (panel.after = "invalidate" /\ mounted)

\* The handler goes on after its await, whether its page is still there or not.
Acknowledge(w) ==
    /\ write[w].at = "applied"
    /\ write' = [write EXCEPT ![w].at = "done",
                              ![w].owed = Refreshes /\ mounted /\ data # NoData]
    /\ \/ /\ Refreshes
          /\ Refresh
          /\ UNCHANGED <<mounted, form>>
       \/ /\ panel.after = "invalidate" /\ ~mounted
          /\ UNCHANGED <<fetch, stray, mounted, form>>
       \/ /\ panel.after = "leave"
          /\ mounted' = FALSE
          /\ UNCHANGED <<fetch, stray, form>>
       \/ /\ panel.after = "save"      \* the page of the project, which reads it too
          /\ mounted' = TRUE /\ form' = {}
          /\ Join
    /\ UNCHANGED <<panel, resource, data, focused, faults, moves>>

\* An error message, and no refresh.
Reject(w) ==
    /\ write[w].at \in {"refused", "lost"}
    /\ write' = [write EXCEPT ![w].at = "done"]
    /\ UNCHANGED <<panel, resource, query, screen, faults, moves>>

-----------------------------------------------------------------------------
QueryStep == Tick \/ Answer \/ Break \/ Arrive \/ ArriveBroken \/ RetryFetch
             \/ StrayIsAnswered \/ StrayArrives

User == Open \/ Leave \/ Collect \/ Reload \/ Hide \/ Show

WriteStep(w) == Submit(w) \/ Apply(w) \/ Refuse(w) \/ Lose(w) \/ Acknowledge(w)
                \/ Reject(w)

Next == QueryStep \/ User \/ Change \/ \E w \in Write : WriteStep(w)

Spec == Init /\ [][Next]_vars

\* Timers fire, and a request that is not lost is answered.  Nobody has to open a
\* page, write or show a window again.
Fairness == /\ WF_vars(Tick) /\ WF_vars(Answer) /\ WF_vars(Arrive)
            /\ WF_vars(ArriveBroken) /\ WF_vars(RetryFetch)

FairSpec == Spec /\ Fairness

-----------------------------------------------------------------------------
(* Properties *)

\* A panel never goes back to an older state of its resource, though cancelled
\* fetches are answered late.
NeverOlder ==
    [][data # NoData /\ data' # NoData => data'.n >= data.n]_vars

Shows(n) == data # NoData /\ data.n >= n

\* A refresh is never lost: after a write that a panel answers for, either it shows the
\* write already or a fetch is under way that was asked after the write, however it was
\* joined, replaced or retried since, unless the page was left or more requests failed
\* than its query retries.
WritesAreCovered ==
    \A w \in Write : write[w].owed =>
        /\ fetch.at = "answered" => fetch.answer.n >= write[w].n
        /\ \/ Shows(write[w].n) \/ fetch.at # "idle"
           \/ ~mounted \/ faults > panel.retry

\* What was written on a panel that showed its data is shown once the write is
\* answered, through a fetch that was under way and one request that fails (a
\* second write, a poll), unless the page is left or its window hidden.
WritesShow ==
    \A w \in Write : \A n \in 0..MaxChanges :
        (write[w].owed /\ write[w].n = n /\ panel.retry = 1) ~>
            \/ Shows(n) \/ ~mounted \/ ~focused

\* A panel that polls shows every change after a while, that of a deployment until
\* it has shown a terminal status, whatever requests failed.
PollingCatchesUp ==
    \A n \in 1..MaxChanges :
        (mounted /\ panel.poll # "never" /\ resource.n = n) ~>
            \/ Shows(n) \/ ~mounted \/ ~focused
            \/ panel.poll = "untilEnded" /\ data # NoData /\ data.ended

\* Expected to fail: the server takes what the editor sends
\* (docs/requirements.md:841).
EditsAreAccepted == IsEditor => \A w \in Write : write[w].at # "refused"
=============================================================================
