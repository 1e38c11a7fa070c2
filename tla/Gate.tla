-------------------------------- MODULE Gate --------------------------------
(***************************************************************************)
(* The way into the web interface: every tab asks whether the server has   *)
(* an owner and who the session belongs to, and shows the setup form, the  *)
(* login form or the shell by what it knows of the two answers.  The tabs  *)
(* of a browser share a cookie, which the answers to setup, login and      *)
(* logout replace in the order they arrive.  Sessions expire, are ended by *)
(* another one or by a change of the password.                             *)
(***************************************************************************)
EXTENDS Integers

CONSTANTS
    Tab, Browser,
    MaxSessions,   \* bound: sessions ever made
    MaxLoads,      \* bound: pages loaded by the user, sessions ended elsewhere
    MaxFaults      \* bound: requests lost or answered with an error status

ASSUME GateAssumption ==
    MaxSessions \in Nat /\ MaxLoads \in Nat /\ MaxFaults \in Nat

VARIABLES
    browser,       \* browser[t]: whose cookies tab t uses
    cookie,        \* cookie[b]: its session, 0 for none
    users,         \* how many rows the table of users has
    live,          \* the rows of the table of sessions
    made,          \* sessions made so far
    status,        \* status[t]: the query ['status']
    me,            \* me[t]: the query ['me']
    form,          \* form[t]: AuthForm and its request
    logout,        \* logout[t]: the request of the shell's button
    loads, faults

tables == <<users, live, made>>
queries == <<status, me>>
vars == <<browser, cookie, tables, queries, form, logout, loads, faults>>

Session == 1..MaxSessions

\* data: what the query holds; answer: what is on its way to it.
StatusQuery == [at : {"idle", "asked", "answered", "broken"},
                data : {"none", "empty", "initialized"},
                answer : {"none", "empty", "initialized"}]

\* 0: nobody; carries: the cookie the request was sent with.
MeQuery == [at : {"idle", "asked", "answered", "broken"},
            data : 0..MaxSessions, carries : 0..MaxSessions,
            answer : 0..MaxSessions]

\* sent, accepted, denied: the request, and its answer, under way; settling: the
\* queries are invalidated and awaited.
Form == [at : {"idle", "sent", "accepted", "denied", "settling"},
         setup : BOOLEAN, session : 0..MaxSessions]

Logout == [at : {"idle", "sent", "accepted", "denied"}, carries : 0..MaxSessions]

\* Whoever has a setup form open, at most one of them becomes the owner
\* (docs/requirements.md:839).
OneOwner == users <= 1

GateTypeOK ==
    /\ browser \in [Tab -> Browser]
    /\ cookie \in [Browser -> 0..MaxSessions]
    /\ users \in Nat /\ OneOwner
    /\ live \subseteq Session /\ made \in 0..MaxSessions
    /\ status \in [Tab -> StatusQuery]
    /\ me \in [Tab -> MeQuery]
    /\ form \in [Tab -> Form]
    /\ logout \in [Tab -> Logout]
    /\ loads \in 0..MaxLoads /\ faults \in 0..MaxFaults

NoStatus == [at |-> "idle", data |-> "none", answer |-> "none"]
NoMe     == [at |-> "idle", data |-> 0, carries |-> 0, answer |-> 0]
NoForm   == [at |-> "idle", setup |-> FALSE, session |-> 0]
NoLogout == [at |-> "idle", carries |-> 0]

\* App asks for the status first.
AskStatus(q) == [q EXCEPT !.at = "asked", !.answer = "none"]

\* The first load of every tab is under way.
Init ==
    /\ browser \in [Tab -> Browser]
    /\ cookie = [b \in Browser |-> 0]
    /\ users = 0 /\ live = {} /\ made = 0
    /\ status = [t \in Tab |-> AskStatus(NoStatus)]
    /\ me = [t \in Tab |-> NoMe]
    /\ form = [t \in Tab |-> NoForm]
    /\ logout = [t \in Tab |-> NoLogout]
    /\ loads = 0 /\ faults = 0

Cookie(t) == cookie[browser[t]]

CanLoad == loads < MaxLoads /\ loads' = loads + 1
CanFail == faults < MaxFaults /\ faults' = faults + 1

-----------------------------------------------------------------------------
(* What a tab shows: the component App *)

Loading(q, none) == q.data = none /\ q.at # "idle"

View(t) ==
    IF \/ Loading(status[t], "none")
       \/ status[t].data = "initialized" /\ Loading(me[t], 0)
    THEN "splash"
    ELSE IF status[t].data # "initialized" THEN "setup"
    ELSE IF me[t].data = 0 THEN "login" ELSE "shell"

-----------------------------------------------------------------------------
(* The two queries; neither is retried *)

AskMe(t, c) == [me[t] EXCEPT !.at = "asked", !.carries = c, !.answer = 0]

AnswerStatus(t) ==
    /\ status[t].at = "asked"
    /\ status' = [status EXCEPT ![t].at = "answered",
                     ![t].answer = IF users > 0 THEN "initialized" ELSE "empty"]
    /\ UNCHANGED <<browser, cookie, tables, me, form, logout, loads, faults>>

\* ['me'] is enabled, and asked, when the status first says there is an owner.
ReceiveStatus(t) ==
    /\ status[t].at = "answered"
    /\ status' = [status EXCEPT ![t] = [NoStatus EXCEPT !.data = status[t].answer]]
    /\ me' = IF status[t].answer = "initialized" /\ status[t].data # "initialized"
             THEN [me EXCEPT ![t] = AskMe(t, Cookie(t))]
             ELSE me
    /\ UNCHANGED <<browser, cookie, tables, form, logout, loads, faults>>

\* A failed request leaves the data.
BreakStatus(t) ==
    /\ status[t].at \in {"asked", "answered"}
    /\ CanFail
    /\ status' = [status EXCEPT ![t].at = "broken", ![t].answer = "none"]
    /\ UNCHANGED <<browser, cookie, tables, me, form, logout, loads>>

GiveUpStatus(t) ==
    /\ status[t].at = "broken"
    /\ status' = [status EXCEPT ![t].at = "idle"]
    /\ UNCHANGED <<browser, cookie, tables, me, form, logout, loads, faults>>

\* requireAuth: the session of the cookie the request was sent with.
AnswerMe(t) ==
    /\ me[t].at = "asked"
    /\ me' = [me EXCEPT ![t].at = IF me[t].carries \in live THEN "answered" ELSE "broken",
                        ![t].answer = IF me[t].carries \in live THEN me[t].carries ELSE 0]
    /\ UNCHANGED <<browser, cookie, tables, status, form, logout, loads, faults>>

ReceiveMe(t) ==
    /\ me[t].at \in {"answered", "broken"}
    /\ me' = [me EXCEPT ![t] = [NoMe EXCEPT
                 !.data = IF me[t].at = "answered" THEN me[t].answer ELSE me[t].data]]
    /\ UNCHANGED <<browser, cookie, tables, status, form, logout, loads, faults>>

BreakMe(t) ==
    /\ me[t].at \in {"asked", "answered"}
    /\ CanFail
    /\ me' = [me EXCEPT ![t].at = "broken", ![t].answer = 0]
    /\ UNCHANGED <<browser, cookie, tables, status, form, logout, loads>>

-----------------------------------------------------------------------------
(* AuthForm, setup and login *)

Submit(t) ==
    /\ View(t) \in {"setup", "login"}
    /\ form[t].at = "idle"
    /\ form' = [form EXCEPT ![t] = [at |-> "sent", setup |-> View(t) = "setup",
                                    session |-> 0]]
    /\ UNCHANGED <<browser, cookie, tables, queries, logout, loads, faults>>

Deny(t) ==
    /\ form' = [form EXCEPT ![t].at = "denied"]
    /\ UNCHANGED <<browser, cookie, tables, queries, logout, loads, faults>>

\* Mutant: a login goes on with the session that was made last.
FreshMutant == IF made = 0 THEN 1 ELSE made

\* A session of its own for every setup and login.
Fresh == made + 1

NewSession(t) ==
    /\ made < MaxSessions
    /\ made' = Fresh
    /\ live' = live \cup {made'}
    /\ form' = [form EXCEPT ![t].at = "accepted", ![t].session = made']
    /\ UNCHANGED <<browser, cookie, queries, logout, loads, faults>>

\* Mutant: whoever has the form may submit it.
MayBecomeOwnerMutant == TRUE

MayBecomeOwner == users = 0

\* Counts and inserts in one transaction, of the only connection to the database.
Setup(t) ==
    /\ form[t].at = "sent" /\ form[t].setup
    /\ \/ MayBecomeOwner /\ users' = users + 1 /\ NewSession(t)
       \/ ~MayBecomeOwner /\ Deny(t)

\* A wrong password is denied.
Login(t) ==
    /\ form[t].at = "sent" /\ ~form[t].setup
    /\ \/ users > 0 /\ NewSession(t) /\ UNCHANGED users
       \/ Deny(t)

\* Mutant: only the status is fetched again.
InvalidatedMutant(t, c) ==
    /\ status' = [status EXCEPT ![t] = AskStatus(@)]
    /\ UNCHANGED me

\* Which queries invalidateQueries fetches again: those that are enabled.
Invalidated(t, c) ==
    /\ status' = [status EXCEPT ![t] = AskStatus(@)]
    /\ me' = IF status[t].data = "initialized" THEN [me EXCEPT ![t] = AskMe(t, c)] ELSE me

\* The answer sets the cookie before the form goes on.
Enter(t) ==
    /\ form[t].at = "accepted"
    /\ cookie' = [cookie EXCEPT ![browser[t]] = form[t].session]
    /\ form' = [form EXCEPT ![t].at = "settling"]
    /\ Invalidated(t, form[t].session)
    /\ UNCHANGED <<browser, tables, logout, loads, faults>>

Settled(t) == form[t].at = "settling" /\ status[t].at = "idle" /\ me[t].at = "idle"

\* Mutant: not after an error.
IsDoneMutant(t) == Settled(t)

IsDone(t) == form[t].at = "denied" \/ Settled(t)

\* setBusy(false), after an error message or the refetches.
Settle(t) ==
    /\ IsDone(t)
    /\ form' = [form EXCEPT ![t] = NoForm]
    /\ UNCHANGED <<browser, cookie, tables, queries, logout, loads, faults>>

\* The request, or its answer, is lost: a session nobody has a cookie for.
LoseForm(t) ==
    /\ form[t].at \in {"sent", "accepted"}
    /\ CanFail
    /\ form' = [form EXCEPT ![t] = [NoForm EXCEPT !.at = "denied"]]
    /\ UNCHANGED <<browser, cookie, tables, queries, logout, loads>>

-----------------------------------------------------------------------------
(* The shell *)

\* A full load of the page: nothing is left but the cookie.
Loaded(t) ==
    /\ status' = [status EXCEPT ![t] = AskStatus(NoStatus)]
    /\ me' = [me EXCEPT ![t] = NoMe]
    /\ form' = [form EXCEPT ![t] = NoForm]
    /\ logout' = [logout EXCEPT ![t] = NoLogout]

Load(t) ==
    /\ CanLoad
    /\ Loaded(t)
    /\ UNCHANGED <<browser, cookie, tables, faults>>

LogOut(t) ==
    /\ View(t) = "shell"
    /\ logout[t].at = "idle"
    /\ logout' = [logout EXCEPT ![t] = [at |-> "sent", carries |-> Cookie(t)]]
    /\ UNCHANGED <<browser, cookie, tables, queries, form, loads, faults>>

\* requireAuth comes first: without a session there is nothing to log out of.
EndSession(t) ==
    /\ logout[t].at = "sent"
    /\ logout' = [logout EXCEPT ![t].at = IF logout[t].carries \in live
                                          THEN "accepted" ELSE "denied"]
    /\ live' = live \ {logout[t].carries}
    /\ UNCHANGED <<browser, cookie, users, made, queries, form, loads, faults>>

\* 204 clears the cookie, whatever it is by now, and the page is loaded again.
GoOut(t) ==
    /\ logout[t].at = "accepted"
    /\ cookie' = [cookie EXCEPT ![browser[t]] = 0]
    /\ Loaded(t)
    /\ UNCHANGED <<browser, tables, loads, faults>>

\* An exception that nobody catches: the shell stays.
StayIn(t) ==
    /\ logout[t].at = "denied"
    /\ logout' = [logout EXCEPT ![t] = NoLogout]
    /\ UNCHANGED <<browser, cookie, tables, queries, form, loads, faults>>

LoseLogout(t) ==
    /\ logout[t].at \in {"sent", "accepted"}
    /\ CanFail
    /\ logout' = [logout EXCEPT ![t].at = "denied"]
    /\ UNCHANGED <<browser, cookie, tables, queries, form, loads>>

\* The owner ends another session.
DeleteSession(t, s) ==
    /\ View(t) = "shell" /\ Cookie(t) \in live
    /\ s \in live \ {Cookie(t)}
    /\ CanLoad
    /\ live' = live \ {s}
    /\ UNCHANGED <<browser, cookie, users, made, queries, form, logout, faults>>

ChangePassword(t) ==
    /\ View(t) = "shell" /\ Cookie(t) \in live
    /\ CanLoad
    /\ live' = {Cookie(t)}
    /\ UNCHANGED <<browser, cookie, users, made, queries, form, logout, faults>>

Expire(s) ==
    /\ s \in live
    /\ CanLoad
    /\ live' = live \ {s}
    /\ UNCHANGED <<browser, cookie, users, made, queries, form, logout, faults>>

-----------------------------------------------------------------------------
QueryStep(t) == AnswerStatus(t) \/ ReceiveStatus(t) \/ BreakStatus(t) \/ GiveUpStatus(t)
                \/ AnswerMe(t) \/ ReceiveMe(t) \/ BreakMe(t)

FormStep(t) == Submit(t) \/ Setup(t) \/ Login(t) \/ Enter(t) \/ Settle(t) \/ LoseForm(t)

ShellStep(t) == \/ Load(t) \/ LogOut(t) \/ EndSession(t) \/ GoOut(t) \/ StayIn(t)
                \/ LoseLogout(t) \/ ChangePassword(t)
                \/ \E s \in Session : DeleteSession(t, s)

Next == \/ \E t \in Tab : QueryStep(t) \/ FormStep(t) \/ ShellStep(t)
        \/ \E s \in Session : Expire(s)

Spec == Init /\ [][Next]_vars

\* Requests are answered, unless they are lost; nobody has to press a button.
Fairness ==
    \A t \in Tab :
        /\ WF_vars(AnswerStatus(t)) /\ WF_vars(ReceiveStatus(t)) /\ WF_vars(GiveUpStatus(t))
        /\ WF_vars(AnswerMe(t)) /\ WF_vars(ReceiveMe(t))
        /\ WF_vars(Enter(t)) /\ WF_vars(Settle(t))
        /\ WF_vars(EndSession(t)) /\ WF_vars(GoOut(t)) /\ WF_vars(StayIn(t))

FairSpec == Spec /\ Fairness

-----------------------------------------------------------------------------
(* Properties *)

\* A cookie of the browser, or what one of its tabs holds or has under way, names
\* session s.
Heard(t, s) == s \in {me[t].data, me[t].carries, me[t].answer,
                       form[t].session, logout[t].carries}

Knows(b, s) == cookie[b] = s \/ \E t \in Tab : browser[t] = b /\ Heard(t, s)

\* Though there is but one owner, a logout, even one that arrives late, ends no
\* session that another browser has or is about to get.
LogoutIsLocal ==
    [][\A t \in Tab, b \in Browser, s \in live :
           EndSession(t) /\ b # browser[t] /\ Knows(b, s) => s \in live']_vars

\* A request of the tab has failed, and not for want of its session.
Failed(t) == \/ status[t].at = "broken"
             \/ me[t].at = "broken" /\ me[t].carries \in live

\* Whoever is let in gets to the shell, though other tabs of the browser log in and
\* out and pages are loaded again, unless the session ends, another answer replaces
\* the cookie or a request fails (neither query is retried).
LoginLeadsToShell ==
    \A t \in Tab, s \in Session :
        (form[t].at = "accepted" /\ form[t].session = s) ~>
            /\ form[t].at # "accepted"
            /\ View(t) = "shell" \/ s \notin live \/ Cookie(t) # s \/ Failed(t)

\* The button of a form does not stay disabled once its request is answered or lost.
FormComesBack ==
    \A t \in Tab :
        form[t].at \in {"accepted", "denied", "settling"} ~> form[t].at = "idle"
=============================================================================
