----------------------------- MODULE GateProofs -----------------------------
(***************************************************************************)
(* For any tabs, browsers and bounds: the queries, the forms and the       *)
(* tables of users and sessions keep their types, there is one owner at    *)
(* most, and the sessions of the browsers stay apart.                      *)
(***************************************************************************)
EXTENDS Gate, TLAPS

USE GateAssumption

\* What a request, an answer or a failure makes of one query, form or logout.
LEMMA StatusRecords ==
    /\ NoStatus \in StatusQuery
    /\ \A q \in StatusQuery, at \in {"idle", "asked", "answered", "broken"},
          d \in {"none", "empty", "initialized"} :
          /\ [q EXCEPT !.at = at, !.answer = d] \in StatusQuery
          /\ [q EXCEPT !.at = at] \in StatusQuery
          /\ [q EXCEPT !.data = d] \in StatusQuery
BY DEF NoStatus, StatusQuery

LEMMA MeRecords ==
    /\ NoMe \in MeQuery
    /\ \A q \in MeQuery, at \in {"idle", "asked", "answered", "broken"},
          s \in 0..MaxSessions, c \in 0..MaxSessions :
          /\ [q EXCEPT !.at = at, !.answer = s] \in MeQuery
          /\ [q EXCEPT !.at = at, !.carries = c, !.answer = s] \in MeQuery
          /\ [q EXCEPT !.data = s] \in MeQuery
<1>1. 0 \in 0..MaxSessions
  OBVIOUS
<1> QED BY <1>1 DEF NoMe, MeQuery

LEMMA MeFields ==
    \A q \in MeQuery, at \in {"answered", "broken"}, s \in 0..MaxSessions :
        /\ [q EXCEPT !.at = at, !.answer = s] \in MeQuery
        /\ [q EXCEPT !.at = at, !.answer = s].data = q.data
        /\ [q EXCEPT !.at = at, !.answer = s].carries = q.carries
        /\ [q EXCEPT !.at = at, !.answer = s].answer = s
BY DEF MeQuery

LEMMA FormRecords ==
    /\ NoForm \in Form
    /\ \A f \in Form, at \in {"idle", "sent", "accepted", "denied", "settling"},
          s \in 0..MaxSessions :
          /\ [f EXCEPT !.at = at] \in Form
          /\ [f EXCEPT !.at = at, !.session = s] \in Form
<1>1. 0 \in 0..MaxSessions
  OBVIOUS
<1> QED BY <1>1 DEF NoForm, Form

LEMMA LogoutRecords ==
    /\ NoLogout \in Logout
    /\ \A l \in Logout, at \in {"idle", "sent", "accepted", "denied"} :
          [l EXCEPT !.at = at] \in Logout
<1>1. 0 \in 0..MaxSessions
  OBVIOUS
<1> QED BY <1>1 DEF NoLogout, Logout

LEMMA Asked ==
    ASSUME GateTypeOK, NEW t \in Tab, NEW c \in 0..MaxSessions
    PROVE  /\ AskStatus(status[t]) \in StatusQuery
           /\ AskStatus(NoStatus) \in StatusQuery
           /\ AskMe(t, c) \in MeQuery
<1>1. 0 \in 0..MaxSessions /\ status[t] \in StatusQuery /\ me[t] \in MeQuery
  BY DEF GateTypeOK
<1> QED BY <1>1, StatusRecords, MeRecords DEF AskStatus, AskMe

LEMMA Counters ==
    ASSUME GateTypeOK
    PROVE  /\ CanLoad => loads' \in 0..MaxLoads
           /\ CanFail => faults' \in 0..MaxFaults
           /\ made < MaxSessions => made + 1 \in Session
           /\ \A t \in Tab : Cookie(t) \in 0..MaxSessions
BY DEF GateTypeOK, CanLoad, CanFail, Session, Cookie

LEMMA QueryTyped ==
    ASSUME GateTypeOK, NEW t \in Tab, QueryStep(t)
    PROVE  GateTypeOK'
<1>0. /\ status[t] \in StatusQuery /\ me[t] \in MeQuery
      /\ status[t].answer \in {"none", "empty", "initialized"}
      /\ me[t].answer \in 0..MaxSessions /\ me[t].data \in 0..MaxSessions
      /\ me[t].carries \in 0..MaxSessions /\ 0 \in 0..MaxSessions
  BY DEF GateTypeOK, StatusQuery, MeQuery
<1>1. ASSUME NEW q \in StatusQuery, status' = [status EXCEPT ![t] = q],
             me' = me \/ \E r \in MeQuery : me' = [me EXCEPT ![t] = r],
             faults' \in 0..MaxFaults,
             UNCHANGED <<browser, cookie, tables, form, logout, loads>>
      PROVE  GateTypeOK'
  BY <1>1 DEF GateTypeOK, OneOwner, tables
<1>2. ASSUME NEW r \in MeQuery, me' = [me EXCEPT ![t] = r], faults' \in 0..MaxFaults,
             UNCHANGED <<browser, cookie, tables, status, form, logout, loads>>
      PROVE  GateTypeOK'
  BY <1>2 DEF GateTypeOK, OneOwner, tables
<1>3. faults \in 0..MaxFaults
  BY DEF GateTypeOK
<1>4. CASE AnswerStatus(t)
  <2> DEFINE d == IF users > 0 THEN "initialized" ELSE "empty"
  <2>1. status' = [status EXCEPT ![t] = [status[t] EXCEPT !.at = "answered", !.answer = d]]
    BY <1>4 DEF AnswerStatus
  <2>2. d \in {"none", "empty", "initialized"}
    OBVIOUS
  <2>3. [status[t] EXCEPT !.at = "answered", !.answer = d] \in StatusQuery
    BY <1>0, <2>2, StatusRecords
  <2> QED BY <1>1, <1>3, <1>4, <2>1, <2>3 DEF AnswerStatus
<1>5. CASE ReceiveStatus(t)
  <2>1. [NoStatus EXCEPT !.data = status[t].answer] \in StatusQuery
    BY <1>0, StatusRecords
  <2>2. AskMe(t, Cookie(t)) \in MeQuery
    BY Asked, Counters
  <2> QED BY <1>1, <1>3, <1>5, <2>1, <2>2 DEF ReceiveStatus
<1>6. CASE BreakStatus(t)
  <2>1. status' = [status EXCEPT ![t] = [status[t] EXCEPT !.at = "broken", !.answer = "none"]]
    BY <1>6 DEF BreakStatus
  <2>2. [status[t] EXCEPT !.at = "broken", !.answer = "none"] \in StatusQuery
    BY <1>0, StatusRecords
  <2> QED BY <1>1, <1>6, <2>1, <2>2, Counters DEF BreakStatus
<1>7. CASE GiveUpStatus(t)
  <2>1. status' = [status EXCEPT ![t] = [status[t] EXCEPT !.at = "idle"]]
    BY <1>7 DEF GiveUpStatus
  <2>2. [status[t] EXCEPT !.at = "idle"] \in StatusQuery
    BY <1>0, StatusRecords
  <2> QED BY <1>1, <1>3, <1>7, <2>1, <2>2 DEF GiveUpStatus
<1>8. CASE AnswerMe(t)
  <2> DEFINE at == IF me[t].carries \in live THEN "answered" ELSE "broken"
             s == IF me[t].carries \in live THEN me[t].carries ELSE 0
  <2>1. me' = [me EXCEPT ![t] = [me[t] EXCEPT !.at = at, !.answer = s]]
    BY <1>8 DEF AnswerMe
  <2>2. at \in {"idle", "asked", "answered", "broken"} /\ s \in 0..MaxSessions
    BY <1>0
  <2>3. [me[t] EXCEPT !.at = at, !.answer = s] \in MeQuery
    BY <1>0, <2>2, MeRecords
  <2> QED BY <1>2, <1>3, <1>8, <2>1, <2>3 DEF AnswerMe
<1>9. CASE ReceiveMe(t)
  <2> DEFINE s == IF me[t].at = "answered" THEN me[t].answer ELSE me[t].data
  <2>1. [NoMe EXCEPT !.data = s] \in MeQuery
    BY <1>0, MeRecords
  <2> QED BY <1>2, <1>3, <1>9, <2>1 DEF ReceiveMe
<1>10. CASE BreakMe(t)
  <2>1. me' = [me EXCEPT ![t] = [me[t] EXCEPT !.at = "broken", !.answer = 0]]
    BY <1>10 DEF BreakMe
  <2>2. [me[t] EXCEPT !.at = "broken", !.answer = 0] \in MeQuery
    BY <1>0, MeRecords
  <2> QED BY <1>2, <1>10, <2>1, <2>2, Counters DEF BreakMe
<1> QED BY <1>4, <1>5, <1>6, <1>7, <1>8, <1>9, <1>10 DEF QueryStep

LEMMA FormTyped ==
    ASSUME GateTypeOK, NEW t \in Tab, FormStep(t)
    PROVE  GateTypeOK'
<1>0. /\ form[t] \in Form /\ form[t].session \in 0..MaxSessions
      /\ faults \in 0..MaxFaults /\ users \in Nat /\ browser[t] \in Browser
      /\ 0 \in 0..MaxSessions
  BY DEF GateTypeOK, Form
<1>1. ASSUME NEW f \in Form, form' = [form EXCEPT ![t] = f], faults' \in 0..MaxFaults,
             UNCHANGED <<browser, cookie, tables, queries, logout, loads>>
      PROVE  GateTypeOK'
  BY <1>1 DEF GateTypeOK, OneOwner, tables, queries
<1>2. ASSUME Deny(t)
      PROVE  GateTypeOK'
  <2>1. form' = [form EXCEPT ![t] = [form[t] EXCEPT !.at = "denied"]]
    BY <1>2 DEF Deny
  <2>2. [form[t] EXCEPT !.at = "denied"] \in Form
    BY <1>0, FormRecords
  <2> QED BY <1>0, <1>1, <1>2, <2>1, <2>2 DEF Deny
<1>3. ASSUME NewSession(t), users' \in {0, 1}
      PROVE  GateTypeOK'
  <2>1. form' = [form EXCEPT ![t] = [form[t] EXCEPT !.at = "accepted", !.session = made']]
    BY <1>3 DEF NewSession
  <2>2. made' \in 0..MaxSessions /\ made' \in Session
    BY <1>3 DEF NewSession, Fresh, GateTypeOK, Session
  <2>3. [form[t] EXCEPT !.at = "accepted", !.session = made'] \in Form
    BY <1>0, <2>2, FormRecords
  <2>4. form' \in [Tab -> Form]
    BY <2>1, <2>3 DEF GateTypeOK
  <2>5. live' \subseteq Session
    BY <1>3, <2>2 DEF NewSession, GateTypeOK
  <2> QED BY <1>3, <2>2, <2>4, <2>5 DEF NewSession, GateTypeOK, OneOwner, queries
<1>4. CASE Submit(t)
  <2> DEFINE f == [at |-> "sent", setup |-> View(t) = "setup", session |-> 0]
  <2>1. (View(t) = "setup") \in BOOLEAN
    OBVIOUS
  <2>2. f \in Form
    BY <1>0, <2>1 DEF Form
  <2> QED BY <1>0, <1>1, <1>4, <2>2 DEF Submit
<1>5. CASE Setup(t)
  <2>1. CASE MayBecomeOwner /\ users' = users + 1 /\ NewSession(t)
    BY <1>3, <2>1 DEF MayBecomeOwner
  <2>2. CASE ~MayBecomeOwner /\ Deny(t)
    BY <1>2, <2>2
  <2> QED BY <1>5, <2>1, <2>2 DEF Setup
<1>6. CASE Login(t)
  <2>1. CASE users > 0 /\ NewSession(t) /\ UNCHANGED users
    BY <1>0, <1>3, <2>1 DEF GateTypeOK, OneOwner
  <2>2. CASE Deny(t)
    BY <1>2, <2>2
  <2> QED BY <1>6, <2>1, <2>2 DEF Login
<1>7. CASE Enter(t)
  <2>1. form' = [form EXCEPT ![t] = [form[t] EXCEPT !.at = "settling"]]
    BY <1>7 DEF Enter
  <2>2. [form[t] EXCEPT !.at = "settling"] \in Form
    BY <1>0, FormRecords
  <2>3. form' \in [Tab -> Form]
    BY <2>1, <2>2 DEF GateTypeOK
  <2>4. cookie' \in [Browser -> 0..MaxSessions]
    BY <1>0, <1>7 DEF Enter, GateTypeOK
  <2>5. Invalidated(t, form[t].session)
    BY <1>7 DEF Enter
  <2>6. status' \in [Tab -> StatusQuery] /\ me' \in [Tab -> MeQuery]
    BY <1>0, <2>5, Asked DEF Invalidated, GateTypeOK
  <2> QED BY <1>7, <2>3, <2>4, <2>6 DEF Enter, GateTypeOK, OneOwner, tables
<1>8. CASE Settle(t)
  BY <1>0, <1>1, <1>8, FormRecords DEF Settle
<1>9. CASE LoseForm(t)
  <2>1. [NoForm EXCEPT !.at = "denied"] \in Form
    BY FormRecords, <1>0
  <2> QED BY <1>1, <1>9, <2>1, Counters DEF LoseForm
<1> QED BY <1>4, <1>5, <1>6, <1>7, <1>8, <1>9 DEF FormStep

LEMMA LoadedTyped ==
    ASSUME GateTypeOK, NEW t \in Tab, Loaded(t)
    PROVE  /\ status' \in [Tab -> StatusQuery] /\ me' \in [Tab -> MeQuery]
           /\ form' \in [Tab -> Form] /\ logout' \in [Tab -> Logout]
<1>1. AskStatus(NoStatus) \in StatusQuery
  <2>1. 0 \in 0..MaxSessions
    OBVIOUS
  <2> QED BY <2>1, Asked
<1> QED BY <1>1, MeRecords, FormRecords, LogoutRecords DEF GateTypeOK, Loaded

\* A step that only ends sessions.
LEMMA SessionsEnd ==
    ASSUME GateTypeOK, live' \subseteq live, loads' \in 0..MaxLoads,
           UNCHANGED <<browser, cookie, users, made, queries, form, logout, faults>>
    PROVE  GateTypeOK'
BY DEF GateTypeOK, OneOwner, queries

LEMMA ShellTyped ==
    ASSUME GateTypeOK, NEW t \in Tab, ShellStep(t)
    PROVE  GateTypeOK'
<1>0. /\ logout[t] \in Logout /\ browser[t] \in Browser
      /\ loads \in 0..MaxLoads /\ faults \in 0..MaxFaults
      /\ 0 \in 0..MaxSessions /\ Cookie(t) \in 0..MaxSessions
  BY Counters DEF GateTypeOK
<1>1. ASSUME NEW l \in Logout, logout' = [logout EXCEPT ![t] = l], faults' \in 0..MaxFaults,
             live' \subseteq live,
             UNCHANGED <<browser, cookie, users, made, queries, form, loads>>
      PROVE  GateTypeOK'
  BY <1>1 DEF GateTypeOK, OneOwner, queries
<1>2. CASE Load(t)
  <2>1. loads' \in 0..MaxLoads
    BY <1>2, Counters DEF Load
  <2> QED BY <1>2, <2>1, LoadedTyped DEF Load, GateTypeOK, OneOwner, tables
<1>3. CASE LogOut(t)
  <2>1. [at |-> "sent", carries |-> Cookie(t)] \in Logout
    BY <1>0 DEF Logout
  <2> QED BY <1>0, <1>1, <1>3, <2>1 DEF LogOut, tables
<1>4. CASE EndSession(t)
  <2> DEFINE at == IF logout[t].carries \in live THEN "accepted" ELSE "denied"
  <2>1. logout' = [logout EXCEPT ![t] = [logout[t] EXCEPT !.at = at]]
    BY <1>4 DEF EndSession
  <2>2. [logout[t] EXCEPT !.at = at] \in Logout
    BY <1>0, LogoutRecords
  <2>3. live' \subseteq live
    BY <1>4 DEF EndSession
  <2> QED BY <1>0, <1>1, <1>4, <2>1, <2>2, <2>3 DEF EndSession
<1>5. CASE GoOut(t)
  <2>1. cookie' \in [Browser -> 0..MaxSessions]
    BY <1>0, <1>5 DEF GoOut, GateTypeOK
  <2> QED BY <1>5, <2>1, LoadedTyped DEF GoOut, GateTypeOK, OneOwner, tables
<1>6. CASE StayIn(t)
  BY <1>0, <1>1, <1>6, LogoutRecords DEF StayIn, tables
<1>7. CASE LoseLogout(t)
  <2>1. logout' = [logout EXCEPT ![t] = [logout[t] EXCEPT !.at = "denied"]]
    BY <1>7 DEF LoseLogout
  <2>2. [logout[t] EXCEPT !.at = "denied"] \in Logout
    BY <1>0, LogoutRecords
  <2> QED BY <1>1, <1>7, <2>1, <2>2, Counters DEF LoseLogout, tables
<1>8. CASE ChangePassword(t)
  BY <1>8, SessionsEnd, Counters DEF ChangePassword
<1>9. CASE \E s \in Session : DeleteSession(t, s)
  BY <1>9, SessionsEnd, Counters DEF DeleteSession
<1> QED BY <1>2, <1>3, <1>4, <1>5, <1>6, <1>7, <1>8, <1>9 DEF ShellStep

LEMMA GateInit ==
    ASSUME Init
    PROVE  GateTypeOK
<1>1. 0 \in 0..MaxSessions /\ 0 \in 0..MaxLoads /\ 0 \in 0..MaxFaults /\ 0 \in Nat
  OBVIOUS
<1>2. AskStatus(NoStatus) \in StatusQuery
  BY StatusRecords DEF AskStatus
<1>3. /\ status \in [Tab -> StatusQuery] /\ me \in [Tab -> MeQuery]
      /\ form \in [Tab -> Form] /\ logout \in [Tab -> Logout]
  BY <1>2, MeRecords, FormRecords, LogoutRecords DEF Init
<1>4. cookie \in [Browser -> 0..MaxSessions] /\ browser \in [Tab -> Browser]
  BY <1>1 DEF Init
<1>5. live \subseteq Session
  BY DEF Init
<1> QED BY <1>1, <1>3, <1>4, <1>5 DEF Init, GateTypeOK, OneOwner

LEMMA GateStep ==
    ASSUME GateTypeOK, [Next]_vars
    PROVE  GateTypeOK'
<1>1. CASE UNCHANGED vars
  BY <1>1 DEF vars, tables, queries, GateTypeOK, OneOwner
<1>2. CASE \E t \in Tab : QueryStep(t) \/ FormStep(t) \/ ShellStep(t)
  BY <1>2, QueryTyped, FormTyped, ShellTyped
<1>3. CASE \E s \in Session : Expire(s)
  BY <1>3, SessionsEnd, Counters DEF Expire
<1> QED BY <1>1, <1>2, <1>3 DEF Next

-----------------------------------------------------------------------------
(* Sessions stay apart: a session one browser knows no other browser knows, *)
(* because setup and login make a new one and nobody hears of a session but *)
(* by the cookie of the browser.                                            *)

KnownAreMade == \A b \in Browser, s \in Session : Knows(b, s) => s <= made

SessionsStayApart ==
    \A b \in Browser, c \in Browser, s \in Session : Knows(b, s) /\ Knows(c, s) => b = c

ApartInv == KnownAreMade /\ SessionsStayApart

\* What a step of tab t teaches: nothing to other tabs, to t what its browser knew.
LEMMA ApartKept ==
    ASSUME GateTypeOK, ApartInv, made' = made, browser' = browser,
           \A b \in Browser, s \in Session : Knows(b, s)' => Knows(b, s)
    PROVE  ApartInv'
BY DEF ApartInv, KnownAreMade, SessionsStayApart, GateTypeOK

LEMMA NothingHeard ==
    ASSUME GateTypeOK, UNCHANGED <<browser, cookie, me, form, logout>>,
           NEW b \in Browser, NEW s \in Session, Knows(b, s)'
    PROVE  Knows(b, s)
BY DEF Knows, Heard

\* A step of one tab: what its browser's cookie, its queries, its form and its logout
\* name afterwards, the browser knew before.
LEMMA TabHears ==
    ASSUME GateTypeOK, NEW t \in Tab, browser' = browser,
           \A b \in Browser \ {browser[t]} : cookie'[b] = cookie[b],
           \A u \in Tab \ {t} : me'[u] = me[u] /\ form'[u] = form[u] /\ logout'[u] = logout[u],
           \A s \in Session : cookie'[browser[t]] = s \/ Heard(t, s)' => Knows(browser[t], s),
           NEW b \in Browser, NEW s \in Session, Knows(b, s)'
    PROVE  Knows(b, s)
<1>1. browser[t] \in Browser
  BY DEF GateTypeOK
<1>2. CASE cookie'[b] = s
  BY <1>1, <1>2 DEF Knows
<1>3. CASE \E u \in Tab : browser'[u] = b /\ Heard(u, s)'
  <2>1. PICK u \in Tab : browser[u] = b /\ Heard(u, s)'
    BY <1>3
  <2>2. CASE u = t
    BY <2>1, <2>2
  <2>3. CASE u # t
    BY <2>1, <2>3 DEF Knows, Heard
  <2> QED BY <2>2, <2>3
<1> QED BY <1>2, <1>3 DEF Knows

LEMMA TabKeepsApart ==
    ASSUME GateTypeOK, ApartInv, NEW t \in Tab, browser' = browser, made' = made,
           \A b \in Browser \ {browser[t]} : cookie'[b] = cookie[b],
           \A u \in Tab \ {t} : me'[u] = me[u] /\ form'[u] = form[u] /\ logout'[u] = logout[u],
           \A s \in Session : cookie'[browser[t]] = s \/ Heard(t, s)' => Knows(browser[t], s)
    PROVE  ApartInv'
<1>1. \A b \in Browser, s \in Session : Knows(b, s)' => Knows(b, s)
  BY TabHears
<1> QED BY <1>1, ApartKept

LEMMA QueryApart ==
    ASSUME GateTypeOK, ApartInv, NEW t \in Tab, QueryStep(t)
    PROVE  ApartInv'
<1>0. /\ browser[t] \in Browser /\ me[t] \in MeQuery
      /\ \A s \in Session : s # 0 /\ (s = Cookie(t) \/ Heard(t, s) => Knows(browser[t], s))
      /\ \A r \in MeQuery : [me EXCEPT ![t] = r][t] = r
                         /\ \A u \in Tab \ {t} : [me EXCEPT ![t] = r][u] = me[u]
  BY DEF GateTypeOK, Session, Cookie, Knows
<1>1. ASSUME UNCHANGED <<browser, cookie, tables, me, form, logout>>
      PROVE  ApartInv'
  BY <1>1, NothingHeard, ApartKept DEF tables
<1>2. ASSUME NEW r \in MeQuery, me' = [me EXCEPT ![t] = r],
             UNCHANGED <<browser, cookie, tables, form, logout>>,
             \A s \in {r.data, r.carries, r.answer} \ {0} : s = Cookie(t) \/ Heard(t, s)
      PROVE  ApartInv'
  <2>1. \A u \in Tab \ {t} : me'[u] = me[u] /\ form'[u] = form[u] /\ logout'[u] = logout[u]
    BY <1>0, <1>2
  <2>2. ASSUME NEW s \in Session, cookie'[browser[t]] = s \/ Heard(t, s)'
        PROVE  Knows(browser[t], s)
    <3>1. me'[t] = r
      BY <1>0, <1>2
    <3>2. s = Cookie(t) \/ Heard(t, s)
      BY <1>0, <1>2, <2>2, <3>1 DEF Heard, Cookie
    <3> QED BY <1>0, <3>2
  <2> QED BY <1>2, <2>1, <2>2, TabKeepsApart DEF tables
<1>3. CASE AnswerStatus(t) \/ BreakStatus(t) \/ GiveUpStatus(t)
  BY <1>1, <1>3 DEF AnswerStatus, BreakStatus, GiveUpStatus
<1>4. CASE ReceiveStatus(t)
  <2>1. CASE me' = me
    BY <1>1, <1>4, <2>1 DEF ReceiveStatus
  <2>2. CASE me' = [me EXCEPT ![t] = AskMe(t, Cookie(t))]
    <3>1. /\ AskMe(t, Cookie(t)) \in MeQuery
          /\ AskMe(t, Cookie(t)).data = me[t].data /\ AskMe(t, Cookie(t)).answer = 0
          /\ AskMe(t, Cookie(t)).carries = Cookie(t)
      BY <1>0, Asked, Counters DEF AskMe, MeQuery
    <3> QED BY <1>2, <1>4, <2>2, <3>1 DEF ReceiveStatus, Heard
  <2> QED BY <1>4, <2>1, <2>2 DEF ReceiveStatus
<1>5. CASE AnswerMe(t)
  <2>1. PICK at \in {"answered", "broken"}, s \in {0, me[t].carries} :
            me' = [me EXCEPT ![t] = [me[t] EXCEPT !.at = at, !.answer = s]]
    BY <1>5 DEF AnswerMe
  <2> DEFINE r == [me[t] EXCEPT !.at = at, !.answer = s]
  <2>2. at \in {"answered", "broken"} /\ s \in 0..MaxSessions /\ me[t] \in MeQuery
    BY <1>0, <2>1 DEF MeQuery
  <2>3. r \in MeQuery /\ r.data = me[t].data /\ r.carries = me[t].carries /\ r.answer = s
    <3>1. r \in MeQuery
      BY <2>2, MeRecords
    <3>2. r.data = me[t].data /\ r.carries = me[t].carries /\ r.answer = s
      BY <2>2 DEF MeQuery
    <3> QED BY <3>1, <3>2
  <2>4. me' = [me EXCEPT ![t] = r]
    BY <2>1
  <2> HIDE DEF r
  <2> QED BY <1>2, <1>5, <2>1, <2>3, <2>4 DEF AnswerMe, Heard
<1>6. CASE ReceiveMe(t)
  <2> DEFINE s == IF me[t].at = "answered" THEN me[t].answer ELSE me[t].data
             r == [NoMe EXCEPT !.data = s]
  <2>1. me' = [me EXCEPT ![t] = r]
    BY <1>6 DEF ReceiveMe
  <2>2. s \in {me[t].answer, me[t].data}
    OBVIOUS
  <2>3. r \in MeQuery /\ r.data = s /\ r.carries = 0 /\ r.answer = 0
    BY <1>0, <2>2 DEF NoMe, MeQuery
  <2> HIDE DEF r, s
  <2> QED BY <1>2, <1>6, <2>1, <2>2, <2>3 DEF ReceiveMe, Heard
<1>7. CASE BreakMe(t)
  <2> DEFINE r == [me[t] EXCEPT !.at = "broken", !.answer = 0]
  <2>1. me' = [me EXCEPT ![t] = r]
    BY <1>7 DEF BreakMe
  <2>2. r \in MeQuery /\ r.data = me[t].data /\ r.carries = me[t].carries /\ r.answer = 0
    <3>1. 0 \in 0..MaxSessions
      OBVIOUS
    <3> QED BY <1>0, <3>1, MeFields
  <2> HIDE DEF r
  <2> QED BY <1>2, <1>7, <2>1, <2>2 DEF BreakMe, Heard
<1> QED BY <1>3, <1>4, <1>5, <1>6, <1>7 DEF QueryStep

LEMMA FormApart ==
    ASSUME GateTypeOK, ApartInv, NEW t \in Tab, FormStep(t)
    PROVE  ApartInv'
<1>0. /\ browser[t] \in Browser /\ form[t] \in Form
      /\ \A s \in Session : s # 0 /\ (s = Cookie(t) \/ Heard(t, s) => Knows(browser[t], s))
      /\ \A f \in Form : [form EXCEPT ![t] = f][t] = f
                      /\ \A u \in Tab \ {t} : [form EXCEPT ![t] = f][u] = form[u]
  BY DEF GateTypeOK, Session, Cookie, Knows
<1>1. ASSUME NEW f \in Form, form' = [form EXCEPT ![t] = f],
             f.session \in {0, form[t].session},
             UNCHANGED <<browser, cookie, tables, me, logout>>
      PROVE  ApartInv'
  <2>1. \A u \in Tab \ {t} : me'[u] = me[u] /\ form'[u] = form[u] /\ logout'[u] = logout[u]
    BY <1>0, <1>1
  <2>2. ASSUME NEW s \in Session, cookie'[browser[t]] = s \/ Heard(t, s)'
        PROVE  Knows(browser[t], s)
    <3>1. form'[t] = f
      BY <1>0, <1>1
    <3> QED BY <1>0, <1>1, <2>2, <3>1 DEF Heard, Cookie
  <2> QED BY <1>1, <2>1, <2>2, TabKeepsApart DEF tables
<1>2. ASSUME NewSession(t)
      PROVE  ApartInv'
  <2> DEFINE f == [form[t] EXCEPT !.at = "accepted", !.session = made']
  <2>1. form' = [form EXCEPT ![t] = f] /\ f.session = made'
    BY <1>0, <1>2 DEF NewSession, Form
  <2>2. made \in Nat /\ made' = made + 1
    BY <1>2 DEF NewSession, Fresh, GateTypeOK
  <2> HIDE DEF f
  <2>3. /\ \A u \in Tab \ {t} : form'[u] = form[u]
        /\ form'[t].session = made'
        /\ UNCHANGED <<browser, cookie, me, logout>>
    BY <1>2, <2>1 DEF GateTypeOK, NewSession, queries
  <2>4. ASSUME NEW u \in Tab, NEW s \in Session, Heard(u, s)'
        PROVE  Heard(u, s) \/ (u = t /\ s = made')
    <3>1. CASE u = t
      BY <2>3, <2>4, <3>1 DEF Heard
    <3>2. CASE u # t
      BY <2>3, <2>4, <3>2 DEF Heard
    <3> QED BY <3>1, <3>2
  <2>5. \A b \in Browser, s \in Session :
            Knows(b, s)' => Knows(b, s) \/ (b = browser[t] /\ s = made')
    BY <2>3, <2>4 DEF Knows
  <2>6. KnownAreMade'
    BY <2>2, <2>5 DEF ApartInv, KnownAreMade, Session
  <2>7. SessionsStayApart'
    BY <2>2, <2>5 DEF ApartInv, KnownAreMade, SessionsStayApart, Session
  <2> QED BY <2>6, <2>7 DEF ApartInv
<1>3. ASSUME Deny(t), UNCHANGED tables
      PROVE  ApartInv'
  <2> DEFINE f == [form[t] EXCEPT !.at = "denied"]
  <2>1. f \in Form
    <3>1. form[t] \in Form /\ form[t].session \in 0..MaxSessions
      BY <1>0 DEF Form
    <3> QED BY <3>1, FormRecords
  <2>2. f.session = form[t].session
    BY <1>0 DEF Form
  <2>3. form' = [form EXCEPT ![t] = f]
    BY <1>3 DEF Deny
  <2> HIDE DEF f
  <2> QED BY <1>1, <1>3, <2>1, <2>2, <2>3 DEF Deny, queries
<1>4. CASE Submit(t)
  <2> DEFINE f == [at |-> "sent", setup |-> View(t) = "setup", session |-> 0]
  <2>1. (View(t) = "setup") \in BOOLEAN /\ 0 \in 0..MaxSessions
    OBVIOUS
  <2>2. f \in Form /\ f.session = 0
    BY <2>1 DEF Form
  <2>3. form' = [form EXCEPT ![t] = f]
    BY <1>4 DEF Submit
  <2> HIDE DEF f
  <2> QED BY <1>1, <1>4, <2>2, <2>3 DEF Submit, queries
<1>5. CASE Setup(t)
  BY <1>2, <1>3, <1>5 DEF Setup, Deny
<1>6. CASE Login(t)
  BY <1>2, <1>3, <1>6 DEF Login, Deny
<1>7. CASE Enter(t)
  <2>1. /\ form' = [form EXCEPT ![t] = [form[t] EXCEPT !.at = "settling"]]
        /\ cookie' = [cookie EXCEPT ![browser[t]] = form[t].session]
        /\ me' = me \/ me' = [me EXCEPT ![t] = AskMe(t, form[t].session)]
        /\ UNCHANGED <<browser, tables, logout>>
    BY <1>7 DEF Enter, Invalidated
  <2>2. [form[t] EXCEPT !.at = "settling"].session = form[t].session
    BY <1>0 DEF Form
  <2>3. /\ AskMe(t, form[t].session).data = me[t].data
        /\ AskMe(t, form[t].session).carries = form[t].session
        /\ AskMe(t, form[t].session).answer = 0
    BY DEF AskMe, GateTypeOK, MeQuery
  <2>4. /\ \A u \in Tab \ {t} : me'[u] = me[u] /\ form'[u] = form[u] /\ logout'[u] = logout[u]
        /\ \A b \in Browser \ {browser[t]} : cookie'[b] = cookie[b]
        /\ form'[t].session = form[t].session /\ cookie'[browser[t]] = form[t].session
        /\ me'[t] = me[t] \/ me'[t] = AskMe(t, form[t].session)
    BY <1>0, <2>1, <2>2 DEF GateTypeOK
  <2>5. ASSUME NEW s \in Session, cookie'[browser[t]] = s \/ Heard(t, s)'
        PROVE  Knows(browser[t], s)
    BY <1>0, <2>1, <2>3, <2>4, <2>5 DEF Heard
  <2> QED BY <2>1, <2>4, <2>5, TabKeepsApart DEF tables
<1>8. CASE Settle(t)
  <2>1. NoForm \in Form /\ NoForm.session = 0
    BY FormRecords DEF NoForm
  <2> QED BY <1>1, <1>8, <2>1 DEF Settle, queries
<1>9. CASE LoseForm(t)
  <2> DEFINE f == [NoForm EXCEPT !.at = "denied"]
  <2>1. f \in Form /\ f.session = 0
    <3>1. 0 \in 0..MaxSessions
      OBVIOUS
    <3> QED BY <3>1, FormRecords DEF NoForm
  <2>2. form' = [form EXCEPT ![t] = f]
    BY <1>9 DEF LoseForm
  <2> HIDE DEF f
  <2> QED BY <1>1, <1>9, <2>1, <2>2 DEF LoseForm, queries
<1> QED BY <1>4, <1>5, <1>6, <1>7, <1>8, <1>9 DEF FormStep

LEMMA ShellApart ==
    ASSUME GateTypeOK, ApartInv, NEW t \in Tab, ShellStep(t)
    PROVE  ApartInv'
<1>0. /\ browser[t] \in Browser /\ logout[t] \in Logout
      /\ \A s \in Session : s # 0 /\ (s = Cookie(t) \/ Heard(t, s) => Knows(browser[t], s))
  BY DEF GateTypeOK, Session, Cookie, Knows
<1>1. ASSUME NEW l, logout' = [logout EXCEPT ![t] = l],
             l.carries \in {0, Cookie(t), logout[t].carries},
             UNCHANGED <<browser, cookie, made, queries, form>>
      PROVE  ApartInv'
  <2>1. /\ \A u \in Tab \ {t} : logout'[u] = logout[u]
        /\ logout'[t] = l
    BY <1>1 DEF GateTypeOK
  <2>2. ASSUME NEW s \in Session, cookie'[browser[t]] = s \/ Heard(t, s)'
        PROVE  Knows(browser[t], s)
    BY <1>0, <1>1, <2>1, <2>2 DEF Heard, Cookie, queries
  <2> QED BY <1>1, <2>1, <2>2, TabKeepsApart DEF queries
\* The cookie is all that a full load leaves.
<1>2. ASSUME Loaded(t), UNCHANGED <<browser, made>>,
             cookie' = cookie \/ cookie' = [cookie EXCEPT ![browser[t]] = 0]
      PROVE  ApartInv'
  <2>1. /\ me' = [me EXCEPT ![t] = NoMe] /\ form' = [form EXCEPT ![t] = NoForm]
        /\ logout' = [logout EXCEPT ![t] = NoLogout]
    BY <1>2 DEF Loaded
  <2>2. /\ \A u \in Tab \ {t} : me'[u] = me[u] /\ form'[u] = form[u] /\ logout'[u] = logout[u]
        /\ me'[t] = NoMe /\ form'[t] = NoForm /\ logout'[t] = NoLogout
        /\ \A b \in Browser \ {browser[t]} : cookie'[b] = cookie[b]
        /\ cookie'[browser[t]] \in {0, Cookie(t)}
    BY <1>0, <1>2, <2>1 DEF GateTypeOK, Cookie
  <2>3. ASSUME NEW s \in Session, cookie'[browser[t]] = s \/ Heard(t, s)'
        PROVE  Knows(browser[t], s)
    BY <1>0, <2>2, <2>3 DEF Heard, NoMe, NoForm, NoLogout
  <2> QED BY <1>2, <2>2, <2>3, TabKeepsApart
<1>3. ASSUME UNCHANGED <<browser, cookie, made, queries, form, logout>>
      PROVE  ApartInv'
  BY <1>3, NothingHeard, ApartKept DEF queries
<1>4. CASE Load(t) \/ GoOut(t)
  BY <1>2, <1>4 DEF Load, GoOut, tables
<1>5. CASE LogOut(t)
  BY <1>1, <1>5 DEF LogOut, tables
<1>6. CASE EndSession(t) \/ LoseLogout(t)
  <2>1. PICK at \in {"accepted", "denied"} :
            logout' = [logout EXCEPT ![t] = [logout[t] EXCEPT !.at = at]]
    BY <1>6 DEF EndSession, LoseLogout
  <2>2. [logout[t] EXCEPT !.at = at].carries = logout[t].carries
    BY <1>0 DEF Logout
  <2> QED BY <1>1, <1>6, <2>1, <2>2 DEF EndSession, LoseLogout, tables
<1>7. CASE StayIn(t)
  <2>1. NoLogout.carries = 0
    BY DEF NoLogout
  <2> QED BY <1>1, <1>7, <2>1 DEF StayIn, tables
<1>8. CASE ChangePassword(t) \/ \E s \in Session : DeleteSession(t, s)
  BY <1>3, <1>8 DEF ChangePassword, DeleteSession
<1> QED BY <1>4, <1>5, <1>6, <1>7, <1>8 DEF ShellStep

LEMMA ApartInit ==
    ASSUME Init
    PROVE  ApartInv
<1>1. \A b \in Browser, s \in Session : ~Knows(b, s)
  BY DEF Init, Knows, Heard, NoMe, NoForm, NoLogout, Session
<1> QED BY <1>1 DEF ApartInv, KnownAreMade, SessionsStayApart

LEMMA ApartStep ==
    ASSUME GateTypeOK, ApartInv, [Next]_vars
    PROVE  ApartInv'
<1>1. CASE UNCHANGED vars
  BY <1>1, NothingHeard, ApartKept DEF vars, tables, queries
<1>2. CASE \E t \in Tab : QueryStep(t) \/ FormStep(t) \/ ShellStep(t)
  BY <1>2, QueryApart, FormApart, ShellApart
<1>3. CASE \E s \in Session : Expire(s)
  BY <1>3, NothingHeard, ApartKept DEF Expire, queries
<1> QED BY <1>1, <1>2, <1>3 DEF Next

LEMMA LogoutEndsItsOwn ==
    ASSUME GateTypeOK, ApartInv, NEW t \in Tab, NEW b \in Browser, NEW s \in live,
           EndSession(t), b # browser[t], Knows(b, s)
    PROVE  s \in live'
<1>1. s \in Session /\ browser[t] \in Browser
  BY DEF GateTypeOK
<1>2. ~Knows(browser[t], s)
  BY <1>1 DEF ApartInv, SessionsStayApart
<1>3. s # logout[t].carries
  BY <1>2 DEF Knows, Heard
<1> QED BY <1>3 DEF EndSession

\* However many tabs and browsers there are, and whatever is lost, expires or is
\* loaded again, what App holds of its two queries, AuthForm and the logout keep
\* their shapes, and one of the setup forms at most has made an owner.
THEOREM GateTyped == Spec => []GateTypeOK
<1>1. Init => GateTypeOK
  BY GateInit
<1>2. GateTypeOK /\ [Next]_vars => GateTypeOK'
  BY GateStep
<1> QED BY <1>1, <1>2, PTL DEF Spec

\* However many setup forms are open and submitted at once, handleSetup makes one
\* owner: it counts and inserts in one transaction.
THEOREM OwnerIsOne == Spec => []OneOwner
<1>1. GateTypeOK => OneOwner
  BY DEF GateTypeOK
<1> QED BY <1>1, GateTyped, PTL

\* However many tabs and browsers log in and out at once, and however late a logout
\* arrives: it ends no session that another browser has or is about to get, because
\* login gives every browser a session of its own.
THEOREM LogoutStaysLocal == Spec => LogoutIsLocal
<1>1. Init => GateTypeOK /\ ApartInv
  BY GateInit, ApartInit
<1>2. (GateTypeOK /\ ApartInv) /\ [Next]_vars => (GateTypeOK /\ ApartInv)'
  BY GateStep, ApartStep
<1>3. (GateTypeOK /\ ApartInv) /\ [Next]_vars =>
          [\A t \in Tab, b \in Browser, s \in live :
              EndSession(t) /\ b # browser[t] /\ Knows(b, s) => s \in live']_vars
  BY LogoutEndsItsOwn
<1> QED BY <1>1, <1>2, <1>3, PTL DEF Spec, LogoutIsLocal

\* No session is ever known to two browsers, and every cookie, form and query names one
\* that setup or login made.
THEOREM BrowsersStayApart == Spec => [](SessionsStayApart /\ KnownAreMade)
<1>1. Init => GateTypeOK /\ ApartInv
  BY GateInit, ApartInit
<1>2. (GateTypeOK /\ ApartInv) /\ [Next]_vars => (GateTypeOK /\ ApartInv)'
  BY GateStep, ApartStep
<1> QED BY <1>1, <1>2, PTL DEF Spec, ApartInv
=============================================================================
