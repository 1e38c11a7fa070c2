------------------------------- MODULE LogFeed -------------------------------
(***************************************************************************)
(* What the way of a log to its pages promises, without the connections in *)
(* between: logs only grow at their end, and the line that a page puts at  *)
(* place n is entry n of the log it looks at in that moment.  Nothing is   *)
(* shown twice, skipped, reordered or taken back while the page is open.   *)
(*                                                                         *)
(* It also says what a page does with the lines it had when a link leads   *)
(* to another log: it may keep them, and then shows the new log from the   *)
(* place where the old lines end.                                          *)
(*                                                                         *)
(* LogStream implements this specification (LogStream!Feed).               *)
(***************************************************************************)
EXTENDS Naturals, Sequences

CONSTANTS
    Deployment, Viewer,
    NoPage          \* the viewer looks at no log

VARIABLES
    log,            \* log[d]: the entries of d
    page,           \* page[v]: the deployment viewer v looks at
    lines           \* lines[v]: what it has on its page

vars == <<log, page, lines>>

Init ==
    /\ log = [d \in Deployment |-> <<>>]
    /\ page = [v \in Viewer |-> NoPage]
    /\ lines = [v \in Viewer |-> <<>>]

\* One entry is added at the end of one log.
Write(d) ==
    /\ Len(log'[d]) = Len(log[d]) + 1
    /\ \A i \in 1..Len(log[d]) : log'[d][i] = log[d][i]
    /\ log' = [log EXCEPT ![d] = log'[d]]
    /\ UNCHANGED <<page, lines>>

\* The entry whose place comes next on the page.
Show(v) ==
    LET n == Len(lines[v]) + 1 IN
    /\ page[v] # NoPage
    /\ n <= Len(log[page[v]])
    /\ lines' = [lines EXCEPT ![v] =
                    Append(@, [dep |-> page[v], entry |-> log[page[v]][n]])]
    /\ UNCHANGED <<log, page>>

\* The viewer opens a page, with no lines on it, or leaves for nowhere.
Open(v, d) ==
    /\ page' = [page EXCEPT ![v] = d]
    /\ lines' = [lines EXCEPT ![v] = <<>>]
    /\ UNCHANGED log

\* A link from one deployment to another: the lines stay.
Turn(v, d) ==
    /\ page[v] # NoPage
    /\ page' = [page EXCEPT ![v] = d]
    /\ UNCHANGED <<log, lines>>

Next ==
    \/ \E d \in Deployment : Write(d)
    \/ \E v \in Viewer :
          \/ Show(v)
          \/ \E d \in Deployment \cup {NoPage} : Open(v, d)
          \/ \E d \in Deployment : Turn(v, d)

Spec == Init /\ [][Next]_vars
=============================================================================
