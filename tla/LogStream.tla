------------------------------ MODULE LogStream ------------------------------
(***************************************************************************)
(* The log of a deployment on its way to a browser: the writer that the    *)
(* runner opens, which appends to a file and then publishes to the         *)
(* channels of the subscribers; the handler of one event stream, which     *)
(* subscribes, replays the file and follows its channel; and the page that *)
(* shows the deployment, whose EventSource reconnects with the id of the   *)
(* last event it got.  A channel that is full is dropped and closed, a     *)
(* connection may break, the process may restart.                          *)
(***************************************************************************)
EXTENDS Integers, Sequences

CONSTANTS
    Deployment, Viewer,
    Conn,          \* event stream requests; a viewer uses one at a time
    NoPage, NoConn, Failed,
    Sizes,         \* how large an encoded entry may be
    MarkSize,      \* the size of the encoded truncation mark
    MaxBytes,      \* LogMaxBytes
    MaxLine,       \* the longest line the scanner of ReadAfter takes
    Buffer,        \* capacity of a subscriber's channel
    Link,          \* pairs: the page of the first deployment links to the second
    MaxMoves       \* bound: pages opened or left, connections and reads of the
                   \* handlers that fail, restarts

ASSUME LogAssumption ==
    /\ Sizes \subseteq Nat \ {0}
    /\ MarkSize \in Nat \ {0} /\ MaxBytes \in Nat /\ MaxLine \in Nat
    /\ Buffer \in Nat /\ MaxMoves \in Nat
    /\ Link \subseteq Deployment \X Deployment
    /\ NoPage \notin Deployment
    /\ NoConn \notin Conn /\ Failed \notin Conn /\ NoConn # Failed

VARIABLES
    file,          \* file[d]: the entries in the log file of d
    writer,        \* writer[d]: the Writer of d, and how far its run has got
    stuck,         \* the mutex of the Store is never unlocked again
    conn,          \* conn[c]: a request and its handler
    page,          \* page[v]: the deployment whose page v looks at
    source,        \* source[v]: the connection of the page's EventSource
    lastId,        \* lastId[v]: its last event id
    shown,         \* shown[v]: the lines of the page (the state `logs`)
    moves

server == <<file, writer, stuck, conn>>
client == <<page, source, lastId, shown>>
vars == <<server, client, moves>>

Entry == [sequence : Nat, kind : {"line", "mark"}, size : Nat]
Line  == [dep : Deployment, entry : Entry]

\* waiting: no log yet; open: between Open and Close; closed: the status is
\* still one of a run; settled: the status is terminal.
Phase == {"waiting", "open", "closed", "settled"}

Writer == [phase : Phase, size : Nat, sequence : Nat, truncated : BOOLEAN,
           publishing : BOOLEAN]       \* written, not yet published
NewWriter == [phase |-> "waiting", size |-> 0, sequence |-> 0,
              truncated |-> FALSE, publishing |-> FALSE]

Handler == [at : {"free", "sent", "found", "subscribed", "streaming",
                  "leaving", "finished"},
            dep : Deployment \cup {NoPage},
            settled : BOOLEAN,         \* the status it read at the start
            after : Nat,
            chan : Seq(Entry),
            dropped : BOOLEAN,         \* publish found the channel full
            refused : BOOLEAN,         \* answered with an error status
            wire : Seq(Entry)]         \* sent, not yet received

LogTypeOK ==
    /\ file \in [Deployment -> Seq(Entry)]
    /\ writer \in [Deployment -> Writer]
    /\ stuck \in BOOLEAN
    /\ conn \in [Conn -> Handler]
    /\ page \in [Viewer -> Deployment \cup {NoPage}]
    /\ source \in [Viewer -> Conn \cup {NoConn, Failed}]
    /\ lastId \in [Viewer -> Nat]
    /\ shown \in [Viewer -> Seq(Line)]
    /\ moves \in 0..MaxMoves

Free == [at |-> "free", dep |-> NoPage, settled |-> FALSE, after |-> 0,
         chan |-> <<>>, dropped |-> FALSE, refused |-> FALSE, wire |-> <<>>]

Init ==
    /\ file = [d \in Deployment |-> <<>>]
    /\ writer = [d \in Deployment |-> NewWriter]
    /\ stuck = FALSE
    /\ conn = [c \in Conn |-> Free]
    /\ page = [v \in Viewer |-> NoPage]
    /\ source = [v \in Viewer |-> NoConn]
    /\ lastId = [v \in Viewer |-> 0]
    /\ shown = [v \in Viewer |-> <<>>]
    /\ moves = 0

-----------------------------------------------------------------------------
(* The writer.  Open, publish and Close take the Store's mutex. *)

OpenWriter(d) ==
    /\ writer[d].phase = "waiting"
    /\ ~stuck
    /\ writer' = [writer EXCEPT ![d].phase = "open"]
    /\ UNCHANGED <<file, stuck, conn, client, moves>>

\* What an entry of n bytes becomes: nothing, the mark when it is the first that
\* does not fit, or itself.
Dropped(w, n) == w.size + n > MaxBytes /\ w.truncated

\* Mutant: the mark takes the number of the entry before it.
NewEntryMutant(w, n) ==
    IF w.size + n > MaxBytes
    THEN [sequence |-> w.sequence, kind |-> "mark", size |-> MarkSize]
    ELSE [sequence |-> w.sequence + 1, kind |-> "line", size |-> n]

NewEntry(w, n) ==
    IF w.size + n > MaxBytes
    THEN [sequence |-> w.sequence + 1, kind |-> "mark", size |-> MarkSize]
    ELSE [sequence |-> w.sequence + 1, kind |-> "line", size |-> n]

\* WriteStep up to publish: the file first, then size and sequence.  (An entry
\* that is dropped, or that the file does not take, changes nothing.)
WriteEntry(d, n) ==
    LET w == writer[d]
        e == NewEntry(w, n)
    IN /\ w.phase = "open" /\ ~w.publishing
       /\ ~Dropped(w, n)
       /\ file' = [file EXCEPT ![d] = Append(@, e)]
       /\ writer' = [writer EXCEPT ![d].size = @ + e.size,
                                   ![d].sequence = e.sequence,
                                   ![d].truncated = @ \/ e.kind = "mark",
                                   ![d].publishing = TRUE]
       /\ UNCHANGED <<stuck, conn, client, moves>>

Subscribed(c, d) ==
    /\ conn[c].dep = d
    /\ conn[c].at \in {"subscribed", "streaming", "leaving"}
    /\ ~conn[c].dropped

\* Mutant: a full channel misses the entry and is kept.
DeliveredMutant(h, e) ==
    IF Len(h.chan) < Buffer THEN [h EXCEPT !.chan = Append(@, e)] ELSE h

Delivered(h, e) ==
    IF Len(h.chan) < Buffer THEN [h EXCEPT !.chan = Append(@, e)]
                            ELSE [h EXCEPT !.dropped = TRUE]

\* publish: nobody is waited for, a full channel is dropped and closed.
Publish(d) ==
    /\ writer[d].publishing
    /\ ~stuck
    /\ conn' = [c \in Conn |-> IF Subscribed(c, d)
                               THEN Delivered(conn[c], file[d][Len(file[d])])
                               ELSE conn[c]]
    /\ writer' = [writer EXCEPT ![d].publishing = FALSE]
    /\ UNCHANGED <<file, stuck, client, moves>>

\* The command has ended and run() returns.
CloseWriter(d) ==
    /\ writer[d].phase = "open" /\ ~writer[d].publishing
    /\ ~stuck
    /\ writer' = [writer EXCEPT ![d].phase = "closed"]
    /\ UNCHANGED <<file, stuck, conn, client, moves>>

\* The terminal status: after the log of a run, or of a deployment that was
\* cancelled in the queue.
Settle(d) ==
    /\ writer[d].phase \in {"waiting", "closed"}
    /\ writer' = [writer EXCEPT ![d].phase = "settled"]
    /\ UNCHANGED <<file, stuck, conn, client, moves>>

-----------------------------------------------------------------------------
(* The handler of one request *)

Move(c, from, h) ==
    /\ conn[c].at = from
    /\ conn' = [conn EXCEPT ![c] = h]

Gone(c) == \A v \in Viewer : source[v] # c

CanMove == moves < MaxMoves /\ moves' = moves + 1

\* deps.Get: the status is read once, before the subscription.
FindDeployment(c) ==
    /\ Move(c, "sent", [conn[c] EXCEPT !.at = "found",
                          !.settled = writer[conn[c].dep].phase = "settled"])
    /\ UNCHANGED <<file, writer, stuck, client, moves>>

\* The session or the deployment is not there, or its row cannot be read: an error
\* status, before the subscription.
FindFails(c) ==
    /\ CanMove
    /\ Move(c, "sent", IF Gone(c) THEN Free
                       ELSE [conn[c] EXCEPT !.at = "finished", !.refused = TRUE])
    /\ UNCHANGED <<file, writer, stuck, client>>

\* The request was given up: the query fails with its context.
Abandon(c) ==
    /\ Gone(c)
    /\ Move(c, "sent", Free)
    /\ UNCHANGED <<file, writer, stuck, client, moves>>

Subscribe(c) ==
    /\ ~stuck
    /\ Move(c, "found", [conn[c] EXCEPT !.at = "subscribed"])
    /\ UNCHANGED <<file, writer, stuck, client, moves>>

Readable(d) == \A i \in DOMAIN file[d] : file[d][i].size <= MaxLine

\* The entries numbered above n: a file numbers them 1, 2, ... (Numbered).
After(d, n) == SubSeq(file[d], n + 1, Len(file[d]))

\* Mutant: a settled deployment is left before the replay.
HistoryMutant(h) == IF h.settled THEN <<>> ELSE After(h.dep, h.after)

History(h) == After(h.dep, h.after)

\* ReadAfter and the replay.  A line the scanner does not take is a 500.
ReadHistory(c) ==
    LET h == conn[c]
        history == History(h)
    IN /\ h.at = "subscribed"
       /\ IF Readable(h.dep)
          THEN Move(c, "subscribed",
                 [h EXCEPT !.at = IF h.settled THEN "leaving" ELSE "streaming",
                           !.wire = @ \o history,
                           !.after = IF history = <<>> THEN @
                                     ELSE history[Len(history)].sequence])
          ELSE Move(c, "subscribed", [h EXCEPT !.at = "leaving", !.refused = TRUE])
       /\ UNCHANGED <<file, writer, stuck, client, moves>>

\* Mutant: whatever the channel holds is sent.
IsNewMutant(h, e) == TRUE

IsNew(h, e) == e.sequence > h.after

\* An entry of the channel, unless the replay had it.
Forward(c) ==
    LET h == conn[c] IN
    /\ h.chan # <<>>
    /\ LET e == Head(h.chan) IN
       Move(c, "streaming",
            IF IsNew(h, e)
            THEN [h EXCEPT !.chan = Tail(@), !.wire = Append(@, e),
                           !.after = e.sequence]
            ELSE [h EXCEPT !.chan = Tail(@)])
    /\ UNCHANGED <<file, writer, stuck, client, moves>>

\* The loop ends: the channel is closed and empty, the request is over, or the
\* ticker finds a terminal status, whatever the channel still holds.
LeaveLoop(c) ==
    /\ conn[c].at = "streaming"
    /\ \/ conn[c].dropped /\ conn[c].chan = <<>>
       \/ Gone(c)
       \/ writer[conn[c].dep].phase = "settled"
    /\ Move(c, "streaming", [conn[c] EXCEPT !.at = "leaving"])
    /\ UNCHANGED <<file, writer, stuck, client, moves>>

\* The ticker's read of the status fails, and the stream ends as if it were settled.
LoopFails(c) ==
    /\ CanMove
    /\ Move(c, "streaming", [conn[c] EXCEPT !.at = "leaving"])
    /\ UNCHANGED <<file, writer, stuck, client>>

\* The deferred unsubscribe closes the channel.  Closing one that publish has
\* closed panics between Lock and Unlock: net/http recovers, the mutex stays.
Unsubscribe(c) ==
    /\ ~stuck
    /\ stuck' = conn[c].dropped
    /\ Move(c, "leaving",
            IF Gone(c) THEN Free
            ELSE [conn[c] EXCEPT !.at = "finished", !.chan = <<>>,
                                 !.dropped = FALSE])
    /\ UNCHANGED <<file, writer, client, moves>>
-----------------------------------------------------------------------------
(* The page *)

\* What closing the source of v leaves of its request.
Closed(v) ==
    [c \in Conn |-> IF c # source[v] THEN conn[c]
                    ELSE IF conn[c].at = "finished" THEN Free
                    ELSE [conn[c] EXCEPT !.wire = <<>>]]

\* A full load of the page, or a way to it from another page, or away from it.
OpenPage(v, d) ==
    /\ CanMove
    /\ page' = [page EXCEPT ![v] = d]
    /\ shown' = [shown EXCEPT ![v] = <<>>]
    /\ source' = [source EXCEPT ![v] = NoConn]
    /\ lastId' = [lastId EXCEPT ![v] = 0]
    /\ conn' = Closed(v)
    /\ UNCHANGED <<file, writer, stuck>>

\* The link to the deployment the artifacts come from.  The route is the same, so
\* the component stays and only the effect of [id] runs again: a new EventSource,
\* and the lines there are.
FollowLink(v) ==
    /\ CanMove
    /\ \E d \in Deployment :
        /\ <<page[v], d>> \in Link
        /\ page' = [page EXCEPT ![v] = d]
    /\ source' = [source EXCEPT ![v] = NoConn]
    /\ lastId' = [lastId EXCEPT ![v] = 0]
    /\ conn' = Closed(v)
    /\ UNCHANGED <<file, writer, stuck, shown>>

\* new EventSource, and its reconnection with the Last-Event-ID.
Connect(v) ==
    /\ page[v] # NoPage
    /\ source[v] = NoConn
    /\ \E c \in Conn :
        /\ conn[c].at = "free"
        /\ conn' = [conn EXCEPT ![c] = [Free EXCEPT !.at = "sent", !.dep = page[v],
                                                    !.after = lastId[v]]]
        /\ source' = [source EXCEPT ![v] = c]
    /\ UNCHANGED <<file, writer, stuck, page, lastId, shown, moves>>

HasLine(v, e) ==
    \E i \in DOMAIN shown[v] : shown[v][i].entry.sequence = e.sequence

\* onmessage
Receive(v) ==
    LET c == source[v] IN
    /\ c \in Conn
    /\ conn[c].wire # <<>>
    /\ LET e == Head(conn[c].wire) IN
        /\ lastId' = [lastId EXCEPT ![v] = e.sequence]
        /\ shown' = IF HasLine(v, e) THEN shown
                    ELSE [shown EXCEPT ![v] =
                            Append(@, [dep |-> page[v], entry |-> e])]
    /\ conn' = [conn EXCEPT ![c].wire = Tail(@)]
    /\ UNCHANGED <<file, writer, stuck, page, source, moves>>

\* The response has ended.  An error status is final for an EventSource.
SeeEnd(v) ==
    LET c == source[v] IN
    /\ c \in Conn
    /\ conn[c].at = "finished" /\ conn[c].wire = <<>>
    /\ source' = [source EXCEPT ![v] = IF conn[c].refused THEN Failed ELSE NoConn]
    /\ conn' = [conn EXCEPT ![c] = Free]
    /\ UNCHANGED <<file, writer, stuck, page, lastId, shown, moves>>

\* The network loses the connection and what was on its way.
Break(v) ==
    /\ source[v] \in Conn
    /\ CanMove
    /\ source' = [source EXCEPT ![v] = NoConn]
    /\ conn' = Closed(v)
    /\ UNCHANGED <<file, writer, stuck, page, lastId, shown>>

\* Mutant: a status of its own, which nobody knows.
RecoveredTypeMutant(w) ==
    [w EXCEPT !.publishing = FALSE,
              !.phase = IF @ \in {"open", "closed"} THEN "interrupted" ELSE @]

\* What recover() and the next process make of a writer.
Recovered(w) ==
    [w EXCEPT !.publishing = FALSE,
              !.phase = IF @ \in {"open", "closed"} THEN "settled" ELSE @]

\* The process ends and starts again.
Restart ==
    /\ CanMove
    /\ stuck' = FALSE
    /\ conn' = [c \in Conn |-> Free]
    /\ source' = [v \in Viewer |-> IF source[v] \in Conn THEN NoConn ELSE source[v]]
    /\ writer' = [d \in Deployment |-> Recovered(writer[d])]
    /\ UNCHANGED <<file, page, lastId, shown>>

-----------------------------------------------------------------------------
Run(d) == \/ OpenWriter(d) \/ \E n \in Sizes : WriteEntry(d, n)
          \/ Publish(d) \/ CloseWriter(d) \/ Settle(d)

Serve(c) == \/ FindDeployment(c) \/ Abandon(c) \/ Subscribe(c) \/ ReadHistory(c)
            \/ Forward(c) \/ LeaveLoop(c) \/ Unsubscribe(c)

ReadFails(c) == FindFails(c) \/ LoopFails(c)

Browse(v) == \/ \E d \in Deployment \cup {NoPage} : OpenPage(v, d)
             \/ FollowLink(v) \/ Break(v)

Listen(v) == Connect(v) \/ Receive(v) \/ SeeEnd(v)

Next == \/ \E d \in Deployment : Run(d)
        \/ \E c \in Conn : Serve(c) \/ ReadFails(c)
        \/ \E v \in Viewer : Browse(v) \/ Listen(v)
        \/ Restart

Spec == Init /\ [][Next]_vars

\* run() ends, handlers and browsers go on; nobody has to open or leave a page, and no
\* read has to fail.
Fairness ==
    /\ \A d \in Deployment : WF_vars(Publish(d)) /\ WF_vars(CloseWriter(d))
                             /\ WF_vars(Settle(d))
    /\ \A c \in Conn : WF_vars(Serve(c))
    /\ \A v \in Viewer : WF_vars(Listen(v))

FairSpec == Spec /\ Fairness

-----------------------------------------------------------------------------
(* Properties *)

\* A file numbers its entries without a gap, through marks and dropped entries:
\* the ids a stream is resumed with (docs/requirements.md:546).
Numbered == \A d \in Deployment : \A i \in DOMAIN file[d] : file[d][i].sequence = i

OwnLines(v) == \A i \in DOMAIN shown[v] : shown[v][i].dep = page[v]

\* What is on its way to a page continues what it has got: a resumed stream
\* sends nothing twice.
NothingTwice ==
    \A v \in Viewer : source[v] \in Conn =>
        \A i \in DOMAIN conn[source[v]].wire :
            conn[source[v]].wire[i].sequence = lastId[v] + i

\* The stream implements the abstract feed: what a page shows at place n is entry n of
\* a log it looked at, also when it kept the lines of another deployment and the number
\* a line has already hides that line of the new one.
Feed == INSTANCE LogFeed WITH log <- file, lines <- shown

ImplementsFeed == Feed!Spec

\* The page of a settled deployment comes to show its whole log, unless it is
\* left, the server refused the stream, which is final for an EventSource (the log
\* or the row cannot be read), the Store hangs, or lines of another are there.
PageCatchesUp ==
    \A v \in Viewer, d \in Deployment :
        (writer[d].phase = "settled" /\ page[v] = d) ~>
            \/ page[v] # d \/ ~OwnLines(v) \/ stuck \/ source[v] = Failed
            \/ Len(shown[v]) = Len(file[d])

\* Expected to fail: a log that was opened is closed again and its deployment
\* settled, whatever the viewers do (docs/requirements.md:858).
LogsEnd ==
    \A d \in Deployment : (writer[d].phase = "open") ~> (writer[d].phase = "settled")
=============================================================================
