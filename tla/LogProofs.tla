------------------------------ MODULE LogProofs ------------------------------
(***************************************************************************)
(* For any deployments, viewers, connections, sizes and bounds: the ids of *)
(* a log have no gap, a page shows a prefix of its file, and a resumed     *)
(* stream repeats nothing.  What a handler owes is said with Chunk: both   *)
(* its channel and its wire hold consecutive entries of the file, the wire *)
(* those up to `after`, the channel those up to the last one published,    *)
(* and while it streams the two leave no entry between them.               *)
(***************************************************************************)
EXTENDS LogStream, SequenceTheorems, TLAPS

USE LogAssumption

\* s is what follows the first k entries of f.
Chunk(s, f, k) == \A i \in 1..Len(s) : k + i \in 1..Len(f) /\ s[i] = f[k + i]

Published(d) == IF writer[d].publishing THEN Len(file[d]) - 1 ELSE Len(file[d])

WriterInv(d) ==
    /\ writer[d].sequence = Len(file[d])
    /\ writer[d].publishing => Len(file[d]) > 0
    /\ \A i \in 1..Len(file[d]) : file[d][i].sequence = i

From(s) == s[1].sequence - 1

\* The channel ends with the last entry published, unless it was full once.
ChanInv(h, d) ==
    h.chan # <<>> =>
        /\ Chunk(h.chan, file[d], From(h.chan))
        /\ ~h.dropped => From(h.chan) + Len(h.chan) = Published(d)

\* Nothing is missing between what was sent and what will come.
Joined(h, d) ==
    IF h.chan = <<>> THEN h.dropped \/ Published(d) <= h.after
                     ELSE From(h.chan) <= h.after

AtWork(h) ==
    /\ h.dep \in Deployment
    /\ h.after <= Len(file[h.dep]) /\ Len(h.wire) <= h.after
    /\ Chunk(h.wire, file[h.dep], h.after - Len(h.wire))
    /\ ChanInv(h, h.dep)
    /\ h.at \in {"sent", "found", "finished"} => h.chan = <<>> /\ ~h.dropped
    /\ h.at \in {"sent", "found", "subscribed"} => h.wire = <<>>
    /\ h.at = "streaming" => Joined(h, h.dep)

HandlerInv(h) == IF h.at = "free" THEN h = Free ELSE AtWork(h)

\* The request of a page: the wire continues what the page has got.
SourceInv(v) ==
    /\ source[v] \in Conn =>
         /\ conn[source[v]].at # "free" /\ conn[source[v]].dep = page[v]
         /\ lastId[v] = conn[source[v]].after - Len(conn[source[v]].wire)
         /\ \A w \in Viewer \ {v} : source[w] # source[v]
    /\ page[v] # NoPage => lastId[v] <= Len(file[page[v]])

\* Whatever deployment a line is of, its place on the page is its place in that file;
\* and a page has at least as many lines as its EventSource has got entries.
ShownInv(v) ==
    /\ \A i \in 1..Len(shown[v]) :
          LET f == file[shown[v][i].dep]
          IN  i \in 1..Len(f) /\ shown[v][i].entry = f[i]
    /\ page[v] # NoPage => lastId[v] <= Len(shown[v])

StreamInv == /\ \A d \in Deployment : WriterInv(d)
             /\ \A c \in Conn : HandlerInv(conn[c])
             /\ \A v \in Viewer : SourceInv(v) /\ ShownInv(v)

LogInv == LogTypeOK /\ StreamInv

-----------------------------------------------------------------------------
(* Chunks *)

LEMMA ChunkGrows ==
    ASSUME NEW s \in Seq(Entry), NEW f \in Seq(Entry), NEW k \in Int, NEW e \in Entry,
           Chunk(s, f, k)
    PROVE  Chunk(s, Append(f, e), k)
<1>1. /\ Len(Append(f, e)) = Len(f) + 1 /\ Len(f) \in Nat
      /\ \A i \in 1..Len(f) : Append(f, e)[i] = f[i]
  BY AppendProperties, LenProperties
<1> QED BY <1>1 DEF Chunk

LEMMA ChunkAppend ==
    ASSUME NEW s \in Seq(Entry), NEW f \in Seq(Entry), NEW k \in Int,
           Chunk(s, f, k), k + Len(s) + 1 \in 1..Len(f)
    PROVE  Chunk(Append(s, f[k + Len(s) + 1]), f, k)
<1> DEFINE e == f[k + Len(s) + 1]
<1>1. e \in Entry
  BY ElementOfSeq
<1> HIDE DEF e
<1>2. /\ Len(Append(s, e)) = Len(s) + 1 /\ Len(s) \in Nat
      /\ \A i \in 1..Len(s) : Append(s, e)[i] = s[i]
      /\ Append(s, e)[Len(s) + 1] = e
  BY <1>1, AppendProperties, LenProperties
<1>3. ASSUME NEW i \in 1..Len(Append(s, e))
      PROVE  k + i \in 1..Len(f) /\ Append(s, e)[i] = f[k + i]
  <2>1. CASE i \in 1..Len(s)
    BY <1>2, <2>1 DEF Chunk
  <2>2. CASE i = Len(s) + 1
    <3>1. k + i = k + Len(s) + 1
      BY <1>2, <2>2
    <3> QED BY <1>2, <2>2, <3>1 DEF e
  <2> QED BY <1>2, <2>1, <2>2
<1>4. Chunk(Append(s, e), f, k)
  BY <1>3 DEF Chunk
<1> QED BY <1>4 DEF e

LEMMA ChunkTail ==
    ASSUME NEW s \in Seq(Entry), NEW f \in Seq(Entry), NEW k \in Int,
           Chunk(s, f, k), s # <<>>
    PROVE  /\ Chunk(Tail(s), f, k + 1) /\ Tail(s) \in Seq(Entry)
           /\ Len(Tail(s)) = Len(s) - 1 /\ Len(s) \in Nat \ {0}
           /\ k + 1 \in 1..Len(f) /\ Head(s) = f[k + 1] /\ s[1] = f[k + 1]
           /\ Tail(s) # <<>> => Tail(s)[1] = f[k + 2] /\ k + 2 \in 1..Len(f)
<1> DEFINE t == Tail(s)
<1>1. /\ Len(t) = Len(s) - 1 /\ t \in Seq(Entry)
      /\ \A i \in 1..Len(t) : t[i] = s[i + 1]
  BY HeadTailProperties
<1>2. Len(s) \in Nat \ {0}
  BY EmptySeq
<1>3. Head(s) = s[1]
  OBVIOUS
<1> HIDE DEF t
<1>4. 1 \in 1..Len(s)
  BY <1>2
<1>5. k + 1 \in 1..Len(f) /\ s[1] = f[k + 1]
  BY <1>4 DEF Chunk
<1>6. ASSUME NEW i \in 1..Len(t)
      PROVE  (k + 1) + i \in 1..Len(f) /\ t[i] = f[(k + 1) + i]
  <2>1. i + 1 \in 1..Len(s) /\ k + (i + 1) = (k + 1) + i
    BY <1>1, <1>2
  <2>2. t[i] = s[i + 1] /\ s[i + 1] = f[k + (i + 1)] /\ k + (i + 1) \in 1..Len(f)
    BY <1>1, <2>1 DEF Chunk
  <2> QED BY <2>1, <2>2
<1>7. Chunk(t, f, k + 1)
  BY <1>6 DEF Chunk
<1>8. ASSUME t # <<>>
      PROVE  t[1] = f[k + 2] /\ k + 2 \in 1..Len(f)
  <2>1. Len(t) \in Nat \ {0}
    BY <1>1, <1>8, EmptySeq
  <2>2. 1 \in 1..Len(t) /\ (k + 1) + 1 = k + 2
    BY <2>1
  <2>3. t[1] = f[(k + 1) + 1] /\ (k + 1) + 1 \in 1..Len(f)
    BY <1>6, <2>2
  <2> QED BY <2>2, <2>3
<1> QED BY <1>1, <1>2, <1>3, <1>5, <1>7, <1>8 DEF t

\* What a replay sends: from the id it resumes at to the end of the file.
LEMMA ChunkAfter ==
    ASSUME NEW f \in Seq(Entry), NEW k \in Nat, k <= Len(f)
    PROVE  LET s == SubSeq(f, k + 1, Len(f)) IN
           /\ s \in Seq(Entry) /\ Len(s) = Len(f) - k /\ Chunk(s, f, k)
<1> DEFINE s == SubSeq(f, k + 1, Len(f))
<1>1. Len(f) \in Nat
  BY LenProperties
<1>2. \A i \in (k + 1)..Len(f) : f[i] \in Entry
  <2>1. \A i \in (k + 1)..Len(f) : i \in 1..Len(f)
    BY <1>1
  <2> QED BY <2>1, ElementOfSeq
<1>3. /\ s \in Seq(Entry)
      /\ Len(s) = IF k + 1 <= Len(f) THEN Len(f) - (k + 1) + 1 ELSE 0
      /\ \A i \in 1..(Len(f) - (k + 1) + 1) : s[i] = f[(k + 1) + i - 1]
  <2>1. k + 1 \in Int /\ Len(f) \in Int
    BY <1>1
  <2> HIDE DEF Entry
  <2> QED BY <1>2, <2>1, SubSeqProperties
<1>4. Len(s) = Len(f) - k
  BY <1>1, <1>3
<1> HIDE DEF s
<1>5. ASSUME NEW i \in 1..Len(s)
      PROVE  k + i \in 1..Len(f) /\ s[i] = f[k + i]
  <2>1. i \in 1..(Len(f) - (k + 1) + 1) /\ (k + 1) + i - 1 = k + i
    BY <1>1, <1>4
  <2> QED BY <1>1, <1>3, <1>4, <2>1
<1>6. Chunk(s, f, k)
  BY <1>5 DEF Chunk
<1> QED BY <1>3, <1>4, <1>6 DEF s

-----------------------------------------------------------------------------
(* Records *)

At == {"free", "sent", "found", "subscribed", "streaming", "leaving", "finished"}

LEMMA HandlerRecords ==
    /\ Free \in Handler
    /\ \A d \in Deployment, n \in Nat :
          [Free EXCEPT !.at = "sent", !.dep = d, !.after = n] \in Handler
    /\ \A h \in Handler, a \in At, b \in BOOLEAN, n \in Nat,
          s \in Seq(Entry), w \in Seq(Entry) :
          /\ [h EXCEPT !.at = a] \in Handler
          /\ [h EXCEPT !.at = a, !.settled = b] \in Handler
          /\ [h EXCEPT !.at = a, !.refused = b] \in Handler
          /\ [h EXCEPT !.at = a, !.wire = w, !.after = n] \in Handler
          /\ [h EXCEPT !.at = a, !.chan = s, !.dropped = b] \in Handler
          /\ [h EXCEPT !.chan = s, !.wire = w, !.after = n] \in Handler
          /\ [h EXCEPT !.chan = s] \in Handler
          /\ [h EXCEPT !.wire = w] \in Handler
          /\ [h EXCEPT !.dropped = b] \in Handler
<1>1. <<>> \in Seq(Entry) /\ 0 \in Nat
  OBVIOUS
<1>2. Free \in Handler
  BY <1>1 DEF Free, Handler
<1>3. \A h \in Handler, a \in At, n \in Nat, d \in Deployment :
         [h EXCEPT !.at = a, !.dep = d, !.after = n] \in Handler
  BY DEF Handler, At
<1>4. ASSUME NEW h \in Handler, NEW a \in At, NEW b \in BOOLEAN, NEW n \in Nat,
             NEW s \in Seq(Entry), NEW w \in Seq(Entry)
      PROVE  /\ [h EXCEPT !.at = a] \in Handler
             /\ [h EXCEPT !.at = a, !.settled = b] \in Handler
             /\ [h EXCEPT !.at = a, !.refused = b] \in Handler
             /\ [h EXCEPT !.at = a, !.wire = w, !.after = n] \in Handler
             /\ [h EXCEPT !.at = a, !.chan = s, !.dropped = b] \in Handler
             /\ [h EXCEPT !.chan = s, !.wire = w, !.after = n] \in Handler
             /\ [h EXCEPT !.chan = s] \in Handler
             /\ [h EXCEPT !.wire = w] \in Handler
             /\ [h EXCEPT !.dropped = b] \in Handler
  BY DEF Handler, At
<1> QED BY <1>2, <1>3, <1>4 DEF At

LEMMA HandlerFields ==
    ASSUME NEW h \in Handler
    PROVE  /\ h.at \in At /\ h.dep \in Deployment \cup {NoPage} /\ h.after \in Nat
           /\ h.settled \in BOOLEAN /\ h.dropped \in BOOLEAN /\ h.refused \in BOOLEAN
           /\ h.chan \in Seq(Entry) /\ h.wire \in Seq(Entry)
           /\ Len(h.chan) \in Nat /\ Len(h.wire) \in Nat
           /\ h.wire = <<>> <=> Len(h.wire) = 0
           /\ h.chan = <<>> <=> Len(h.chan) = 0
<1>1. /\ h.at \in At /\ h.dep \in Deployment \cup {NoPage} /\ h.after \in Nat
      /\ h.settled \in BOOLEAN /\ h.dropped \in BOOLEAN /\ h.refused \in BOOLEAN
      /\ h.chan \in Seq(Entry) /\ h.wire \in Seq(Entry)
  BY DEF Handler, At
<1> HIDE DEF Entry
<1> QED BY <1>1, EmptySeq, LenProperties

LEMMA WriterRecords ==
    /\ NewWriter \in Writer
    /\ \A w \in Writer, p \in Phase, b \in BOOLEAN, t \in BOOLEAN, n \in Nat, q \in Nat :
          /\ [w EXCEPT !.phase = p] \in Writer
          /\ [w EXCEPT !.publishing = b] \in Writer
          /\ [w EXCEPT !.publishing = b, !.phase = p] \in Writer
          /\ [w EXCEPT !.size = n, !.sequence = q, !.truncated = t, !.publishing = b]
                 \in Writer
<1>1. "waiting" \in Phase
  BY DEF Phase
<1>2. NewWriter \in Writer
  BY <1>1 DEF NewWriter, Writer
<1>3. ASSUME NEW w \in Writer, NEW p \in Phase, NEW b \in BOOLEAN, NEW t \in BOOLEAN,
             NEW n \in Nat, NEW q \in Nat
      PROVE  /\ [w EXCEPT !.phase = p] \in Writer
             /\ [w EXCEPT !.publishing = b] \in Writer
             /\ [w EXCEPT !.publishing = b, !.phase = p] \in Writer
             /\ [w EXCEPT !.size = n, !.sequence = q, !.truncated = t, !.publishing = b]
                    \in Writer
  BY DEF Writer
<1> QED BY <1>2, <1>3

-----------------------------------------------------------------------------
(* What does not touch a file keeps what is true of it *)

SameFiles ==
    /\ file' = file
    /\ \A d \in Deployment : /\ writer'[d].publishing = writer[d].publishing
                              /\ writer'[d].sequence = writer[d].sequence

LEMMA SameWork ==
    ASSUME SameFiles
    PROVE  /\ \A d \in Deployment : WriterInv(d) => WriterInv(d)'
           /\ \A h : HandlerInv(h) => HandlerInv(h)'
<1>1. \A d \in Deployment : Published(d)' = Published(d)
  BY DEF SameFiles, Published
<1>2. \A d \in Deployment : WriterInv(d) => WriterInv(d)'
  BY DEF SameFiles, WriterInv
<1>3. ASSUME NEW h, AtWork(h)
      PROVE  AtWork(h)'
  <2>1. h.dep \in Deployment /\ file'[h.dep] = file[h.dep]
        /\ Published(h.dep)' = Published(h.dep)
    BY <1>1, <1>3 DEF AtWork, SameFiles
  <2>2. ChanInv(h, h.dep)'
    BY <1>3, <2>1 DEF AtWork, ChanInv, Chunk, From
  <2>3. Joined(h, h.dep) => Joined(h, h.dep)'
    BY <2>1 DEF Joined, From
  <2>4. Chunk(h.wire, file'[h.dep], h.after - Len(h.wire))
    BY <1>3, <2>1 DEF AtWork
  <2> QED BY <1>3, <2>1, <2>2, <2>3, <2>4 DEF AtWork, Chunk
<1> QED BY <1>2, <1>3 DEF HandlerInv

-----------------------------------------------------------------------------
(* The handler *)

\* One handler goes on, and its page has nothing to see of it but what it sends.
LEMMA HandlerMoves ==
    ASSUME LogInv, NEW c \in Conn, NEW g \in Handler, HandlerInv(g),
           conn' = [conn EXCEPT ![c] = g],
           ~Gone(c) => /\ g.at # "free" /\ g.dep = conn[c].dep
                       /\ g.after - Len(g.wire) = conn[c].after - Len(conn[c].wire),
           stuck' \in BOOLEAN, moves' \in 0..MaxMoves,
           UNCHANGED <<file, writer, client>>
    PROVE  LogInv'
<1>1. conn' \in [Conn -> Handler]
  BY DEF LogInv, LogTypeOK
<1>2. LogTypeOK'
  BY <1>1 DEF LogInv, LogTypeOK, client
<1>3. SameFiles
  BY DEF SameFiles
<1>4. \A d \in Deployment : WriterInv(d)'
  BY <1>3, SameWork DEF LogInv, StreamInv
<1>5. \A k \in Conn : conn'[k] = IF k = c THEN g ELSE conn[k]
  BY DEF LogInv, LogTypeOK
<1>6. \A k \in Conn : HandlerInv(conn'[k])
  BY <1>5 DEF LogInv, StreamInv
<1>7. \A h : HandlerInv(h) => HandlerInv(h)'
  BY <1>3, SameWork
<1>8. \A k \in Conn : HandlerInv(conn[k])'
  BY <1>6, <1>7
<1>9. ASSUME NEW v \in Viewer
      PROVE  SourceInv(v)' /\ ShownInv(v)'
  <2>1. SourceInv(v) /\ ShownInv(v)
    BY DEF LogInv, StreamInv
  <2>2. ShownInv(v)'
    BY <2>1 DEF ShownInv, client
  <2>3. CASE source[v] = c
    <3>1. ~Gone(c)
      BY <2>3 DEF Gone
    <3> QED BY <1>5, <2>1, <2>2, <2>3, <3>1 DEF SourceInv, client
  <2>4. CASE source[v] # c
    BY <1>5, <2>1, <2>2, <2>4 DEF SourceInv, client
  <2> QED BY <2>3, <2>4
<1> QED BY <1>2, <1>4, <1>8, <1>9 DEF LogInv, StreamInv

\* And one whose reads do not fail counts no move.
LEMMA ConnMoves ==
    ASSUME LogInv, NEW c \in Conn, NEW g \in Handler, HandlerInv(g),
           conn' = [conn EXCEPT ![c] = g],
           ~Gone(c) => /\ g.at # "free" /\ g.dep = conn[c].dep
                       /\ g.after - Len(g.wire) = conn[c].after - Len(conn[c].wire),
           stuck' \in BOOLEAN,
           UNCHANGED <<file, writer, client, moves>>
    PROVE  LogInv'
<1>1. moves' \in 0..MaxMoves
  BY DEF LogInv, LogTypeOK
<1> QED BY <1>1, HandlerMoves

LEMMA Working ==
    ASSUME LogInv, NEW c \in Conn
    PROVE  /\ conn[c] \in Handler
           /\ conn[c].at # "free" =>
                 /\ AtWork(conn[c]) /\ conn[c].dep \in Deployment
                 /\ file[conn[c].dep] \in Seq(Entry)
                 /\ Len(file[conn[c].dep]) \in Nat
                 /\ WriterInv(conn[c].dep)
                 /\ writer[conn[c].dep] \in Writer
<1>1. conn[c] \in Handler /\ HandlerInv(conn[c])
  BY DEF LogInv, LogTypeOK, StreamInv
<1>2. ASSUME conn[c].at # "free"
      PROVE  /\ AtWork(conn[c]) /\ conn[c].dep \in Deployment
             /\ file[conn[c].dep] \in Seq(Entry) /\ writer[conn[c].dep] \in Writer
             /\ WriterInv(conn[c].dep)
  BY <1>1, <1>2 DEF HandlerInv, AtWork, LogInv, LogTypeOK, StreamInv
<1> HIDE DEF Entry
<1> QED BY <1>1, <1>2, LenProperties

\* Nobody waits for the answer any more.
LEMMA PageTyped ==
    ASSUME LogInv, NEW v \in Viewer
    PROVE  /\ page[v] \in Deployment \cup {NoPage} /\ lastId[v] \in Nat
           /\ shown[v] \in Seq(Line) /\ Len(shown[v]) \in Nat
           /\ \A d \in Deployment : file[d] \in Seq(Entry) /\ Len(file[d]) \in Nat
<1>1. /\ page[v] \in Deployment \cup {NoPage} /\ lastId[v] \in Nat
      /\ shown[v] \in Seq(Line) /\ \A d \in Deployment : file[d] \in Seq(Entry)
  BY DEF LogInv, LogTypeOK
<1> HIDE DEF Entry, Line
<1> QED BY <1>1, LenProperties

LEMMA LinesTyped ==
    ASSUME LogInv, NEW v \in Viewer, NEW i \in 1..Len(shown[v])
    PROVE  shown[v][i] \in Line /\ shown[v][i].dep \in Deployment
<1>1. shown[v][i] \in Line
  <2> HIDE DEF Line
  <2> QED BY PageTyped, ElementOfSeq
<1> QED BY <1>1 DEF Line

LEMMA FreeInv == HandlerInv(Free) /\ Free.at = "free"
BY DEF HandlerInv, Free

LEMMA MoveTyped == ASSUME LogInv, CanMove PROVE moves' \in 0..MaxMoves
BY DEF LogInv, LogTypeOK, CanMove

LEMMA FindDeploymentInv ==
    ASSUME LogInv, NEW c \in Conn, FindDeployment(c)
    PROVE  LogInv'
<1> DEFINE b == writer[conn[c].dep].phase = "settled"
           g == [conn[c] EXCEPT !.at = "found", !.settled = b]
<1>1. /\ conn[c].at = "sent" /\ conn' = [conn EXCEPT ![c] = g]
      /\ UNCHANGED <<file, writer, stuck, client, moves>>
  BY DEF FindDeployment, Move
<1>2. conn[c] \in Handler /\ AtWork(conn[c])
  BY <1>1, Working
<1>3. g \in Handler
  <2>1. b \in BOOLEAN /\ "found" \in At
    BY DEF At
  <2>2. <<>> \in Seq(Entry) /\ 0 \in Nat
    OBVIOUS
  <2> HIDE DEF b
  <2> QED BY <1>2, <2>1, <2>2, HandlerRecords
<1>4. /\ g.at = "found" /\ g.dep = conn[c].dep /\ g.after = conn[c].after
      /\ g.chan = conn[c].chan /\ g.dropped = conn[c].dropped /\ g.wire = conn[c].wire
  BY <1>2 DEF Handler
<1> HIDE DEF g
<1>5. HandlerInv(g)
  BY <1>1, <1>2, <1>4 DEF HandlerInv, AtWork, ChanInv
<1>6. stuck' \in BOOLEAN
  BY <1>1 DEF LogInv, LogTypeOK
<1> QED BY <1>1, <1>3, <1>4, <1>5, <1>6, ConnMoves

LEMMA FindFailsInv ==
    ASSUME LogInv, NEW c \in Conn, FindFails(c)
    PROVE  LogInv'
<1> DEFINE g == [conn[c] EXCEPT !.at = "finished", !.refused = TRUE]
<1>1. /\ conn[c].at = "sent" /\ UNCHANGED <<file, writer, client>>
      /\ conn' = [conn EXCEPT ![c] = IF Gone(c) THEN Free ELSE g]
      /\ stuck' \in BOOLEAN /\ moves' \in 0..MaxMoves
  BY MoveTyped DEF FindFails, Move, LogInv, LogTypeOK
<1>2. conn[c] \in Handler /\ AtWork(conn[c])
  BY <1>1, Working
<1>3. CASE Gone(c)
  BY <1>1, <1>3, FreeInv, HandlerRecords, HandlerMoves
<1>4. CASE ~Gone(c)
  <2>1. "finished" \in At
    BY DEF At
  <2>2. g \in Handler
    BY <1>2, <2>1 DEF Handler, At
  <2>3. /\ g.at = "finished" /\ g.dep = conn[c].dep /\ g.after = conn[c].after
        /\ g.chan = conn[c].chan /\ g.dropped = conn[c].dropped /\ g.wire = conn[c].wire
    BY <1>2 DEF Handler
  <2> HIDE DEF g
  <2>4. HandlerInv(g)
    BY <1>1, <1>2, <2>3 DEF HandlerInv, AtWork, ChanInv
  <2> QED BY <1>1, <1>4, <2>2, <2>3, <2>4, HandlerMoves
<1> QED BY <1>3, <1>4

LEMMA AbandonInv ==
    ASSUME LogInv, NEW c \in Conn, Abandon(c)
    PROVE  LogInv'
<1>1. stuck' \in BOOLEAN
  BY DEF Abandon, LogInv, LogTypeOK
<1> QED BY <1>1, FreeInv, HandlerRecords, ConnMoves DEF Abandon, Move

LEMMA SubscribeInv ==
    ASSUME LogInv, NEW c \in Conn, Subscribe(c)
    PROVE  LogInv'
<1> DEFINE g == [conn[c] EXCEPT !.at = "subscribed"]
<1>1. /\ conn[c].at = "found" /\ conn' = [conn EXCEPT ![c] = g]
      /\ UNCHANGED <<file, writer, stuck, client, moves>>
  BY DEF Subscribe, Move
<1>2. conn[c] \in Handler /\ AtWork(conn[c])
  BY <1>1, Working
<1>3. g \in Handler
  <2>1. "subscribed" \in At /\ TRUE \in BOOLEAN /\ <<>> \in Seq(Entry) /\ 0 \in Nat
    BY DEF At
  <2> QED BY <1>2, <2>1, HandlerRecords
<1>4. /\ g.at = "subscribed" /\ g.dep = conn[c].dep /\ g.after = conn[c].after
      /\ g.chan = conn[c].chan /\ g.dropped = conn[c].dropped /\ g.wire = conn[c].wire
  BY <1>2 DEF Handler
<1> HIDE DEF g
<1>5. HandlerInv(g)
  BY <1>1, <1>2, <1>4 DEF HandlerInv, AtWork, ChanInv
<1>6. stuck' \in BOOLEAN
  BY <1>1 DEF LogInv, LogTypeOK
<1> QED BY <1>1, <1>3, <1>4, <1>5, <1>6, ConnMoves

\* After the replay the handler has sent all of the file, whatever came meanwhile.
LEMMA ReadHistoryInv ==
    ASSUME LogInv, NEW c \in Conn, ReadHistory(c)
    PROVE  LogInv'
<1> DEFINE h == conn[c]
           f == file[h.dep]
           s == SubSeq(f, h.after + 1, Len(f))
           n == IF s = <<>> THEN h.after ELSE s[Len(s)].sequence
           a == IF h.settled THEN "leaving" ELSE "streaming"
<1>1. /\ h.at = "subscribed"
      /\ stuck' \in BOOLEAN /\ UNCHANGED <<file, writer, client, moves>>
  BY DEF ReadHistory, LogInv, LogTypeOK
<1>2. h \in Handler /\ AtWork(h) /\ f \in Seq(Entry) /\ Len(f) \in Nat
      /\ WriterInv(h.dep) /\ writer[h.dep] \in Writer
  BY <1>1, Working
<1>3. h.after \in Nat /\ h.after <= Len(f) /\ h.wire = <<>> /\ h.chan \in Seq(Entry)
      /\ h.settled \in BOOLEAN
  BY <1>1, <1>2, HandlerFields DEF AtWork
<1>4. s \in Seq(Entry) /\ Len(s) = Len(f) - h.after /\ Chunk(s, f, h.after)
  BY <1>2, <1>3, ChunkAfter
<1>5. n = Len(f)
  <2> HIDE DEF s
  <2>1. CASE s = <<>>
    <3>1. Len(s) = 0
      BY <2>1
    <3> QED BY <1>2, <1>3, <1>4, <2>1, <3>1
  <2>2. CASE s # <<>>
    <3>1. Len(s) \in 1..Len(s)
      <4> HIDE DEF Entry
      <4> QED BY <1>4, <2>2, EmptySeq
    <3>2. s[Len(s)] = f[h.after + Len(s)] /\ h.after + Len(s) \in 1..Len(f)
      BY <1>4, <3>1 DEF Chunk
    <3>3. h.after + Len(s) = Len(f)
      BY <1>2, <1>3, <1>4
    <3>4. f[Len(f)].sequence = Len(f)
      BY <1>2, <3>2, <3>3 DEF WriterInv
    <3> QED BY <2>2, <3>2, <3>3, <3>4
  <2> QED BY <2>1, <2>2
<1>6. h.wire \o s = s
  <2> HIDE DEF Entry, s
  <2> QED BY <1>3, <1>4, ConcatEmptySeq
<1>7. CASE Readable(h.dep)
  <2> DEFINE g == [h EXCEPT !.at = a, !.wire = s, !.after = Len(f)]
  <2>1. conn' = [conn EXCEPT ![c] = g]
    <3>1. conn' = [conn EXCEPT ![c] = [h EXCEPT !.at = a, !.wire = h.wire \o s, !.after = n]]
      BY <1>7 DEF ReadHistory, Move, History, After
    <3> HIDE DEF n, s
    <3> QED BY <1>5, <1>6, <3>1
  <2> HIDE DEF s
  <2>2. g \in Handler
    <3>1. a \in At /\ TRUE \in BOOLEAN
      BY DEF At
    <3> HIDE DEF a
    <3> QED BY <1>2, <1>4, <3>1, HandlerRecords
  <2>3. /\ g.at = a /\ g.dep = h.dep /\ g.after = Len(f)
        /\ g.chan = h.chan /\ g.dropped = h.dropped /\ g.wire = s
    BY <1>2 DEF Handler
  <2>4. Len(f) - Len(s) = h.after /\ Len(s) <= Len(f)
    BY <1>2, <1>3, <1>4
  <2>5. ChanInv(h, h.dep)
    BY <1>2 DEF AtWork
  <2>6. Joined(g, h.dep)
    <3>1. CASE h.chan = <<>>
      <4>1. Published(h.dep) <= Len(f)
        BY <1>2 DEF Published
      <4> QED BY <2>3, <3>1, <4>1 DEF Joined
    <3>2. CASE h.chan # <<>>
      <4>1. 1 \in 1..Len(h.chan)
        <5> HIDE DEF Entry
        <5> QED BY <1>3, <3>2, EmptySeq
      <4>2. From(h.chan) + 1 \in 1..Len(f)
        BY <2>5, <3>2, <4>1 DEF ChanInv, Chunk
      <4>3. From(h.chan) \in Int
        <5>1. h.chan[1] \in Entry
          BY <1>3, <4>1, ElementOfSeq
        <5> QED BY <5>1 DEF From, Entry
      <4>4. From(h.chan) <= Len(f)
        BY <1>2, <4>2, <4>3
      <4> QED BY <2>3, <3>2, <4>4 DEF Joined
    <3> QED BY <3>1, <3>2
  <2> HIDE DEF g
  <2>7. HandlerInv(g)
    <3>1. ChanInv(g, h.dep)
      BY <2>3, <2>5 DEF ChanInv
    <3>2. g.at \in {"leaving", "streaming"}
      BY <2>3
    <3>3. Chunk(g.wire, file[g.dep], g.after - Len(g.wire))
      BY <1>4, <2>3, <2>4
    <3>4. g.dep \in Deployment /\ g.after <= Len(file[g.dep]) /\ Len(g.wire) <= g.after
      BY <1>2, <2>3, <2>4 DEF AtWork
    <3> QED BY <2>3, <2>6, <3>1, <3>2, <3>3, <3>4 DEF HandlerInv, AtWork
  <2>8. g.after - Len(g.wire) = h.after - Len(h.wire) /\ g.at # "free"
    <3>1. Len(h.wire) = 0
      BY <1>3
    <3> QED BY <1>3, <2>3, <2>4, <3>1
  <2> QED BY <1>1, <2>1, <2>2, <2>3, <2>7, <2>8, ConnMoves
<1>8. CASE ~Readable(h.dep)
  <2> DEFINE g == [h EXCEPT !.at = "leaving", !.refused = TRUE]
  <2>1. conn' = [conn EXCEPT ![c] = g]
    BY <1>8 DEF ReadHistory, Move
  <2>2. g \in Handler
    <3>1. "leaving" \in At /\ TRUE \in BOOLEAN /\ <<>> \in Seq(Entry) /\ 0 \in Nat
      BY DEF At
    <3> QED BY <1>2, <3>1, HandlerRecords
  <2>3. /\ g.at = "leaving" /\ g.dep = h.dep /\ g.after = h.after
        /\ g.chan = h.chan /\ g.dropped = h.dropped /\ g.wire = h.wire
    BY <1>2 DEF Handler
  <2> HIDE DEF g
  <2>4. HandlerInv(g)
    BY <1>2, <2>3 DEF HandlerInv, AtWork, ChanInv
  <2> QED BY <1>1, <2>1, <2>2, <2>3, <2>4, ConnMoves
<1> QED BY <1>7, <1>8

\* What is left of n entries that follow the first k, when the first is gone.
Rest(t, f, k, n) ==
    /\ Chunk(t, f, k + 1) /\ n \in Nat \ {0} /\ Len(t) = n - 1
    /\ t # <<>> => t[1] = f[k + 2] /\ k + 2 \in 1..Len(f)

LEMMA ForwardHead ==
    ASSUME LogInv, NEW c \in Conn, conn[c].at = "streaming", conn[c].chan # <<>>
    PROVE  /\ From(conn[c].chan) \in Int /\ From(conn[c].chan) <= conn[c].after
           /\ From(conn[c].chan) + 1 \in 1..Len(file[conn[c].dep])
           /\ Head(conn[c].chan) = file[conn[c].dep][From(conn[c].chan) + 1]
           /\ Head(conn[c].chan).sequence = From(conn[c].chan) + 1
           /\ ~conn[c].dropped =>
                 From(conn[c].chan) + Len(conn[c].chan) = Published(conn[c].dep)
           /\ Rest(Tail(conn[c].chan), file[conn[c].dep], From(conn[c].chan),
                   Len(conn[c].chan))
<1> DEFINE h == conn[c]
           f == file[h.dep]
           k == From(h.chan)
<1>1. h \in Handler /\ AtWork(h) /\ f \in Seq(Entry) /\ WriterInv(h.dep)
  BY Working
<1>2. h.chan \in Seq(Entry)
  BY <1>1, HandlerFields
<1>3. k \in Int
  <2>1. 1 \in 1..Len(h.chan)
    <3> HIDE DEF Entry
    <3> QED BY <1>2, EmptySeq
  <2>2. h.chan[1] \in Entry
    BY <1>2, <2>1, ElementOfSeq
  <2> QED BY <2>2 DEF From, Entry
<1>4. Chunk(h.chan, f, k) /\ (~h.dropped => k + Len(h.chan) = Published(h.dep)) /\ k <= h.after
  BY <1>1 DEF AtWork, ChanInv, Joined
<1> HIDE DEF k, f
<1>5. /\ Chunk(Tail(h.chan), f, k + 1) /\ Len(Tail(h.chan)) = Len(h.chan) - 1
      /\ Len(h.chan) \in Nat \ {0} /\ k + 1 \in 1..Len(f) /\ Head(h.chan) = f[k + 1]
      /\ Tail(h.chan) # <<>> => Tail(h.chan)[1] = f[k + 2] /\ k + 2 \in 1..Len(f)
  <2> HIDE DEF h
  <2> QED BY <1>1, <1>2, <1>3, <1>4, ChunkTail DEF h
<1>6. f[k + 1].sequence = k + 1
  BY <1>1, <1>5 DEF WriterInv, f
<1>7. Rest(Tail(h.chan), f, k, Len(h.chan))
  BY <1>5 DEF Rest
<1> QED BY <1>3, <1>4, <1>5, <1>6, <1>7 DEF k, f

\* To a handler that has sent the first entry, the rest of the channel is what the
\* channel was.
LEMMA ForwardChan ==
    ASSUME NEW f \in Seq(Entry), NEW d \in Deployment, f = file[d], WriterInv(d),
           NEW k \in Int, NEW n, NEW dropped, ~dropped => k + n = Published(d),
           NEW g \in Handler, Rest(g.chan, f, k, n), g.dropped = dropped,
           g.after >= k + 1
    PROVE  ChanInv(g, d) /\ Joined(g, d)
<1>1. g.after \in Nat /\ Len(g.chan) \in Nat /\ (g.chan = <<>> <=> Len(g.chan) = 0)
  BY HandlerFields
<1>2. Len(g.chan) = n - 1 /\ n \in Nat \ {0} /\ Chunk(g.chan, f, k + 1)
  BY DEF Rest
<1>3. CASE g.chan = <<>>
  <2>1. n = 1
    BY <1>1, <1>2, <1>3
  <2>2. g.dropped \/ Published(d) <= g.after
    BY <1>1, <2>1
  <2> QED BY <1>3, <2>2 DEF Joined, ChanInv
<1>4. CASE g.chan # <<>>
  <2>1. g.chan[1].sequence = k + 2
    BY <1>4 DEF Rest, WriterInv
  <2>2. From(g.chan) = k + 1
    BY <2>1 DEF From
  <2>3. ~g.dropped => (k + 1) + Len(g.chan) = Published(d)
    BY <1>2
  <2> QED BY <1>2, <1>4, <2>2, <2>3 DEF ChanInv, Joined
<1> QED BY <1>3, <1>4

LEMMA ForwardInv ==
    ASSUME LogInv, NEW c \in Conn, Forward(c)
    PROVE  LogInv'
<1> DEFINE h == conn[c]
           f == file[h.dep]
           k == From(h.chan)
           e == Head(h.chan)
<1>1. /\ h.at = "streaming" /\ h.chan # <<>>
      /\ stuck' \in BOOLEAN /\ UNCHANGED <<file, writer, client, moves>>
  BY DEF Forward, Move, LogInv, LogTypeOK
<1>2. /\ h \in Handler /\ AtWork(h) /\ f \in Seq(Entry) /\ Len(f) \in Nat
      /\ h.dep \in Deployment /\ WriterInv(h.dep)
  BY <1>1, Working
<1>3. /\ h.chan \in Seq(Entry) /\ h.wire \in Seq(Entry) /\ h.after \in Nat
      /\ Len(h.wire) \in Nat
  BY <1>2, HandlerFields
<1>4. Tail(h.chan) \in Seq(Entry) /\ e \in Entry
  <2> HIDE DEF Entry
  <2> QED BY <1>1, <1>3, HeadTailProperties
<1>5. CASE IsNew(h, e)
  <2> DEFINE g == [h EXCEPT !.chan = Tail(h.chan), !.wire = Append(h.wire, e),
                            !.after = e.sequence]
  <2>1. conn' = [conn EXCEPT ![c] = g]
    BY <1>5 DEF Forward, Move
  <2>2. /\ Append(h.wire, e) \in Seq(Entry) /\ Len(Append(h.wire, e)) = Len(h.wire) + 1
    <3> HIDE DEF Entry, e
    <3> QED BY <1>3, <1>4, AppendProperties
  <2>3. e.sequence \in Nat
    BY <1>4 DEF Entry
  <2>4. g \in Handler
    <3>1. "streaming" \in At /\ TRUE \in BOOLEAN
      BY DEF At
    <3> HIDE DEF e
    <3> QED BY <1>2, <1>4, <2>2, <2>3, <3>1, HandlerRecords
  <2>5. /\ g.at = h.at /\ g.dep = h.dep /\ g.after = e.sequence
        /\ g.chan = Tail(h.chan) /\ g.dropped = h.dropped /\ g.wire = Append(h.wire, e)
    BY <1>2 DEF Handler
  <2>6. e.sequence > h.after
    BY <1>5 DEF IsNew
  <2> HIDE DEF g
  <2>7. e.sequence = k + 1 /\ k \in Int
    <3>1. h.chan[1] = e
      BY <1>1, <1>3
    <3> QED BY <2>3, <3>1 DEF From
  <2>8. g.after >= k + 1
    BY <2>3, <2>5, <2>7
  <2>9. /\ k <= h.after /\ k + 1 \in 1..Len(f) /\ e = f[k + 1]
        /\ ChanInv(g, h.dep) /\ Joined(g, h.dep)
    BY <1>1, <1>2, <2>4, <2>5, <2>7, <2>8, ForwardHead, ForwardChan
  <2>10. k = h.after
    BY <1>3, <2>6, <2>7, <2>9
  <2>11. Chunk(g.wire, f, g.after - Len(g.wire)) /\ Len(g.wire) <= g.after
    <3>1. h.after - Len(h.wire) \in Int /\ h.after - Len(h.wire) + Len(h.wire) + 1 = k + 1
          /\ g.after - Len(g.wire) = h.after - Len(h.wire) /\ Len(h.wire) <= h.after
      <4>1. Len(h.wire) <= h.after
        BY <1>2 DEF AtWork
      <4>2. /\ h.after \in Nat /\ Len(h.wire) \in Nat /\ g.after = h.after + 1
            /\ Len(g.wire) = Len(h.wire) + 1
        BY <1>3, <2>2, <2>5, <2>7, <2>10
      <4> HIDE DEF h
      <4> QED BY <2>10, <4>1, <4>2
    <3>2. Chunk(h.wire, f, h.after - Len(h.wire))
      BY <1>2 DEF AtWork
    <3> DEFINE b == h.after - Len(h.wire)
    <3>3. Chunk(Append(h.wire, f[b + Len(h.wire) + 1]), f, b)
      <4>1. b \in Int /\ b + Len(h.wire) + 1 \in 1..Len(f) /\ Chunk(h.wire, f, b)
        BY <2>9, <3>1, <3>2
      <4> HIDE DEF b
      <4> QED BY <1>2, <1>3, <4>1, ChunkAppend
    <3>4. Append(h.wire, f[b + Len(h.wire) + 1]) = g.wire
      BY <2>5, <2>9, <3>1
    <3>5. Len(g.wire) <= g.after
      BY <1>3, <2>2, <2>5, <2>7, <2>10, <3>1
    <3> QED BY <3>1, <3>3, <3>4, <3>5
  <2>12. HandlerInv(g)
    <3>1. g.dep \in Deployment /\ g.after <= Len(f)
      BY <1>2, <2>5, <2>7, <2>9 DEF AtWork
    <3> QED BY <1>1, <2>5, <2>9, <2>11, <3>1 DEF HandlerInv, AtWork
  <2>13. g.after - Len(g.wire) = h.after - Len(h.wire)
    BY <1>3, <2>2, <2>5, <2>7, <2>10
  <2> QED BY <1>1, <2>1, <2>4, <2>5, <2>12, <2>13, ConnMoves
<1>6. CASE ~IsNew(h, e)
  <2> DEFINE g == [h EXCEPT !.chan = Tail(h.chan)]
  <2>1. conn' = [conn EXCEPT ![c] = g]
    BY <1>6 DEF Forward, Move
  <2>2. g \in Handler
    <3>1. "streaming" \in At /\ TRUE \in BOOLEAN /\ <<>> \in Seq(Entry) /\ 0 \in Nat
      BY DEF At
    <3> QED BY <1>2, <1>4, <3>1, HandlerRecords
  <2>3. /\ g.at = h.at /\ g.dep = h.dep /\ g.after = h.after
        /\ g.chan = Tail(h.chan) /\ g.dropped = h.dropped /\ g.wire = h.wire
    BY <1>2 DEF Handler
  <2> HIDE DEF g
  <2>4. e.sequence \in Nat /\ e.sequence <= h.after
    BY <1>3, <1>4, <1>6 DEF IsNew, Entry
  <2>5. g.after >= k + 1
    <3>1. h.chan[1] = e
      BY <1>1, <1>3
    <3> QED BY <1>3, <2>3, <2>4, <3>1 DEF From
  <2>6. ChanInv(g, h.dep) /\ Joined(g, h.dep)
    BY <1>1, <1>2, <2>2, <2>3, <2>5, ForwardHead, ForwardChan
  <2>7. HandlerInv(g)
    BY <1>1, <1>2, <2>3, <2>6 DEF HandlerInv, AtWork
  <2> QED BY <1>1, <2>1, <2>2, <2>3, <2>7, ConnMoves
<1> QED BY <1>5, <1>6

LEMMA LeaveLoopInv ==
    ASSUME LogInv, NEW c \in Conn, LeaveLoop(c) \/ LoopFails(c)
    PROVE  LogInv'
<1> DEFINE g == [conn[c] EXCEPT !.at = "leaving"]
<1>1. /\ conn[c].at = "streaming" /\ conn' = [conn EXCEPT ![c] = g]
      /\ stuck' \in BOOLEAN /\ UNCHANGED <<file, writer, client>>
  BY DEF LeaveLoop, LoopFails, Move, LogInv, LogTypeOK
<1>2. conn[c] \in Handler /\ AtWork(conn[c])
  BY <1>1, Working
<1>3. g \in Handler
  <2>1. "leaving" \in At /\ TRUE \in BOOLEAN /\ <<>> \in Seq(Entry) /\ 0 \in Nat
    BY DEF At
  <2> QED BY <1>2, <2>1, HandlerRecords
<1>4. /\ g.at = "leaving" /\ g.dep = conn[c].dep /\ g.after = conn[c].after
      /\ g.chan = conn[c].chan /\ g.dropped = conn[c].dropped /\ g.wire = conn[c].wire
  BY <1>2 DEF Handler
<1> HIDE DEF g
<1>5. HandlerInv(g)
  BY <1>2, <1>4 DEF HandlerInv, AtWork, ChanInv
<1>6. moves' \in 0..MaxMoves
  BY MoveTyped DEF LeaveLoop, LoopFails, LogInv, LogTypeOK
<1> QED BY <1>1, <1>3, <1>4, <1>5, <1>6, HandlerMoves

LEMMA UnsubscribeInv ==
    ASSUME LogInv, NEW c \in Conn, Unsubscribe(c)
    PROVE  LogInv'
<1> DEFINE g == [conn[c] EXCEPT !.at = "finished", !.chan = <<>>, !.dropped = FALSE]
<1>1. /\ conn[c].at = "leaving" /\ stuck' = conn[c].dropped
      /\ UNCHANGED <<file, writer, client, moves>>
      /\ conn' = [conn EXCEPT ![c] = IF Gone(c) THEN Free ELSE g]
  BY DEF Unsubscribe, Move
<1>2. conn[c] \in Handler /\ AtWork(conn[c])
  BY <1>1, Working
<1>3. stuck' \in BOOLEAN
  BY <1>1, <1>2, HandlerFields
<1>4. CASE Gone(c)
  BY <1>1, <1>3, <1>4, FreeInv, HandlerRecords, ConnMoves
<1>5. CASE ~Gone(c)
  <2>1. g \in Handler
    <3>1. "finished" \in At /\ FALSE \in BOOLEAN /\ <<>> \in Seq(Entry) /\ 0 \in Nat
      BY DEF At
    <3> QED BY <1>2, <3>1, HandlerRecords
  <2>2. /\ g.at = "finished" /\ g.dep = conn[c].dep /\ g.after = conn[c].after
        /\ g.chan = <<>> /\ g.dropped = FALSE /\ g.wire = conn[c].wire
    BY <1>2 DEF Handler
  <2> HIDE DEF g
  <2>3. HandlerInv(g)
    BY <1>2, <2>2 DEF HandlerInv, AtWork, ChanInv
  <2> QED BY <1>1, <1>3, <1>5, <2>1, <2>2, <2>3, ConnMoves
<1> QED BY <1>4, <1>5

LEMMA ServeInv ==
    ASSUME LogInv, NEW c \in Conn, Serve(c) \/ ReadFails(c)
    PROVE  LogInv'
BY FindDeploymentInv, FindFailsInv, AbandonInv, SubscribeInv, ReadHistoryInv, ForwardInv,
   LeaveLoopInv, UnsubscribeInv DEF Serve, ReadFails

-----------------------------------------------------------------------------
(* The writer *)

\* A run goes on without writing or publishing.
LEMMA PhaseMoves ==
    ASSUME LogInv, SameFiles, writer' \in [Deployment -> Writer],
           UNCHANGED <<file, stuck, conn, client, moves>>
    PROVE  LogInv'
<1>1. LogTypeOK'
  BY DEF LogInv, LogTypeOK, client
<1>2. \A d \in Deployment : WriterInv(d)'
  BY SameWork DEF LogInv, StreamInv
<1>3. \A c \in Conn : HandlerInv(conn[c])'
  BY SameWork DEF LogInv, StreamInv
<1>4. \A v \in Viewer : SourceInv(v)' /\ ShownInv(v)'
  BY DEF LogInv, StreamInv, SourceInv, ShownInv, client
<1> QED BY <1>1, <1>2, <1>3, <1>4 DEF LogInv, StreamInv

LEMMA PhaseInv ==
    ASSUME LogInv, NEW d \in Deployment, OpenWriter(d) \/ CloseWriter(d) \/ Settle(d)
    PROVE  LogInv'
<1>1. PICK p \in Phase : /\ writer' = [writer EXCEPT ![d].phase = p]
                          /\ UNCHANGED <<file, stuck, conn, client, moves>>
  BY DEF OpenWriter, CloseWriter, Settle, Phase
<1> DEFINE w == [writer[d] EXCEPT !.phase = p]
<1>2. writer \in [Deployment -> Writer] /\ writer[d] \in Writer
  BY DEF LogInv, LogTypeOK
<1>3. writer' = [writer EXCEPT ![d] = w]
  BY <1>1
<1>4. w \in Writer
  <2>1. TRUE \in BOOLEAN /\ 0 \in Nat
    OBVIOUS
  <2> QED BY <1>2, <2>1, WriterRecords
<1>5. w.publishing = writer[d].publishing /\ w.sequence = writer[d].sequence
  BY <1>2 DEF Writer
<1> HIDE DEF w
<1>6. writer' \in [Deployment -> Writer] /\ SameFiles
  BY <1>1, <1>2, <1>3, <1>4, <1>5 DEF SameFiles
<1> QED BY <1>1, <1>6, PhaseMoves

LEMMA NewEntryTyped ==
    ASSUME LogInv, NEW d \in Deployment, NEW n \in Sizes
    PROVE  /\ NewEntry(writer[d], n) \in Entry
           /\ NewEntry(writer[d], n).sequence = Len(file[d]) + 1
<1>1. writer[d] \in Writer /\ writer[d].sequence = Len(file[d]) /\ file[d] \in Seq(Entry)
  BY DEF LogInv, LogTypeOK, StreamInv, WriterInv
<1>2. writer[d].sequence \in Nat /\ n \in Nat
  BY <1>1 DEF Writer
<1> QED BY <1>1, <1>2 DEF NewEntry, Entry

\* A longer file keeps what is true of a handler, as long as nothing is published.
LEMMA GrownWork ==
    ASSUME NEW h \in Handler, AtWork(h),
           \A k \in Deployment : Published(k)' = Published(k),
           \A k \in Deployment : /\ Len(file[k]) <= Len(file'[k]) /\ Len(file[k]) \in Nat
                                 /\ Len(file'[k]) \in Nat
                                 /\ \A i \in 1..Len(file[k]) : file'[k][i] = file[k][i]
    PROVE  AtWork(h)'
<1> DEFINE f == file[h.dep]
           g == file'[h.dep]
<1>1. h.dep \in Deployment /\ h.after \in Nat /\ Len(h.wire) \in Nat
  BY HandlerFields DEF AtWork
<1>2. /\ Len(f) <= Len(g) /\ Len(f) \in Nat /\ Len(g) \in Nat
      /\ \A i \in 1..Len(f) : g[i] = f[i]
  BY <1>1
<1> HIDE DEF g, f
<1>3. ASSUME NEW s, NEW k, Chunk(s, f, k)
      PROVE  Chunk(s, g, k)
  <2>1. ASSUME NEW i \in 1..Len(s)
        PROVE  k + i \in 1..Len(g) /\ s[i] = g[k + i]
    <3> DEFINE x == k + i
    <3>1. x \in 1..Len(f) /\ s[i] = f[x]
      BY <1>3 DEF Chunk
    <3> HIDE DEF x
    <3>2. x \in 1..Len(g) /\ s[i] = g[x]
      BY <1>2, <3>1
    <3> QED BY <3>2 DEF x
  <2> QED BY <2>1 DEF Chunk
<1>4. Chunk(h.wire, g, h.after - Len(h.wire)) /\ h.after <= Len(g)
  BY <1>1, <1>2, <1>3 DEF AtWork, f
<1>5. ChanInv(h, h.dep)'
  BY <1>1, <1>3 DEF AtWork, ChanInv, f, g
<1>6. Joined(h, h.dep) => Joined(h, h.dep)'
  BY <1>1 DEF Joined
<1> QED BY <1>4, <1>5, <1>6 DEF AtWork, g

LEMMA WriteEntryInv ==
    ASSUME LogInv, NEW d \in Deployment, NEW n \in Sizes, WriteEntry(d, n)
    PROVE  LogInv'
<1> DEFINE e == NewEntry(writer[d], n)
           w == [writer[d] EXCEPT !.size = writer[d].size + e.size, !.sequence = e.sequence,
                                  !.truncated = writer[d].truncated \/ e.kind = "mark",
                                  !.publishing = TRUE]
<1>1. /\ file' = [file EXCEPT ![d] = Append(file[d], e)]
      /\ writer' = [writer EXCEPT ![d] = w]
      /\ ~writer[d].publishing
      /\ UNCHANGED <<stuck, conn, client, moves>>
  BY DEF WriteEntry
<1>2. e \in Entry /\ e.sequence = Len(file[d]) + 1
  BY NewEntryTyped
<1> HIDE DEF e
<1>3. /\ writer \in [Deployment -> Writer] /\ writer[d] \in Writer
      /\ file \in [Deployment -> Seq(Entry)] /\ file[d] \in Seq(Entry)
  BY DEF LogInv, LogTypeOK
<1>4. w \in Writer
  <2>1. writer[d].size + e.size \in Nat /\ e.sequence \in Nat
    BY <1>2, <1>3 DEF Writer, Entry
  <2>2. (writer[d].truncated \/ e.kind = "mark") \in BOOLEAN /\ TRUE \in BOOLEAN
    OBVIOUS
  <2>3. "waiting" \in Phase
    BY DEF Phase
  <2> DEFINE b == writer[d].truncated \/ e.kind = "mark"
  <2> HIDE DEF b
  <2>4. [writer[d] EXCEPT !.size = writer[d].size + e.size, !.sequence = e.sequence,
                          !.truncated = b, !.publishing = TRUE] \in Writer
    <3>1. b \in BOOLEAN
      BY <2>2 DEF b
    <3> QED BY <1>3, <2>1, <2>2, <2>3, <3>1, WriterRecords
  <2> QED BY <2>4 DEF b
<1>5. w.publishing = TRUE /\ w.sequence = e.sequence
  BY <1>3 DEF Writer
<1> HIDE DEF w
<1>6. /\ Append(file[d], e) \in Seq(Entry) /\ Len(Append(file[d], e)) = Len(file[d]) + 1
      /\ \A i \in 1..Len(file[d]) : Append(file[d], e)[i] = file[d][i]
      /\ Append(file[d], e)[Len(file[d]) + 1] = e /\ Len(file[d]) \in Nat
  <2> HIDE DEF Entry
  <2> QED BY <1>2, <1>3, AppendProperties, LenProperties
<1>7. file'[d] = Append(file[d], e) /\ writer'[d] = w
      /\ \A k \in Deployment \ {d} : file'[k] = file[k] /\ writer'[k] = writer[k]
  BY <1>1, <1>3
<1>8. LogTypeOK'
  <2>1. file' \in [Deployment -> Seq(Entry)] /\ writer' \in [Deployment -> Writer]
    BY <1>1, <1>3, <1>4, <1>6
  <2> QED BY <1>1, <2>1 DEF LogInv, LogTypeOK, client
<1>9. \A k \in Deployment : Published(k)' = Published(k)
  <2>1. Published(d)' = Published(d)
    BY <1>1, <1>5, <1>6, <1>7 DEF Published
  <2> QED BY <1>7, <2>1 DEF Published
<1>10. ASSUME NEW k \in Deployment
       PROVE  WriterInv(k)'
  <2>1. WriterInv(k)
    BY DEF LogInv, StreamInv
  <2>2. CASE k = d
    <3>1. ASSUME NEW i \in 1..Len(file'[d])
          PROVE  file'[d][i].sequence = i
      <4>1. i \in 1..Len(file[d]) \/ i = Len(file[d]) + 1
        BY <1>6, <1>7
      <4> QED BY <1>2, <1>6, <1>7, <2>1, <2>2, <4>1 DEF WriterInv
    <3>2. writer'[d].sequence = Len(file'[d]) /\ Len(file'[d]) > 0
      BY <1>2, <1>5, <1>6, <1>7
    <3> QED BY <2>2, <3>1, <3>2 DEF WriterInv
  <2>3. CASE k # d
    BY <1>7, <2>1, <2>3 DEF WriterInv
  <2> QED BY <2>2, <2>3
<1>11. \A k \in Deployment : /\ Len(file[k]) <= Len(file'[k]) /\ Len(file[k]) \in Nat
                              /\ Len(file'[k]) \in Nat
                              /\ \A i \in 1..Len(file[k]) : file'[k][i] = file[k][i]
  <2>1. \A k \in Deployment : Len(file[k]) \in Nat
    <3> HIDE DEF Entry
    <3> QED BY <1>3, LenProperties
  <2> QED BY <1>6, <1>7, <2>1
<1>12. ASSUME NEW c \in Conn
       PROVE  HandlerInv(conn[c])'
  <2>1. \A h \in Handler : HandlerInv(h) => HandlerInv(h)'
    BY <1>9, <1>11, GrownWork DEF HandlerInv
  <2>2. HandlerInv(conn[c]) /\ conn[c] \in Handler /\ conn'[c] = conn[c]
    BY <1>1 DEF LogInv, StreamInv, LogTypeOK
  <2> QED BY <2>1, <2>2
<1>13. ASSUME NEW v \in Viewer
       PROVE  SourceInv(v)' /\ ShownInv(v)'
  <2>1. SourceInv(v) /\ ShownInv(v) /\ lastId[v] \in Nat
        /\ page[v] \in Deployment \cup {NoPage}
    BY DEF LogInv, StreamInv, LogTypeOK
  <2>2. SourceInv(v)'
    BY <1>1, <1>11, <2>1 DEF SourceInv, client
  <2>3. Len(shown[v]) \in Nat
    BY LenProperties DEF LogInv, LogTypeOK
  <2>4. \A i \in 1..Len(shown[v]) : shown[v][i].dep \in Deployment
    BY LinesTyped
  <2>5. ShownInv(v)'
    BY <1>1, <1>11, <2>1, <2>3, <2>4 DEF ShownInv, client
  <2> QED BY <2>2, <2>5
<1> QED BY <1>8, <1>10, <1>12, <1>13 DEF LogInv, StreamInv

\* t is s with one more entry, the last of f.
Longer(t, s, f) ==
    /\ t # <<>> /\ Len(t) = Len(s) + 1
    /\ \A i \in 1..Len(s) : t[i] = s[i]
    /\ t[Len(s) + 1] = f[Len(f)]

\* The channel of a subscriber that has room ends with the entry published.
LEMMA DeliveredChan ==
    ASSUME NEW s \in Seq(Entry), NEW t \in Seq(Entry), NEW f \in Seq(Entry), f # <<>>,
           f[Len(f)].sequence = Len(f), Longer(t, s, f),
           s # <<>> => Chunk(s, f, From(s)) /\ From(s) + Len(s) = Len(f) - 1
    PROVE  /\ Chunk(t, f, From(t)) /\ From(t) + Len(t) = Len(f)
           /\ s = <<>> => From(t) = Len(f) - 1
           /\ s # <<>> => From(t) = From(s)
<1> DEFINE n == Len(f) - 1
<1>1. /\ Len(f) \in Nat /\ n \in Nat /\ Len(f) \in 1..Len(f) /\ Len(s) \in Nat
      /\ Len(f) = n + 1 /\ (s # <<>> => Len(s) \in Nat \ {0})
  <2>1. Len(f) \in Nat \ {0} /\ Len(s) \in Nat /\ (s # <<>> => Len(s) \in Nat \ {0})
    <3> HIDE DEF Entry
    <3> QED BY EmptySeq, LenProperties
  <2> QED BY <2>1
<1>2. Len(t) = Len(s) + 1 /\ t[Len(s) + 1] = f[Len(f)] /\ \A i \in 1..Len(s) : t[i] = s[i]
  BY DEF Longer
<1>3. s # <<>> => Chunk(s, f, From(s)) /\ From(s) + Len(s) = n
  OBVIOUS
<1> HIDE DEF n
<1>4. CASE s = <<>>
  <2>1. Len(s) = 0
    BY <1>4
  <2>2. t[1] = f[Len(f)] /\ Len(t) = 1
    BY <1>2, <2>1
  <2>3. From(t) = n
    BY <1>1, <2>2 DEF From
  <2>4. ASSUME NEW i \in 1..Len(t)
        PROVE  n + i \in 1..Len(f) /\ t[i] = f[n + i]
    <3>1. i = 1 /\ n + i = Len(f)
      BY <1>1, <2>2
    <3> QED BY <1>1, <2>2, <3>1
  <2>5. n + Len(t) = Len(f)
    BY <1>1, <2>2
  <2> QED BY <1>4, <2>3, <2>4, <2>5 DEF Chunk, n
<1>5. CASE s # <<>>
  <2>1. 1 \in 1..Len(s)
    BY <1>1, <1>5
  <2>2. t[1] = s[1] /\ s[1] \in Entry
    BY <1>2, <2>1, ElementOfSeq
  <2>3. From(t) = From(s) /\ From(s) \in Int
    BY <2>2 DEF From, Entry
  <2>4. From(s) + Len(s) + 1 = Len(f)
    BY <1>1, <1>3, <1>5
  <2>5. ASSUME NEW i \in 1..Len(t)
        PROVE  From(s) + i \in 1..Len(f) /\ t[i] = f[From(s) + i]
    <3>1. CASE i \in 1..Len(s)
      BY <1>2, <1>3, <1>5, <3>1 DEF Chunk
    <3>2. CASE i = Len(s) + 1
      <4>1. From(s) + i = Len(f)
        BY <1>1, <2>3, <2>4, <3>2
      <4> QED BY <1>1, <1>2, <3>2, <4>1
    <3> QED BY <1>1, <1>2, <3>1, <3>2
  <2>6. From(s) + Len(t) = Len(f)
    BY <1>1, <1>2, <2>3, <2>4
  <2> QED BY <1>5, <2>3, <2>5, <2>6 DEF Chunk
<1> QED BY <1>4, <1>5

LEMMA PublishInv ==
    ASSUME LogInv, NEW d \in Deployment, Publish(d)
    PROVE  LogInv'
<1> DEFINE f == file[d]
           e == f[Len(f)]
           w == [writer[d] EXCEPT !.publishing = FALSE]
<1>1. /\ writer[d].publishing /\ writer' = [writer EXCEPT ![d] = w]
      /\ conn' = [c \in Conn |-> IF Subscribed(c, d) THEN Delivered(conn[c], e) ELSE conn[c]]
      /\ UNCHANGED <<file, stuck, client, moves>>
  BY DEF Publish
<1>2. /\ writer \in [Deployment -> Writer] /\ writer[d] \in Writer /\ f \in Seq(Entry)
      /\ WriterInv(d)
  BY DEF LogInv, LogTypeOK, StreamInv
<1>3. w \in Writer /\ w.publishing = FALSE /\ w.sequence = writer[d].sequence
  <2>1. FALSE \in BOOLEAN /\ 0 \in Nat /\ "open" \in Phase
    BY DEF Phase
  <2>2. w \in Writer
    BY <1>2, <2>1, WriterRecords
  <2> QED BY <1>2, <2>2 DEF Writer
<1> HIDE DEF w
<1>4. Len(f) \in Nat /\ Len(f) - 1 \in Nat /\ Len(f) \in 1..Len(f)
  <2>1. Len(f) \in Nat
    <3> HIDE DEF Entry
    <3> QED BY <1>2, LenProperties
  <2> QED BY <1>1, <1>2, <2>1 DEF WriterInv
<1>5. e \in Entry /\ e.sequence = Len(f)
  BY <1>2, <1>4, ElementOfSeq DEF WriterInv
<1>6. /\ Published(d) = Len(f) - 1 /\ Published(d)' = Len(f)
      /\ \A k \in Deployment \ {d} : Published(k)' = Published(k) /\ writer'[k] = writer[k]
      /\ writer'[d] = w
  BY <1>1, <1>2, <1>3 DEF Published
<1>7. \A k \in Deployment : WriterInv(k)'
  <2>1. \A k \in Deployment : WriterInv(k)
    BY DEF LogInv, StreamInv
  <2> QED BY <1>1, <1>3, <1>6, <2>1 DEF WriterInv
<1>8. ASSUME NEW h \in Handler
      PROVE  /\ Delivered(h, e) \in Handler
             /\ Delivered(h, e).at = h.at /\ Delivered(h, e).dep = h.dep
             /\ Delivered(h, e).after = h.after /\ Delivered(h, e).wire = h.wire
             /\ \/ Delivered(h, e).chan = Append(h.chan, e) /\ Delivered(h, e).dropped = h.dropped
                \/ Delivered(h, e).chan = h.chan /\ Delivered(h, e).dropped = TRUE
  <2> DEFINE a == [h EXCEPT !.chan = Append(h.chan, e)]
             b == [h EXCEPT !.dropped = TRUE]
  <2>1. Append(h.chan, e) \in Seq(Entry)
    <3>1. h.chan \in Seq(Entry)
      BY HandlerFields
    <3> HIDE DEF Entry, e
    <3> QED BY <1>5, <3>1, AppendProperties
  <2> HIDE DEF e
  <2>2. a \in Handler /\ b \in Handler
    <3>1. "sent" \in At /\ TRUE \in BOOLEAN /\ 0 \in Nat
      BY DEF At
    <3> QED BY <2>1, <3>1, HandlerRecords
  <2>3. /\ a.at = h.at /\ a.dep = h.dep /\ a.after = h.after /\ a.wire = h.wire
        /\ a.chan = Append(h.chan, e) /\ a.dropped = h.dropped
        /\ b.at = h.at /\ b.dep = h.dep /\ b.after = h.after /\ b.wire = h.wire
        /\ b.chan = h.chan /\ b.dropped = TRUE
    BY DEF Handler
  <2>4. Delivered(h, e) = a \/ Delivered(h, e) = b
    BY DEF Delivered
  <2> HIDE DEF a, b
  <2> QED BY <2>2, <2>3, <2>4
<1>9. ASSUME NEW c \in Conn
      PROVE  /\ conn'[c] \in Handler
             /\ conn'[c].at = conn[c].at /\ conn'[c].dep = conn[c].dep
             /\ conn'[c].after = conn[c].after /\ conn'[c].wire = conn[c].wire
  BY <1>1, <1>8 DEF LogInv, LogTypeOK
<1>10. LogTypeOK'
  <2>1. conn' \in [Conn -> Handler]
    BY <1>1, <1>9
  <2>2. writer' \in [Deployment -> Writer]
    BY <1>1, <1>2, <1>3
  <2> QED BY <1>1, <2>1, <2>2 DEF LogInv, LogTypeOK, client
<1>11. \A h \in Handler : AtWork(h) /\ h.dep # d => AtWork(h)'
  BY <1>1, <1>6 DEF AtWork, ChanInv, Joined
<1>12. ASSUME NEW h \in Handler, AtWork(h), h.dep = d,
              h.dropped \/ h.at \in {"sent", "found", "finished"}
       PROVE  AtWork(h)'
  <2>1. h.chan = <<>> \/ h.dropped
    BY <1>12 DEF AtWork
  <2>2. ChanInv(h, d)'
    BY <1>1, <1>12, <2>1 DEF AtWork, ChanInv
  <2>3. Joined(h, d)' \/ h.at # "streaming"
    <3>1. CASE h.dropped
      BY <1>12, <3>1 DEF AtWork, Joined
    <3>2. CASE h.at \in {"sent", "found", "finished"}
      BY <3>2
    <3> QED BY <1>12, <3>1, <3>2
  <2> QED BY <1>1, <1>12, <2>2, <2>3 DEF AtWork
<1>13. ASSUME NEW h \in Handler, NEW g \in Handler, AtWork(h), h.dep = d,
              h.at \in {"subscribed", "streaming", "leaving"}, ~h.dropped,
              g.at = h.at, g.dep = h.dep, g.after = h.after, g.wire = h.wire,
              \/ g.chan = Append(h.chan, e) /\ g.dropped = h.dropped
              \/ g.chan = h.chan /\ g.dropped = TRUE
       PROVE  AtWork(g)'
  <2>1. h.chan \in Seq(Entry) /\ ChanInv(h, d) /\ h.after \in Nat
    BY <1>13, HandlerFields DEF AtWork
  <2>2. CASE g.chan = Append(h.chan, e) /\ g.dropped = h.dropped
    <3>1. Longer(g.chan, h.chan, f) /\ f # <<>> /\ g.chan \in Seq(Entry)
      <4>1. e \in Entry /\ g.chan \in Seq(Entry)
        BY <1>5, HandlerFields
      <4>2. /\ g.chan # <<>> /\ Len(g.chan) = Len(h.chan) + 1
            /\ \A i \in 1..Len(h.chan) : g.chan[i] = h.chan[i]
            /\ g.chan[Len(h.chan) + 1] = e
        <5> HIDE DEF Entry, e
        <5> QED BY <2>1, <2>2, <4>1, AppendProperties
      <4>3. f # <<>>
        BY <1>4
      <4> QED BY <4>1, <4>2, <4>3 DEF Longer
    <3>2. h.chan # <<>> => Chunk(h.chan, f, From(h.chan))
                           /\ From(h.chan) + Len(h.chan) = Len(f) - 1
      BY <1>6, <1>13, <2>1 DEF ChanInv
    <3>3. /\ Chunk(g.chan, f, From(g.chan)) /\ From(g.chan) + Len(g.chan) = Len(f)
          /\ h.chan = <<>> => From(g.chan) = Len(f) - 1
          /\ h.chan # <<>> => From(g.chan) = From(h.chan)
      <4>1. f[Len(f)].sequence = Len(f)
        BY <1>5
      <4> HIDE DEF f
      <4> QED BY <1>2, <2>1, <3>1, <3>2, <4>1, DeliveredChan
    <3>4. ChanInv(g, d)'
      BY <1>1, <1>6, <3>3 DEF ChanInv
    <3>5. Joined(h, d) => Joined(g, d)'
      <4>1. g.chan # <<>>
        BY <3>1 DEF Longer
      <4> QED BY <1>6, <1>13, <3>3, <4>1 DEF Joined
    <3> QED BY <1>1, <1>13, <3>4, <3>5 DEF AtWork
  <2>3. CASE g.chan = h.chan /\ g.dropped = TRUE
    <3>1. ChanInv(g, d)'
      BY <1>1, <2>1, <2>3 DEF ChanInv
    <3>2. Joined(h, d) => Joined(g, d)'
      BY <1>13, <2>3 DEF Joined
    <3> QED BY <1>1, <1>13, <3>1, <3>2 DEF AtWork
  <2> QED BY <1>13, <2>2, <2>3
<1>14. ASSUME NEW c \in Conn
       PROVE  HandlerInv(conn[c])'
  <2>1. /\ conn[c] \in Handler /\ HandlerInv(conn[c])
        /\ conn'[c] = IF Subscribed(c, d) THEN Delivered(conn[c], e) ELSE conn[c]
    BY <1>1 DEF LogInv, LogTypeOK, StreamInv
  <2> PICK h \in Handler : h = conn[c]
    BY <2>1
  <2> PICK g \in Handler : g = conn'[c]
    BY <1>9
  <2>2. CASE h.at = "free"
    BY <2>1, <2>2 DEF Subscribed, HandlerInv
  <2>3. CASE h.at # "free" /\ Subscribed(c, d)
    <3>1. AtWork(h) /\ h.dep = d /\ ~h.dropped
          /\ h.at \in {"subscribed", "streaming", "leaving"}
      BY <2>1, <2>3 DEF Subscribed, HandlerInv
    <3>2. g = Delivered(h, e)
      BY <2>1, <2>3
    <3>3. /\ g.at = h.at /\ g.dep = h.dep /\ g.after = h.after /\ g.wire = h.wire
          /\ \/ g.chan = Append(h.chan, e) /\ g.dropped = h.dropped
             \/ g.chan = h.chan /\ g.dropped = TRUE
      <4>1. /\ Delivered(h, e).at = h.at /\ Delivered(h, e).dep = h.dep
            /\ Delivered(h, e).after = h.after /\ Delivered(h, e).wire = h.wire
            /\ \/ /\ Delivered(h, e).chan = Append(h.chan, e)
                  /\ Delivered(h, e).dropped = h.dropped
               \/ Delivered(h, e).chan = h.chan /\ Delivered(h, e).dropped = TRUE
        BY <1>8
      <4> HIDE DEF e
      <4> QED BY <3>2, <4>1
    <3>4. AtWork(g)'
      <4> HIDE DEF e
      <4> QED BY <1>13, <3>1, <3>3
    <3>5. HandlerInv(g)'
      BY <2>3, <3>3, <3>4 DEF HandlerInv
    <3> QED BY <3>5
  <2>4. CASE h.at # "free" /\ ~Subscribed(c, d)
    <3>1. AtWork(h) /\ g = h
      BY <2>1, <2>4 DEF HandlerInv
    <3>2. \/ h.dep # d \/ h.dropped
          \/ h.at \in {"sent", "found", "finished"}
      BY <2>4, HandlerFields DEF Subscribed, At
    <3>3. HandlerInv(g)'
      BY <1>11, <1>12, <2>4, <3>1, <3>2 DEF HandlerInv
    <3> QED BY <3>3
  <2> QED BY <2>2, <2>3, <2>4
<1>15. ASSUME NEW v \in Viewer
       PROVE  SourceInv(v)' /\ ShownInv(v)'
  <2>1. SourceInv(v) /\ ShownInv(v)
    BY DEF LogInv, StreamInv
  <2> QED BY <1>1, <1>9, <2>1 DEF SourceInv, ShownInv, client
<1> QED BY <1>7, <1>10, <1>14, <1>15 DEF LogInv, StreamInv

-----------------------------------------------------------------------------
(* The page *)

\* What the page of v is, when v is not the one that acts.
LEMMA OtherPage ==
    ASSUME LogInv, NEW w \in Viewer, file' = file,
           source'[w] = source[w], page'[w] = page[w], lastId'[w] = lastId[w],
           shown'[w] = shown[w],
           source[w] \in Conn => conn'[source[w]] = conn[source[w]],
           \A u \in Viewer \ {w} : \/ source'[u] = source[u] \/ source[w] \notin Conn
                                  \/ source'[u] # source[w]
    PROVE  SourceInv(w)' /\ ShownInv(w)'
<1>1. SourceInv(w) /\ ShownInv(w)
  BY DEF LogInv, StreamInv
<1>2. SourceInv(w)'
  BY <1>1 DEF SourceInv
<1>3. ShownInv(w)'
  BY <1>1 DEF ShownInv
<1> QED BY <1>2, <1>3

LEMMA ClosedInv ==
    ASSUME LogInv, NEW v \in Viewer, conn' = Closed(v), SameFiles
    PROVE  /\ conn' \in [Conn -> Handler]
           /\ \A c \in Conn : HandlerInv(conn[c])' /\ (c # source[v] => conn'[c] = conn[c])
<1>1. ASSUME NEW c \in Conn
      PROVE  /\ conn'[c] \in Handler /\ HandlerInv(conn'[c])
             /\ c # source[v] => conn'[c] = conn[c]
  <2>1. /\ conn'[c] = IF c # source[v] THEN conn[c]
                      ELSE IF conn[c].at = "finished" THEN Free
                      ELSE [conn[c] EXCEPT !.wire = <<>>]
        /\ conn[c] \in Handler /\ HandlerInv(conn[c])
    BY DEF Closed, LogInv, LogTypeOK, StreamInv
  <2>2. CASE c # source[v] \/ conn[c].at = "finished"
    BY <2>1, <2>2, FreeInv, HandlerRecords
  <2>3. CASE c = source[v] /\ conn[c].at # "finished"
    <3> DEFINE g == [conn[c] EXCEPT !.wire = <<>>]
    <3>1. conn[c].at # "free"
      BY <2>3 DEF LogInv, StreamInv, SourceInv
    <3>2. g \in Handler
      <4>1. "sent" \in At /\ TRUE \in BOOLEAN /\ 0 \in Nat /\ <<>> \in Seq(Entry)
        BY DEF At
      <4> QED BY <2>1, <4>1, HandlerRecords
    <3>3. /\ g.at = conn[c].at /\ g.dep = conn[c].dep /\ g.after = conn[c].after
          /\ g.chan = conn[c].chan /\ g.dropped = conn[c].dropped /\ g.wire = <<>>
      BY <2>1 DEF Handler
    <3> HIDE DEF g
    <3>4. AtWork(conn[c]) /\ conn[c].after \in Nat
      BY <2>1, <3>1, HandlerFields DEF HandlerInv
    <3>5. Len(g.wire) = 0 /\ Len(g.wire) <= g.after
      BY <3>3, <3>4
    <3>6. Chunk(g.wire, file[g.dep], g.after - Len(g.wire))
      BY <3>5 DEF Chunk
    <3>7. AtWork(g)
      BY <3>3, <3>4, <3>5, <3>6 DEF AtWork, ChanInv, Joined
    <3> QED BY <2>1, <2>3, <3>1, <3>2, <3>3, <3>7 DEF HandlerInv, g
  <2> QED BY <2>2, <2>3
<1>2. conn' \in [Conn -> Handler]
  <2>1. conn' = [c \in Conn |-> conn'[c]]
    BY DEF Closed
  <2> QED BY <1>1, <2>1
<1>3. \A h : HandlerInv(h) => HandlerInv(h)'
  BY SameWork
<1> QED BY <1>1, <1>2, <1>3

\* The page of v goes to p, or stays, with the lines it has or none.
LEMMA CloseSource ==
    ASSUME LogInv, NEW v \in Viewer, NEW p \in Deployment \cup {NoPage}, NEW n \in Nat,
           NEW lines \in Seq(Line), lines = shown[v] \/ lines = <<>>,
           page' = [page EXCEPT ![v] = p], source' = [source EXCEPT ![v] = NoConn],
           lastId' = [lastId EXCEPT ![v] = n], shown' = [shown EXCEPT ![v] = lines],
           conn' = Closed(v), UNCHANGED <<file, writer, stuck>>, moves' \in 0..MaxMoves,
           p # NoPage => n <= Len(file[p]),
           p # NoPage => n <= Len(lines)
    PROVE  LogInv'
<1>1. SameFiles
  BY DEF SameFiles
<1>2. /\ conn' \in [Conn -> Handler]
      /\ \A c \in Conn : HandlerInv(conn[c])' /\ (c # source[v] => conn'[c] = conn[c])
  BY <1>1, ClosedInv
<1>3. LogTypeOK'
  BY <1>2 DEF LogInv, LogTypeOK
<1>4. \A d \in Deployment : WriterInv(d)'
  BY <1>1, SameWork DEF LogInv, StreamInv
<1>5. /\ page'[v] = p /\ source'[v] = NoConn /\ lastId'[v] = n /\ shown'[v] = lines
      /\ \A w \in Viewer \ {v} : /\ page'[w] = page[w] /\ source'[w] = source[w]
                                  /\ lastId'[w] = lastId[w] /\ shown'[w] = shown[w]
  BY DEF LogInv, LogTypeOK
<1>6. SourceInv(v)'
  BY <1>5, LogAssumption DEF SourceInv
<1>7. ShownInv(v)'
  <2>1. ShownInv(v) /\ Len(<<>>) = 0
    BY DEF LogInv, StreamInv
  <2>2. CASE lines = shown[v]
    BY <1>5, <2>1, <2>2 DEF ShownInv
  <2>3. CASE lines = <<>>
    <3>1. \A i \in 1..Len(lines) : FALSE
      BY <2>1, <2>3
    <3> QED BY <1>5, <2>3, <3>1 DEF ShownInv
  <2> QED BY <2>2, <2>3
<1>8. ASSUME NEW w \in Viewer \ {v}
      PROVE  SourceInv(w)' /\ ShownInv(w)'
  <2>1. source[w] \in Conn => source[w] # source[v]
    BY <1>8 DEF LogInv, StreamInv, SourceInv
  <2>2. source[w] \in Conn => conn'[source[w]] = conn[source[w]]
    BY <1>2, <2>1
  <2>3. \A u \in Viewer \ {w} : source'[u] = source[u] \/ source[w] \notin Conn
                              \/ source'[u] # source[w]
    BY <1>5, LogAssumption
  <2> QED BY <1>5, <2>2, <2>3, OtherPage
<1> QED BY <1>2, <1>3, <1>4, <1>6, <1>7, <1>8 DEF LogInv, StreamInv

LEMMA OpenPageInv ==
    ASSUME LogInv, NEW v \in Viewer, NEW d \in Deployment \cup {NoPage}, OpenPage(v, d)
    PROVE  LogInv'
<1>1. /\ page' = [page EXCEPT ![v] = d] /\ source' = [source EXCEPT ![v] = NoConn]
      /\ lastId' = [lastId EXCEPT ![v] = 0] /\ shown' = [shown EXCEPT ![v] = <<>>]
      /\ conn' = Closed(v) /\ UNCHANGED <<file, writer, stuck>> /\ moves' \in 0..MaxMoves
  BY MoveTyped DEF OpenPage
<1>2. <<>> \in Seq(Line) /\ 0 \in Nat /\ 0 <= Len(<<>>)
  OBVIOUS
<1>3. d # NoPage => 0 <= Len(file[d])
  BY PageTyped
<1> QED BY <1>1, <1>2, <1>3, CloseSource

LEMMA FollowLinkInv ==
    ASSUME LogInv, NEW v \in Viewer, FollowLink(v)
    PROVE  LogInv'
<1>1. PICK d \in Deployment : page' = [page EXCEPT ![v] = d]
  BY DEF FollowLink
<1>2. /\ source' = [source EXCEPT ![v] = NoConn] /\ lastId' = [lastId EXCEPT ![v] = 0]
      /\ shown' = [shown EXCEPT ![v] = shown[v]]
      /\ conn' = Closed(v) /\ UNCHANGED <<file, writer, stuck>> /\ moves' \in 0..MaxMoves
  <2>1. shown' = shown /\ shown = [shown EXCEPT ![v] = shown[v]]
    BY DEF FollowLink, LogInv, LogTypeOK
  <2> QED BY <2>1, MoveTyped DEF FollowLink
<1>3. 0 \in Nat /\ 0 <= Len(shown[v]) /\ 0 <= Len(file[d]) /\ shown[v] \in Seq(Line)
  BY PageTyped
<1> QED BY <1>1, <1>2, <1>3, CloseSource

LEMMA BreakInv ==
    ASSUME LogInv, NEW v \in Viewer, Break(v)
    PROVE  LogInv'
<1>1. /\ source' = [source EXCEPT ![v] = NoConn]
      /\ page' = [page EXCEPT ![v] = page[v]] /\ lastId' = [lastId EXCEPT ![v] = lastId[v]]
      /\ shown' = [shown EXCEPT ![v] = shown[v]]
      /\ conn' = Closed(v) /\ UNCHANGED <<file, writer, stuck>> /\ moves' \in 0..MaxMoves
  <2>1. /\ page' = page /\ page = [page EXCEPT ![v] = page[v]]
        /\ lastId' = lastId /\ lastId = [lastId EXCEPT ![v] = lastId[v]]
        /\ shown' = shown /\ shown = [shown EXCEPT ![v] = shown[v]]
    BY DEF Break, LogInv, LogTypeOK
  <2> QED BY <2>1, MoveTyped DEF Break
<1>2. SourceInv(v) /\ ShownInv(v)
  BY DEF LogInv, StreamInv
<1>3. page[v] # NoPage => lastId[v] <= Len(file[page[v]])
  BY <1>2 DEF SourceInv
<1>4. page[v] # NoPage => lastId[v] <= Len(shown[v])
  BY <1>2 DEF ShownInv
<1> QED BY <1>1, <1>3, <1>4, PageTyped, CloseSource

LEMMA ConnectInv ==
    ASSUME LogInv, NEW v \in Viewer, Connect(v)
    PROVE  LogInv'
<1> DEFINE g == [Free EXCEPT !.at = "sent", !.dep = page[v], !.after = lastId[v]]
<1>1. PICK c \in Conn : /\ conn[c].at = "free" /\ conn' = [conn EXCEPT ![c] = g]
                        /\ source' = [source EXCEPT ![v] = c]
  BY DEF Connect
<1>2. /\ page[v] # NoPage /\ source[v] = NoConn
      /\ UNCHANGED <<file, writer, stuck, page, lastId, shown, moves>>
  BY DEF Connect
<1>3. page[v] \in Deployment /\ lastId[v] \in Nat /\ lastId[v] <= Len(file[page[v]])
  BY <1>2, PageTyped DEF LogInv, StreamInv, SourceInv
<1>4. g \in Handler
  BY <1>3, HandlerRecords
<1>5. /\ g.at = "sent" /\ g.dep = page[v] /\ g.after = lastId[v]
      /\ g.chan = <<>> /\ g.dropped = FALSE /\ g.wire = <<>>
  BY DEF Free
<1> HIDE DEF g
<1>6. Len(g.wire) = 0 /\ g.after - Len(g.wire) = lastId[v]
  BY <1>3, <1>5
<1>7. HandlerInv(g)
  <2>1. Chunk(g.wire, file[g.dep], g.after - Len(g.wire))
    BY <1>6 DEF Chunk
  <2> QED BY <1>3, <1>5, <1>6, <2>1 DEF HandlerInv, AtWork, ChanInv
<1>8. SameFiles
  BY <1>2 DEF SameFiles
<1>9. LogTypeOK'
  BY <1>1, <1>2, <1>4 DEF LogInv, LogTypeOK
<1>10. /\ \A d \in Deployment : WriterInv(d)'
       /\ \A k \in Conn : HandlerInv(conn[k])'
  <2>1. \A k \in Conn : HandlerInv(conn'[k])
    BY <1>1, <1>7 DEF LogInv, LogTypeOK, StreamInv
  <2> QED BY <1>8, <2>1, SameWork DEF LogInv, StreamInv
<1>11. \A w \in Viewer : source[w] # c
  BY <1>1 DEF LogInv, StreamInv, SourceInv
<1>12. SourceInv(v)' /\ ShownInv(v)'
  <2>1. source'[v] = c /\ conn'[c] = g /\ \A w \in Viewer \ {v} : source'[w] # c
    BY <1>1, <1>11 DEF LogInv, LogTypeOK
  <2>2. SourceInv(v)'
    BY <1>2, <1>3, <1>5, <1>6, <2>1 DEF SourceInv
  <2> QED BY <1>2, <2>2 DEF LogInv, StreamInv, ShownInv
<1>13. ASSUME NEW w \in Viewer \ {v}
       PROVE  SourceInv(w)' /\ ShownInv(w)'
  <2>1. source'[w] = source[w] /\ (source[w] \in Conn => conn'[source[w]] = conn[source[w]])
    BY <1>1, <1>11 DEF LogInv, LogTypeOK
  <2>2. \A u \in Viewer \ {w} : source'[u] = source[u] \/ source'[u] # source[w]
    BY <1>1, <1>11 DEF LogInv, LogTypeOK
  <2> QED BY <1>2, <2>1, <2>2, OtherPage
<1> QED BY <1>9, <1>10, <1>12, <1>13 DEF LogInv, StreamInv

\* What a page gets is the entry after the last one it has got.
LEMMA NextLine ==
    ASSUME LogInv, NEW v \in Viewer, NEW c \in Conn, c = source[v], conn[c].wire # <<>>
    PROVE  LET h == conn[c] IN
           /\ page[v] \in Deployment /\ h.dep = page[v]
           /\ Head(h.wire) \in Entry
           /\ Head(h.wire) = file[page[v]][lastId[v] + 1]
           /\ lastId[v] + 1 \in 1..Len(file[page[v]])
           /\ Head(h.wire).sequence = lastId[v] + 1
           /\ Tail(h.wire) \in Seq(Entry) /\ Len(Tail(h.wire)) = Len(h.wire) - 1
           /\ lastId[v] = h.after - Len(h.wire)
           /\ Chunk(Tail(h.wire), file[page[v]], lastId[v] + 1)
<1> DEFINE h == conn[c]
           f == file[h.dep]
<1>1. h.at # "free" /\ h.dep = page[v] /\ lastId[v] = h.after - Len(h.wire)
  BY DEF LogInv, StreamInv, SourceInv
<1>2. h \in Handler /\ AtWork(h) /\ f \in Seq(Entry) /\ WriterInv(h.dep) /\ h.dep \in Deployment
  BY <1>1, Working
<1>3. h.wire \in Seq(Entry) /\ lastId[v] \in Nat /\ Chunk(h.wire, f, lastId[v])
  BY <1>1, <1>2, HandlerFields, PageTyped DEF AtWork
<1> DEFINE k == lastId[v]
           s == h.wire
<1>4. s \in Seq(Entry) /\ k \in Int /\ Chunk(s, f, k) /\ s # <<>>
  BY <1>3
<1> HIDE DEF k, s, f
<1>5. /\ Chunk(Tail(s), f, k + 1) /\ Tail(s) \in Seq(Entry) /\ Len(Tail(s)) = Len(s) - 1
      /\ k + 1 \in 1..Len(f) /\ Head(s) = f[k + 1]
  BY <1>2, <1>4, ChunkTail
<1>6. f[k + 1].sequence = k + 1 /\ f[k + 1] \in Entry
  BY <1>2, <1>5, ElementOfSeq DEF WriterInv, f
<1> QED BY <1>1, <1>2, <1>5, <1>6 DEF k, s, f

\* The number of the next entry is there already just when the page has more lines
\* than its EventSource has got: the lines of a deployment it was at before.
LEMMA HasLineMeans ==
    ASSUME LogInv, NEW v \in Viewer, page[v] \in Deployment, NEW e \in Entry,
           e.sequence = lastId[v] + 1
    PROVE  HasLine(v, e) <=> lastId[v] + 1 <= Len(shown[v])
<1>1. /\ ShownInv(v) /\ \A d \in Deployment : WriterInv(d)
      /\ lastId[v] \in Nat /\ shown[v] \in Seq(Line) /\ Len(shown[v]) \in Nat
  BY PageTyped DEF LogInv, StreamInv
<1>2. DOMAIN shown[v] = 1..Len(shown[v])
  <2> HIDE DEF Line
  <2> QED BY <1>1, LenProperties
<1>3. \A i \in 1..Len(shown[v]) : shown[v][i].entry.sequence = i
  BY <1>1, LinesTyped DEF ShownInv, WriterInv
<1> QED BY <1>1, <1>2, <1>3 DEF HasLine

\* The lines of v with the next entry of its page.
LEMMA ShownGrows ==
    ASSUME LogInv, NEW v \in Viewer, page[v] \in Deployment, NEW e \in Entry,
           e = file[page[v]][lastId[v] + 1], e.sequence = lastId[v] + 1,
           lastId[v] + 1 \in 1..Len(file[page[v]]),
           UNCHANGED <<file, page>>, lastId'[v] = e.sequence,
           shown'[v] = IF HasLine(v, e) THEN shown[v]
                       ELSE Append(shown[v], [dep |-> page[v], entry |-> e])
    PROVE  ShownInv(v)' /\ shown'[v] \in Seq(Line)
<1> DEFINE l == [dep |-> page[v], entry |-> e]
<1>1. /\ ShownInv(v) /\ lastId[v] \in Nat /\ lastId[v] <= Len(shown[v])
      /\ shown[v] \in Seq(Line) /\ Len(shown[v]) \in Nat
  BY PageTyped, LogAssumption DEF LogInv, StreamInv, ShownInv
<1>2. CASE HasLine(v, e)
  <2>1. shown'[v] = shown[v] /\ lastId'[v] <= Len(shown[v])
    BY <1>2, HasLineMeans
  <2> QED BY <1>1, <2>1 DEF ShownInv
<1>3. CASE ~HasLine(v, e)
  <2> DEFINE t == shown'[v]
  <2>1. l \in Line /\ l.dep = page[v] /\ l.entry = e
    BY DEF Line
  <2>2. /\ t \in Seq(Line) /\ Len(t) = Len(shown[v]) + 1
        /\ \A i \in 1..Len(shown[v]) : t[i] = shown[v][i]
        /\ t[Len(shown[v]) + 1] = l
    <3>1. t = Append(shown[v], l)
      BY <1>3
    <3> HIDE DEF l, t, Line
    <3> QED BY <1>1, <2>1, <3>1, AppendProperties
  <2>3. Len(shown[v]) = lastId[v]
    BY <1>1, <1>3, HasLineMeans
  <2> HIDE DEF l, t
  <2>4. ASSUME NEW i \in 1..Len(t)
        PROVE  i \in 1..Len(file[t[i].dep]) /\ t[i].entry = file[t[i].dep][i]
    <3>1. CASE i \in 1..Len(shown[v])
      BY <1>1, <2>2, <3>1 DEF ShownInv
    <3>2. CASE i = lastId[v] + 1
      BY <2>1, <2>2, <2>3, <3>2
    <3> QED BY <1>1, <2>2, <2>3, <3>1, <3>2
  <2>5. lastId'[v] <= Len(t)
    BY <1>1, <2>2, <2>3
  <2>6. ShownInv(v)'
    BY <2>4, <2>5 DEF ShownInv, t
  <2> QED BY <2>2, <2>6 DEF t
<1> QED BY <1>2, <1>3

LEMMA ReceiveInv ==
    ASSUME LogInv, NEW v \in Viewer, Receive(v)
    PROVE  LogInv'
<1> DEFINE c == source[v]
           h == conn[c]
           e == Head(h.wire)
           g == [h EXCEPT !.wire = Tail(h.wire)]
           l == [dep |-> page[v], entry |-> e]
<1>1. /\ c \in Conn /\ h.wire # <<>> /\ conn' = [conn EXCEPT ![c] = g]
      /\ lastId' = [lastId EXCEPT ![v] = e.sequence]
      /\ shown' = IF HasLine(v, e) THEN shown
                  ELSE [shown EXCEPT ![v] = Append(shown[v], l)]
      /\ UNCHANGED <<file, writer, stuck, page, source, moves>>
  BY DEF Receive
<1>2. /\ page[v] \in Deployment /\ h.dep = page[v] /\ e \in Entry
      /\ e = file[page[v]][lastId[v] + 1] /\ lastId[v] + 1 \in 1..Len(file[page[v]])
      /\ e.sequence = lastId[v] + 1
      /\ Tail(h.wire) \in Seq(Entry) /\ Len(Tail(h.wire)) = Len(h.wire) - 1
      /\ lastId[v] = h.after - Len(h.wire)
      /\ Chunk(Tail(h.wire), file[page[v]], lastId[v] + 1)
  BY <1>1, NextLine
<1>3. h \in Handler /\ h.at # "free" /\ AtWork(h)
  BY <1>1, Working DEF LogInv, StreamInv, SourceInv
<1>4. h.after \in Nat /\ Len(h.wire) \in Nat /\ lastId[v] \in Nat
  BY <1>3, HandlerFields, PageTyped
<1>5. g \in Handler
  <2>1. "sent" \in At /\ TRUE \in BOOLEAN /\ 0 \in Nat /\ <<>> \in Seq(Entry)
    BY DEF At
  <2> QED BY <1>2, <1>3, <2>1, HandlerRecords
<1>6. /\ g.at = h.at /\ g.dep = h.dep /\ g.after = h.after
      /\ g.chan = h.chan /\ g.dropped = h.dropped /\ g.wire = Tail(h.wire)
  BY <1>3 DEF Handler
<1> HIDE DEF g, e, l
<1> DEFINE m == Len(g.wire)
<1>7. m = Len(h.wire) - 1
  BY <1>2, <1>6
<1> HIDE DEF m
<1>8. g.after - m = lastId[v] + 1 /\ m <= g.after /\ e.sequence = g.after - m
  BY <1>2, <1>4, <1>6, <1>7
<1>9. HandlerInv(g)
  <2>1. h.at \notin {"sent", "found", "subscribed"}
    BY <1>1, <1>3 DEF AtWork
  <2>2. Chunk(g.wire, file[g.dep], g.after - Len(g.wire)) /\ Len(g.wire) <= g.after
    BY <1>2, <1>6, <1>8 DEF m
  <2>3. ChanInv(g, g.dep) /\ (g.at = "streaming" => Joined(g, g.dep))
    BY <1>3, <1>6 DEF AtWork, ChanInv, Joined
  <2> QED BY <1>3, <1>6, <2>1, <2>2, <2>3 DEF HandlerInv, AtWork
<1>10. SameFiles
  BY <1>1 DEF SameFiles
<1>11. ShownInv(v)' /\ shown'[v] \in Seq(Line) /\ lastId'[v] = e.sequence
  <2>1. /\ lastId'[v] = e.sequence
        /\ shown'[v] = IF HasLine(v, e) THEN shown[v] ELSE Append(shown[v], l)
    BY <1>1 DEF LogInv, LogTypeOK
  <2> QED BY <1>1, <1>2, <2>1, ShownGrows DEF l
<1>12. \A w \in Viewer \ {v} : shown'[w] = shown[w] /\ lastId'[w] = lastId[w]
  BY <1>1 DEF LogInv, LogTypeOK
<1>13. LogTypeOK'
  <2>1. lastId' \in [Viewer -> Nat]
    BY <1>1, <1>2, <1>4 DEF LogInv, LogTypeOK
  <2>2. shown' \in [Viewer -> Seq(Line)]
    <3>1. shown' = [w \in Viewer |-> shown'[w]]
      BY <1>1 DEF LogInv, LogTypeOK
    <3>2. \A w \in Viewer : shown'[w] \in Seq(Line)
      BY <1>11, <1>12 DEF LogInv, LogTypeOK
    <3> QED BY <3>1, <3>2
  <2>3. conn' \in [Conn -> Handler]
    BY <1>1, <1>5 DEF LogInv, LogTypeOK
  <2> QED BY <1>1, <2>1, <2>2, <2>3 DEF LogInv, LogTypeOK
<1>14. /\ \A d \in Deployment : WriterInv(d)'
       /\ \A k \in Conn : HandlerInv(conn[k])'
  <2>1. \A k \in Conn : HandlerInv(conn'[k])
    BY <1>1, <1>9 DEF LogInv, LogTypeOK, StreamInv
  <2> QED BY <1>10, <2>1, SameWork DEF LogInv, StreamInv
<1>15. SourceInv(v)'
  <2>1. conn'[source[v]] = g
    BY <1>1 DEF LogInv, LogTypeOK
  <2>2. \A w \in Viewer \ {v} : source[w] # source[v]
    BY <1>1 DEF LogInv, StreamInv, SourceInv
  <2>3. lastId'[v] = g.after - Len(g.wire)
    BY <1>8, <1>11 DEF m
  <2>4. lastId'[v] <= Len(file[page[v]])
    BY <1>2, <1>11, PageTyped
  <2> QED BY <1>1, <1>2, <1>3, <1>6, <2>1, <2>2, <2>3, <2>4 DEF SourceInv
<1>16. ASSUME NEW w \in Viewer \ {v}
       PROVE  SourceInv(w)' /\ ShownInv(w)'
  <2>1. source[w] \in Conn => conn'[source[w]] = conn[source[w]]
    BY <1>1 DEF LogInv, LogTypeOK, StreamInv, SourceInv
  <2> QED BY <1>1, <1>12, <2>1, OtherPage
<1> QED BY <1>11, <1>13, <1>14, <1>15, <1>16 DEF LogInv, StreamInv

LEMMA SeeEndInv ==
    ASSUME LogInv, NEW v \in Viewer, SeeEnd(v)
    PROVE  LogInv'
<1> DEFINE c == source[v]
<1>1. PICK s \in {Failed, NoConn} :
         /\ c \in Conn /\ conn' = [conn EXCEPT ![c] = Free]
         /\ source' = [source EXCEPT ![v] = s]
         /\ UNCHANGED <<file, writer, stuck, page, lastId, shown, moves>>
  BY DEF SeeEnd
<1>2. s \notin Conn
  BY LogAssumption
<1>3. SameFiles
  BY <1>1 DEF SameFiles
<1>4. LogTypeOK'
  BY <1>1, HandlerRecords DEF LogInv, LogTypeOK
<1>5. /\ \A d \in Deployment : WriterInv(d)'
      /\ \A k \in Conn : HandlerInv(conn[k])'
  <2>1. \A k \in Conn : HandlerInv(conn'[k])
    BY <1>1, FreeInv DEF LogInv, LogTypeOK, StreamInv
  <2> QED BY <1>3, <2>1, SameWork DEF LogInv, StreamInv
<1>6. source'[v] = s /\ \A w \in Viewer \ {v} : source'[w] = source[w]
  BY <1>1 DEF LogInv, LogTypeOK
<1>7. SourceInv(v)' /\ ShownInv(v)'
  BY <1>1, <1>2, <1>6 DEF LogInv, StreamInv, SourceInv, ShownInv
<1>8. ASSUME NEW w \in Viewer \ {v}
      PROVE  SourceInv(w)' /\ ShownInv(w)'
  <2>1. source[w] \in Conn => conn'[source[w]] = conn[source[w]]
    BY <1>1 DEF LogInv, LogTypeOK, StreamInv, SourceInv
  <2>2. \A u \in Viewer \ {w} : \/ source'[u] = source[u] \/ source[w] \notin Conn
                                \/ source'[u] # source[w]
    BY <1>2, <1>6
  <2> QED BY <1>1, <1>6, <2>1, <2>2, OtherPage
<1> QED BY <1>4, <1>5, <1>7, <1>8 DEF LogInv, StreamInv

-----------------------------------------------------------------------------
(* The process *)

LEMMA RestartInv ==
    ASSUME LogInv, Restart
    PROVE  LogInv'
<1>1. /\ stuck' = FALSE /\ conn' = [c \in Conn |-> Free]
      /\ source' = [v \in Viewer |-> IF source[v] \in Conn THEN NoConn ELSE source[v]]
      /\ writer' = [d \in Deployment |-> Recovered(writer[d])]
      /\ moves' \in 0..MaxMoves /\ UNCHANGED <<file, page, lastId, shown>>
  BY MoveTyped DEF Restart
<1>2. ASSUME NEW d \in Deployment
      PROVE  /\ writer'[d] \in Writer /\ writer'[d].publishing = FALSE
             /\ writer'[d].sequence = writer[d].sequence
  <2> DEFINE w == writer[d]
             p == IF w.phase \in {"open", "closed"} THEN "settled" ELSE w.phase
             q == [w EXCEPT !.publishing = FALSE, !.phase = p]
  <2>1. w \in Writer /\ writer'[d] = q
    BY <1>1 DEF LogInv, LogTypeOK, Recovered
  <2>2. p \in Phase /\ FALSE \in BOOLEAN /\ 0 \in Nat
    BY <2>1 DEF Writer, Phase
  <2> HIDE DEF p
  <2>3. q \in Writer
    BY <2>1, <2>2, WriterRecords
  <2>4. q.publishing = FALSE /\ q.sequence = w.sequence
    BY <2>1 DEF Writer
  <2> HIDE DEF q
  <2> QED BY <2>1, <2>3, <2>4
<1>3. \A d \in Deployment : WriterInv(d)'
  <2>1. \A d \in Deployment : WriterInv(d)
    BY DEF LogInv, StreamInv
  <2> QED BY <1>1, <1>2, <2>1 DEF WriterInv
<1>4. \A c \in Conn : HandlerInv(conn[c])'
  BY <1>1, FreeInv DEF HandlerInv
<1>5. \A v \in Viewer : source'[v] \notin Conn /\ source'[v] \in Conn \cup {NoConn, Failed}
  BY <1>1, LogAssumption DEF LogInv, LogTypeOK
<1>6. \A v \in Viewer : SourceInv(v)' /\ ShownInv(v)'
  <2>1. \A v \in Viewer : SourceInv(v)'
    BY <1>1, <1>5 DEF LogInv, StreamInv, SourceInv
  <2>2. \A v \in Viewer : ShownInv(v)'
    BY <1>1 DEF LogInv, StreamInv, ShownInv
  <2> QED BY <2>1, <2>2
<1>7. LogTypeOK'
  <2>1. source' \in [Viewer -> Conn \cup {NoConn, Failed}]
    BY <1>1, <1>5
  <2>2. writer' \in [Deployment -> Writer]
    <3>1. writer' = [d \in Deployment |-> writer'[d]]
      BY <1>1
    <3> QED BY <1>2, <3>1
  <2>3. conn' \in [Conn -> Handler]
    BY <1>1, HandlerRecords
  <2> QED BY <1>1, <2>1, <2>2, <2>3 DEF LogInv, LogTypeOK
<1> QED BY <1>3, <1>4, <1>6, <1>7 DEF LogInv, StreamInv

LEMMA LogInit ==
    ASSUME Init
    PROVE  LogInv
<1>1. Len(<<>>) = 0 /\ <<>> \in Seq(Entry) /\ <<>> \in Seq(Line) /\ 0 \in Nat
      /\ 0 \in 0..MaxMoves /\ FALSE \in BOOLEAN
  OBVIOUS
<1>2. LogTypeOK
  BY <1>1, HandlerRecords, WriterRecords DEF Init, LogTypeOK
<1>3. ASSUME NEW d \in Deployment
      PROVE  WriterInv(d)
  <2>1. file[d] = <<>> /\ writer[d].sequence = 0 /\ writer[d].publishing = FALSE
    BY DEF Init, NewWriter
  <2>2. Len(file[d]) = 0
    BY <1>1, <2>1
  <2> QED BY <2>1, <2>2 DEF WriterInv
<1>4. \A c \in Conn : HandlerInv(conn[c])
  BY FreeInv DEF Init
<1>5. \A v \in Viewer : SourceInv(v) /\ ShownInv(v)
  BY <1>1, LogAssumption DEF Init, SourceInv, ShownInv
<1> QED BY <1>2, <1>3, <1>4, <1>5 DEF LogInv, StreamInv

LEMMA LogStep ==
    ASSUME LogInv, [Next]_vars
    PROVE  LogInv'
<1>1. CASE UNCHANGED vars
  <2>1. SameFiles /\ writer' \in [Deployment -> Writer]
        /\ UNCHANGED <<file, stuck, conn, client, moves>>
    BY <1>1 DEF vars, server, client, SameFiles, LogInv, LogTypeOK
  <2> QED BY <2>1, PhaseMoves
<1>2. ASSUME NEW d \in Deployment, Run(d)
      PROVE  LogInv'
  BY <1>2, PhaseInv, WriteEntryInv, PublishInv DEF Run
<1>3. ASSUME NEW v \in Viewer, Browse(v) \/ Listen(v)
      PROVE  LogInv'
  BY <1>3, OpenPageInv, FollowLinkInv, BreakInv, ConnectInv, ReceiveInv, SeeEndInv
     DEF Browse, Listen
<1> QED BY <1>1, <1>2, <1>3, ServeInv, RestartInv DEF Next

LEMMA LogAlways == Spec => []LogInv
<1>1. Init => LogInv
  BY LogInit
<1>2. LogInv /\ [Next]_vars => LogInv'
  BY LogStep
<1> QED BY <1>1, <1>2, PTL DEF Spec

\* Whatever is written, opened, left, broken or restarted, in any number of pages
\* and connections, the Store, its handlers and the pages keep their types.
THEOREM LogTyped == Spec => []LogTypeOK
<1>1. LogInv => LogTypeOK
  BY DEF LogInv
<1> QED BY <1>1, LogAlways, PTL

\* For any sizes and limits WriteStep gives every entry of a file, the mark of its
\* truncation too, the number of its place in it.
THEOREM LogNumbered == Spec => []Numbered
<1>1. LogInv => Numbered
  <2>1. \A d \in Deployment : file[d] \in Seq(Entry) => DOMAIN file[d] = 1..Len(file[d])
    <3> HIDE DEF Entry
    <3> QED BY LenProperties
  <2> QED BY <2>1 DEF LogInv, LogTypeOK, StreamInv, WriterInv, Numbered
<1> QED BY <1>1, LogAlways, PTL

\* A page that shows lines of its own deployment only shows the beginning of the
\* file, each entry once and in order.
NoGap ==
    \A v \in Viewer : page[v] # NoPage /\ OwnLines(v) =>
        /\ Len(shown[v]) <= Len(file[page[v]])
        /\ \A i \in DOMAIN shown[v] : shown[v][i].entry = file[page[v]][i]

\* For any number of deployments, pages and connections and any capacity of a
\* channel, a page shows a prefix of its file: the handler subscribes before it
\* reads, a full channel is closed and never skips, and onmessage drops what the
\* page has.
THEOREM ShownWithoutGap == Spec => []NoGap
<1>1. ASSUME LogInv, NEW v \in Viewer, page[v] # NoPage, OwnLines(v)
      PROVE  /\ Len(shown[v]) <= Len(file[page[v]])
             /\ \A i \in DOMAIN shown[v] : shown[v][i].entry = file[page[v]][i]
  <2>1. ShownInv(v) /\ page[v] \in Deployment /\ Len(shown[v]) \in Nat
        /\ Len(file[page[v]]) \in Nat
    BY <1>1, PageTyped DEF LogInv, StreamInv
  <2>2. DOMAIN shown[v] = 1..Len(shown[v])
    <3> HIDE DEF Line
    <3> QED BY <1>1, PageTyped, LenProperties
  <2>3. \A i \in 1..Len(shown[v]) :
           i \in 1..Len(file[page[v]]) /\ shown[v][i].entry = file[page[v]][i]
    BY <1>1, <2>1, <2>2 DEF OwnLines, ShownInv
  <2>4. Len(shown[v]) <= Len(file[page[v]])
    <3>1. CASE Len(shown[v]) = 0
      BY <2>1, <3>1
    <3>2. CASE Len(shown[v]) # 0
      <4>1. Len(shown[v]) \in 1..Len(shown[v])
        BY <2>1, <3>2
      <4> QED BY <2>1, <2>3, <4>1
    <3> QED BY <3>1, <3>2
  <2> QED BY <2>2, <2>3, <2>4
<1>2. LogInv => NoGap
  BY <1>1 DEF NoGap
<1> QED BY <1>2, LogAlways, PTL

\* Whatever is replayed after a reconnection or published meanwhile, what is on its
\* way to a page starts after the last entry it got and has no gap and no repetition.
THEOREM SentOnce == Spec => []NothingTwice
<1>1. ASSUME LogInv, NEW v \in Viewer, source[v] \in Conn,
             NEW i \in DOMAIN conn[source[v]].wire
      PROVE  conn[source[v]].wire[i].sequence = lastId[v] + i
  <2> DEFINE h == conn[source[v]]
  <2>1. h.at # "free" /\ h.dep = page[v] /\ lastId[v] = h.after - Len(h.wire)
    BY <1>1 DEF LogInv, StreamInv, SourceInv
  <2>2. h \in Handler /\ AtWork(h) /\ WriterInv(h.dep)
    BY <1>1, <2>1, Working
  <2>3. i \in 1..Len(h.wire)
    <3> HIDE DEF Entry
    <3> QED BY <1>1, <2>2, HandlerFields, LenProperties
  <2>4. Chunk(h.wire, file[h.dep], lastId[v])
    BY <2>1, <2>2 DEF AtWork
  <2>5. h.wire[i] = file[h.dep][lastId[v] + i] /\ lastId[v] + i \in 1..Len(file[h.dep])
    BY <2>3, <2>4 DEF Chunk
  <2> QED BY <2>2, <2>5 DEF WriterInv
<1>2. LogInv => NothingTwice
  BY <1>1 DEF NothingTwice
<1> QED BY <1>2, LogAlways, PTL
-----------------------------------------------------------------------------
(* The stream implements the feed: one step of Write, Show, Open or Turn at a *)
(* time, and everything about connections leaves the feed alone.              *)

\* The writer appends one entry at the end of one file.
LEMMA WriteFeeds ==
    ASSUME LogInv, NEW d \in Deployment, NEW n \in Sizes, WriteEntry(d, n)
    PROVE  Feed!Write(d)
<1> DEFINE e == NewEntry(writer[d], n)
<1>1. /\ file' = [file EXCEPT ![d] = Append(file[d], e)]
      /\ UNCHANGED <<page, shown>>
  BY DEF WriteEntry, client
<1>2. writer[d] \in Writer /\ file[d] \in Seq(Entry) /\ file \in [Deployment -> Seq(Entry)]
  BY DEF LogInv, LogTypeOK
<1>3. e \in Entry
  BY <1>2, NewEntryTyped
<1> HIDE DEF e, Entry
<1>4. /\ Len(Append(file[d], e)) = Len(file[d]) + 1
      /\ \A i \in 1..Len(file[d]) : Append(file[d], e)[i] = file[d][i]
  BY <1>2, <1>3, AppendProperties
<1>5. file'[d] = Append(file[d], e)
  BY <1>1, <1>2
<1> QED BY <1>1, <1>4, <1>5 DEF Feed!Write

\* What the EventSource gets is the entry for the next place, or the place is taken.
LEMMA ReceiveShows ==
    ASSUME LogInv, NEW v \in Viewer, Receive(v)
    PROVE  Feed!Show(v) \/ UNCHANGED <<file, page, shown>>
<1> DEFINE e == Head(conn[source[v]].wire)
<1>1. /\ source[v] \in Conn /\ conn[source[v]].wire # <<>>
      /\ UNCHANGED <<file, page>>
      /\ shown' = IF HasLine(v, e) THEN shown
                  ELSE [shown EXCEPT ![v] =
                            Append(shown[v], [dep |-> page[v], entry |-> e])]
  BY DEF Receive
<1>2. /\ page[v] \in Deployment /\ e \in Entry /\ e = file[page[v]][lastId[v] + 1]
      /\ lastId[v] + 1 \in 1..Len(file[page[v]]) /\ e.sequence = lastId[v] + 1
  BY <1>1, NextLine
<1>3. lastId[v] \in Nat /\ Len(shown[v]) \in Nat /\ lastId[v] <= Len(shown[v])
  BY <1>2, PageTyped, LogAssumption DEF LogInv, StreamInv, ShownInv
<1>4. HasLine(v, e) <=> lastId[v] + 1 <= Len(shown[v])
  BY <1>2, HasLineMeans
<1> HIDE DEF e
<1>5. CASE HasLine(v, e)
  BY <1>1, <1>5
<1>6. CASE ~HasLine(v, e)
  <2>1. Len(shown[v]) + 1 = lastId[v] + 1
    BY <1>3, <1>4, <1>6
  <2>2. page[v] # NoPage /\ Len(shown[v]) + 1 <= Len(file[page[v]])
    BY <1>2, <2>1, PageTyped, LogAssumption
  <2>3. e = file[page[v]][Len(shown[v]) + 1]
    BY <1>2, <2>1
  <2> QED BY <1>1, <1>6, <2>2, <2>3 DEF Feed!Show
<1> QED BY <1>5, <1>6

LEMMA FeedStep == LogInv /\ [Next]_vars => [Feed!Next]_(Feed!vars)
<1> SUFFICES ASSUME LogInv, [Next]_vars
             PROVE  Feed!Next \/ UNCHANGED <<file, page, shown>>
  BY DEF Feed!vars
<1>1. ASSUME NEW d \in Deployment, Run(d)
      PROVE  Feed!Next \/ UNCHANGED <<file, page, shown>>
  <2>1. ASSUME NEW n \in Sizes, WriteEntry(d, n) PROVE Feed!Next
    BY <2>1, WriteFeeds DEF Feed!Next
  <2>2. CASE OpenWriter(d) \/ Publish(d) \/ CloseWriter(d) \/ Settle(d)
    BY <2>2 DEF OpenWriter, Publish, CloseWriter, Settle, client
  <2> QED BY <1>1, <2>1, <2>2 DEF Run
<1>2. ASSUME NEW c \in Conn, Serve(c) \/ ReadFails(c)
      PROVE  UNCHANGED <<file, page, shown>>
  BY <1>2 DEF Serve, FindDeployment, Abandon, Subscribe, ReadHistory, Forward, LeaveLoop,
              Unsubscribe, ReadFails, FindFails, LoopFails, client
<1>3. ASSUME NEW v \in Viewer, Browse(v)
      PROVE  Feed!Next \/ UNCHANGED <<file, page, shown>>
  <2>1. ASSUME NEW d \in Deployment \cup {NoPage}, OpenPage(v, d) PROVE Feed!Next
    <3>1. Feed!Open(v, d)
      BY <2>1 DEF OpenPage, Feed!Open
    <3> QED BY <3>1 DEF Feed!Next
  <2>2. CASE FollowLink(v)
    <3>1. PICK d \in Deployment : <<page[v], d>> \in Link /\ page' = [page EXCEPT ![v] = d]
      BY <2>2 DEF FollowLink
    <3>2. page[v] # NoPage
      BY <3>1, LogAssumption
    <3>3. Feed!Turn(v, d)
      BY <2>2, <3>1, <3>2 DEF FollowLink, Feed!Turn
    <3> QED BY <3>3 DEF Feed!Next
  <2>3. CASE Break(v)
    BY <2>3 DEF Break
  <2> QED BY <1>3, <2>1, <2>2, <2>3 DEF Browse
<1>4. ASSUME NEW v \in Viewer, Listen(v)
      PROVE  Feed!Next \/ UNCHANGED <<file, page, shown>>
  <2>1. CASE Receive(v)
    BY <2>1, ReceiveShows DEF Feed!Next
  <2>2. CASE Connect(v) \/ SeeEnd(v)
    BY <2>2 DEF Connect, SeeEnd
  <2> QED BY <1>4, <2>1, <2>2 DEF Listen
<1>5. CASE Restart
  BY <1>5 DEF Restart
<1>6. CASE UNCHANGED vars
  BY <1>6 DEF vars, server, client
<1> QED BY <1>1, <1>2, <1>3, <1>4, <1>5, <1>6 DEF Next

\* Writers, subscriptions, replays, reconnections and restarts together implement the
\* abstract feed, for any deployments, viewers, connections and capacities: the line at
\* place n of a page is entry n of the log it looked at, and a page never takes a line
\* back or shows one twice.  This holds also of a page that keeps another deployment's
\* lines, of which ShownWithoutGap says nothing.
THEOREM FeedRefinement == Spec => ImplementsFeed
<1>1. Init => Feed!Init
  BY DEF Init, Feed!Init
<1> QED BY <1>1, FeedStep, LogAlways, PTL DEF Spec, ImplementsFeed, Feed!Spec
=============================================================================
