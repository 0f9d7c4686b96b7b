------------------------- MODULE EventStream_proofs -------------------------
(***************************************************************************)
(* What TLAPS checks of the event streams of api.ts, for every set of      *)
(* clients, every number of rows in a poll and of frames that may be       *)
(* buffered, and flushes of any size: streams carry every event once, what *)
(* is buffered is bounded, and no stream outlives the server.              *)
(***************************************************************************)
EXTENDS EventStream, SequenceTheorems, TLAPS

\* Pages and buffers are counted, and a flush does not fail once a stream has
\* read its rows (what EventStream names FailsWhenRead).
Limits == EventLimit \in Nat /\ MaxBuffered \in Nat /\ FailsWhenRead = FALSE

Sockets == {"none", "auth", "seed", "open", "ended", "gone"}
Rows == [seq : Nat, event : Nat]
Streams ==
    [socket : Sockets, after : Nat, lastSeq : Nat, closed : BOOLEAN, polls : Seq(Seq(Rows)),
     sent : Seq(Nat), buffered : Nat, force : BOOLEAN, pings : Nat]

TypeOK ==
    /\ events \in Seq(Nat)
    /\ committed \in 0..Len(events)
    /\ flushing \in BOOLEAN
    /\ written \in Nat
    /\ stream \in [Clients -> Streams]
    /\ closing \in BOOLEAN

\* What was sent are the events between the two cursors.
SentFits(s, rows) ==
    /\ s.after <= s.lastSeq
    /\ s.lastSeq <= Len(rows)
    /\ Len(s.sent) = s.lastSeq - s.after
    /\ \A k \in 1..Len(s.sent) : s.sent[k] = rows[s.after + k]

\* At most one poll is under way, and it has read what follows the cursor.
PollFits(s, rows) ==
    /\ Len(s.polls) <= 1
    /\ s.polls # <<>> =>
         /\ s.lastSeq + Len(s.polls[1]) <= Len(rows)
         /\ \A k \in 1..Len(s.polls[1]) :
              s.polls[1][k] = [seq |-> s.lastSeq + k, event |-> rows[s.lastSeq + k]]

\* Nothing is read or sent before the stream is open.
UpgradeFits(s) == s.socket \in {"none", "auth", "seed"} => s.polls = <<>> /\ s.sent = <<>>

\* One frame beyond events and answers is buffered only when our side ends.
BufferFits(s) ==
    s.buffered <= MaxBuffered + s.pings + (IF s.socket \in {"ended", "gone"} THEN 1 ELSE 0)

StreamFits(s, rows) ==
    SentFits(s, rows) /\ PollFits(s, rows) /\ UpgradeFits(s) /\ BufferFits(s)

IInv == TypeOK /\ (\A c \in Clients : StreamFits(S(c), events)) /\ NoStreamOutlivesServer

-----------------------------------------------------------------------------
(* A step of one stream.                                                   *)

\* The fields of a stream.
LEMMA FieldsOf ==
    ASSUME NEW s \in Streams
    PROVE  /\ s.socket \in Sockets /\ s.after \in Nat /\ s.lastSeq \in Nat
           /\ s.closed \in BOOLEAN /\ s.polls \in Seq(Seq(Rows)) /\ s.sent \in Seq(Nat)
           /\ s.buffered \in Nat /\ s.force \in BOOLEAN /\ s.pings \in Nat
BY DEF Streams

\* What a step leaves of a stream whose cursors, polls and frames it leaves alone.
LEMMA AlikeFits ==
    ASSUME NEW rows \in Seq(Nat), NEW s, NEW t, StreamFits(s, rows),
           t.after = s.after, t.lastSeq = s.lastSeq, t.sent = s.sent, t.polls = s.polls,
           t.socket \in {"none", "auth", "seed"} => s.socket \in {"none", "auth", "seed"},
           BufferFits(t)
    PROVE  StreamFits(t, rows)
BY DEF StreamFits, SentFits, PollFits, UpgradeFits

\* A stream that takes a state that fits leaves the others alone.
LEMMA SetKeeps ==
    ASSUME IInv, NEW c \in Clients, NEW s \in Streams, StreamFits(s, events),
           closing => s.socket \notin {"open", "ended"},
           Set(c, s), UNCHANGED <<Table, closing>>
    PROVE  IInv'
<1> USE DEF Table, Set, S, IInv
<1>1. TypeOK'
  BY DEF TypeOK
<1>2. ASSUME NEW d \in Clients
      PROVE  StreamFits(S(d), events)'
  <2>1. stream'[d] = IF d = c THEN s ELSE stream[d]
    BY DEF TypeOK
  <2>2. events' = events
    OBVIOUS
  <2>3. StreamFits(stream'[d], events)
    BY <2>1
  <2> QED
    BY <2>2, <2>3 DEF StreamFits, SentFits, PollFits, UpgradeFits, BufferFits
<1>3. NoStreamOutlivesServer'
  BY DEF NoStreamOutlivesServer, TypeOK
<1> QED
  BY <1>1, <1>2, <1>3

\* What a stream is known to be before a step.
LEMMA StreamOf ==
    ASSUME IInv, NEW c \in Clients
    PROVE  S(c) \in Streams /\ StreamFits(S(c), events)
BY DEF IInv, TypeOK, S

\* The upgrade, and the steps that read and write no event.
LEMMA UpgradeKeeps ==
    ASSUME Limits, IInv, NEW c \in Clients,
           Connect(c) \/ RejectUpgrade(c) \/ SeedCursor(c) \/ AcceptUpgrade(c)
    PROVE  IInv'
<1>0. events \in Seq(Nat)
  BY DEF IInv, TypeOK
<1>1. S(c) \in Streams /\ StreamFits(S(c), events)
  BY StreamOf
<1>2. CASE Connect(c)
  <2> DEFINE s == [S(c) EXCEPT !.socket = "auth"]
  <2>1. s \in Streams /\ s.socket = "auth"
    BY <1>1 DEF Streams, Sockets
  <2>2. StreamFits(s, events)
    <3>1. /\ S(c).socket = "none" /\ s.buffered = S(c).buffered /\ s.pings = S(c).pings
          /\ s.after = S(c).after /\ s.lastSeq = S(c).lastSeq
          /\ s.sent = S(c).sent /\ s.polls = S(c).polls
      BY <1>1, <1>2 DEF Connect, Streams
    <3>2. BufferFits(S(c))
      BY <1>1 DEF StreamFits
    <3> HIDE DEF s
    <3>3. BufferFits(s)
      BY <2>1, <3>1, <3>2 DEF BufferFits
    <3> QED
      BY <1>1, <1>0, <2>1, <3>1, <3>3, AlikeFits
  <2>3. Set(c, s) /\ UNCHANGED <<Table, closing>>
    BY <1>2 DEF Connect
  <2> HIDE DEF s
  <2> QED
    BY <2>1, <2>2, <2>3, SetKeeps
<1>3. CASE RejectUpgrade(c)
  <2> DEFINE s == Dead(S(c))
  <2>1. s \in Streams /\ s.socket = "gone"
    BY <1>1 DEF Streams, Sockets, Dead
  <2>2. StreamFits(s, events)
    <3>1. /\ S(c).socket = "auth" /\ s.buffered = S(c).buffered /\ s.pings = S(c).pings
          /\ s.after = S(c).after /\ s.lastSeq = S(c).lastSeq
          /\ s.sent = S(c).sent /\ s.polls = S(c).polls
      BY <1>1, <1>3 DEF RejectUpgrade, Streams, Dead
    <3>2. BufferFits(S(c)) /\ S(c).buffered \in Nat /\ S(c).pings \in Nat
      BY <1>1, FieldsOf DEF StreamFits
    <3> HIDE DEF s
    <3>3. BufferFits(s)
      BY <2>1, <3>1, <3>2 DEF BufferFits, Limits
    <3> QED
      BY <1>1, <1>0, <2>1, <3>1, <3>3, AlikeFits
  <2>3. Set(c, s) /\ UNCHANGED <<Table, closing>>
    BY <1>3 DEF RejectUpgrade
  <2> HIDE DEF s
  <2> QED
    BY <2>1, <2>2, <2>3, SetKeeps
<1>4. CASE SeedCursor(c)
  <2>1. PICK after \in {0, Len(events)} :
          Set(c, [S(c) EXCEPT !.socket = "seed", !.after = after, !.lastSeq = after])
    BY <1>4 DEF SeedCursor
  <2> DEFINE s == [S(c) EXCEPT !.socket = "seed", !.after = after, !.lastSeq = after]
  <2>2. after \in Nat /\ after <= Len(events)
    BY DEF IInv, TypeOK
  <2>3. s \in Streams /\ s.socket = "seed"
    BY <1>1, <2>2 DEF Streams, Sockets
  <2>4. s.sent = <<>> /\ s.polls = <<>> /\ s.buffered = S(c).buffered /\ s.pings = S(c).pings
        /\ s.after = after /\ s.lastSeq = after /\ S(c).socket = "auth"
    BY <1>1, <1>4 DEF SeedCursor, StreamFits, UpgradeFits, Streams
  <2>5. StreamFits(s, events)
    BY <1>1, <2>2, <2>3, <2>4 DEF StreamFits, SentFits, PollFits, UpgradeFits, BufferFits, Limits
  <2>6. UNCHANGED <<Table, closing>>
    BY <1>4 DEF SeedCursor
  <2>7. Set(c, s)
    BY <2>1
  <2> HIDE DEF s
  <2> QED
    BY <2>3, <2>5, <2>6, <2>7, SetKeeps
<1>5. CASE AcceptUpgrade(c)
  <2> DEFINE s == IF Admits THEN [S(c) EXCEPT !.socket = "open"] ELSE Dead(S(c))
  <2>1. s \in Streams /\ (closing => s.socket = "gone")
    BY <1>1 DEF Streams, Sockets, Dead, Admits
  <2>2. StreamFits(s, events)
    <3>1. /\ S(c).socket = "seed" /\ s.buffered = S(c).buffered /\ s.pings = S(c).pings
          /\ s.after = S(c).after /\ s.lastSeq = S(c).lastSeq
          /\ s.sent = S(c).sent /\ s.polls = S(c).polls /\ s.socket \in {"open", "gone"}
      BY <1>1, <1>5 DEF AcceptUpgrade, Streams, Dead
    <3>2. BufferFits(S(c)) /\ S(c).buffered \in Nat /\ S(c).pings \in Nat
      BY <1>1, FieldsOf DEF StreamFits
    <3> HIDE DEF s
    <3>3. BufferFits(s)
      BY <3>1, <3>2 DEF BufferFits, Limits
    <3> QED
      BY <1>1, <1>0, <3>1, <3>3, AlikeFits
  <2>3. Set(c, s) /\ UNCHANGED <<Table, closing>>
    BY <1>5 DEF AcceptUpgrade
  <2> HIDE DEF s
  <2> QED
    BY <2>1, <2>2, <2>3, SetKeeps
<1> QED
  BY <1>2, <1>3, <1>4, <1>5

\* terminate() makes room for one frame more, and ends our side.
LEMMA TerminateFits ==
    ASSUME Limits, NEW s \in Streams, NEW rows \in Seq(Nat), StreamFits(s, rows),
           s.socket \in {"open", "ended"}
    PROVE  /\ Terminate(s) \in Streams /\ StreamFits(Terminate(s), rows)
           /\ Terminate(s).socket = "ended"
<1> DEFINE b == IF Writable(s) THEN s.buffered + 1 ELSE s.buffered
           t == Terminate(s)
<1>1. b \in Nat /\ b <= s.buffered + 1 /\ (s.socket = "ended" => b = s.buffered)
  BY FieldsOf DEF Writable
<1>2. t = [s EXCEPT !.closed = TRUE, !.socket = "ended", !.force = TRUE, !.buffered = b]
  BY DEF Terminate, Writable, Streams
<1> HIDE DEF b, t
<1>3. t \in Streams
  BY <1>1, <1>2 DEF Streams, Sockets
<1>4. /\ t.socket = "ended" /\ t.buffered = b /\ t.pings = s.pings
      /\ t.after = s.after /\ t.lastSeq = s.lastSeq /\ t.sent = s.sent /\ t.polls = s.polls
  BY <1>2 DEF Streams
<1>5. BufferFits(t)
  <2>1. s.buffered <= MaxBuffered + s.pings + (IF s.socket = "ended" THEN 1 ELSE 0)
    BY DEF StreamFits, BufferFits
  <2> QED
    BY <1>1, <1>4, <2>1, FieldsOf DEF BufferFits, Limits
<1>6. StreamFits(t, rows)
  BY <1>4, <1>5, AlikeFits
<1> QED
  BY <1>3, <1>4, <1>6 DEF t

LEMMA OneTaken ==
    ASSUME NEW T, NEW q \in Seq(T), q # <<>>, Len(q) <= 1
    PROVE  Len(q) = 1 /\ Tail(q) = <<>>
<1> DEFINE n == Len(q)
<1>1. n \in Nat /\ n # 0 /\ n <= 1
  BY EmptySeq
<1> HIDE DEF n
<1>2. n = 1
  BY <1>1
<1> USE DEF n
<1>3. Tail(q) \in Seq(T) /\ Len(Tail(q)) = 0
  BY <1>2, HeadTailProperties
<1> QED
  BY <1>2, <1>3, EmptySeq

\* The one poll of a stream leaves none behind.
LEMMA PollTaken ==
    ASSUME NEW s \in Streams, NEW rows, StreamFits(s, rows), s.polls # <<>>
    PROVE  LET t == [s EXCEPT !.polls = Tail(@)]
           IN  /\ t \in Streams /\ t.polls = <<>> /\ t.socket = s.socket
               /\ t = [s EXCEPT !.polls = <<>>]
<1>1. s.polls \in Seq(Seq(Rows)) /\ Len(s.polls) <= 1
  BY FieldsOf DEF StreamFits, PollFits
<1> DEFINE rest == Tail(s.polls)
<1>2. rest = <<>>
  BY <1>1, OneTaken
<1>3. [s EXCEPT !.polls = Tail(@)] = [s EXCEPT !.polls = rest]
  OBVIOUS
<1> HIDE DEF rest
<1>4. <<>> \in Seq(Seq(Rows))
  OBVIOUS
<1> QED
  BY <1>2, <1>3, <1>4 DEF Streams

\* The poll that ended is gone, the rest of the stream stays.
LEMMA PollTakenFits ==
    ASSUME NEW s \in Streams, NEW rows, StreamFits(s, rows), s.polls # <<>>
    PROVE  StreamFits([s EXCEPT !.polls = Tail(@)], rows)
<1> DEFINE t == [s EXCEPT !.polls = Tail(@)]
<1>1. t.polls = <<>> /\ t = [s EXCEPT !.polls = <<>>]
  BY PollTaken
<1> HIDE DEF t
<1>2. /\ t.after = s.after /\ t.lastSeq = s.lastSeq /\ t.sent = s.sent
      /\ t.socket = s.socket /\ t.buffered = s.buffered /\ t.pings = s.pings
  BY <1>1 DEF Streams
<1>3. SentFits(t, rows)
  BY <1>2 DEF StreamFits, SentFits
<1>4. PollFits(t, rows)
  BY <1>1 DEF PollFits
<1>5. UpgradeFits(t) /\ BufferFits(t)
  BY <1>1, <1>2 DEF StreamFits, UpgradeFits, BufferFits
<1> QED
  BY <1>3, <1>4, <1>5 DEF StreamFits, t

LEMMA EndKeeps ==
    ASSUME Limits, IInv, NEW c \in Clients,
           PollFails(c) \/ Drain(c) \/ OnData(c) \/ IdleTimeout(c) \/ SocketCloses(c)
             \/ ForceDestroy(c)
    PROVE  IInv'
<1>1. S(c) \in Streams /\ StreamFits(S(c), events)
  BY StreamOf
<1>2. events \in Seq(Nat)
  BY DEF IInv, TypeOK
<1>3. closing => S(c).socket \notin {"open", "ended"}
  BY DEF IInv, NoStreamOutlivesServer
<1>4. CASE PollFails(c)
  <2> DEFINE s == [S(c) EXCEPT !.polls = Tail(@)]
  <2>1. s \in Streams /\ s.socket = S(c).socket /\ s.polls = <<>>
    BY <1>1, <1>4, PollTaken DEF PollFails
  <2>2. StreamFits(s, events)
    BY <1>1, <1>4, PollTakenFits DEF PollFails
  <2>3. Set(c, s) /\ UNCHANGED <<Table, closing>>
    BY <1>4 DEF PollFails
  <2> HIDE DEF s
  <2> QED
    BY <1>3, <2>1, <2>2, <2>3, SetKeeps
<1>5. CASE Drain(c)
  <2> DEFINE s == [S(c) EXCEPT !.buffered = @ - 1]
  <2>1. S(c).buffered - 1 \in Nat
    BY <1>1, <1>5, FieldsOf DEF Drain
  <2>2. s \in Streams /\ s.socket = S(c).socket
    BY <1>1, <2>1 DEF Streams
  <2>3. BufferFits(s)
    BY <1>1, FieldsOf DEF StreamFits, BufferFits, Streams, Limits
  <2>4. StreamFits(s, events)
    <3>1. s.after = S(c).after /\ s.lastSeq = S(c).lastSeq /\ s.sent = S(c).sent
          /\ s.polls = S(c).polls
      BY <1>1 DEF Streams
    <3> HIDE DEF s
    <3> QED
      BY <1>1, <1>2, <2>2, <2>3, <3>1, AlikeFits
  <2>5. Set(c, s) /\ UNCHANGED <<Table, closing>>
    BY <1>5 DEF Drain
  <2> HIDE DEF s
  <2> QED
    BY <1>3, <2>2, <2>4, <2>5, SetKeeps
<1>6. CASE OnData(c)
  <2> DEFINE s == [S(c) EXCEPT !.pings = @ + 1]
             answered == [s EXCEPT !.buffered = IF Writable(s) THEN @ + 1 ELSE @]
             ended == [s EXCEPT !.socket = "ended",
                                !.buffered = IF Writable(s) THEN @ + 1 ELSE @]
  <2>1. /\ s \in Streams /\ s.socket = S(c).socket /\ s.socket \in {"open", "ended"}
        /\ s.pings = S(c).pings + 1 /\ s.buffered = S(c).buffered
        /\ s.after = S(c).after /\ s.lastSeq = S(c).lastSeq /\ s.sent = S(c).sent
        /\ s.polls = S(c).polls
    <3>1. S(c).pings + 1 \in Nat
      BY <1>1, FieldsOf
    <3> QED
      BY <1>1, <1>6, <3>1 DEF OnData, Live, Streams
  <2> DEFINE b == IF Writable(s) THEN s.buffered + 1 ELSE s.buffered
  <2> HIDE DEF s
  <2>2. StreamFits(s, events)
    <3>1. BufferFits(s)
      BY <1>1, <2>1, FieldsOf DEF StreamFits, BufferFits, Limits
    <3> QED
      BY <1>1, <1>2, <2>1, <3>1, AlikeFits
  <2>3. b \in Nat /\ b <= MaxBuffered + s.pings + (IF s.socket = "ended" THEN 1 ELSE 0)
    <3>1. S(c).buffered <= MaxBuffered + S(c).pings + (IF S(c).socket = "ended" THEN 1 ELSE 0)
      BY <1>1, <2>1 DEF StreamFits, BufferFits
    <3> QED
      BY <1>1, <2>1, <3>1, FieldsOf, SMTT(40) DEF Limits, Writable
  <2>4. answered = [s EXCEPT !.buffered = b] /\ ended = [s EXCEPT !.socket = "ended", !.buffered = b]
    BY <2>1 DEF Streams, Writable
  <2> HIDE DEF b, answered, ended
  <2>5. /\ answered \in Streams /\ answered.socket = s.socket /\ answered.buffered = b
        /\ answered.pings = s.pings /\ answered.after = s.after /\ answered.lastSeq = s.lastSeq
        /\ answered.sent = s.sent /\ answered.polls = s.polls
    BY <2>1, <2>3, <2>4 DEF Streams
  <2>6. /\ ended \in Streams /\ ended.socket = "ended" /\ ended.buffered = b
        /\ ended.pings = s.pings /\ ended.after = s.after /\ ended.lastSeq = s.lastSeq
        /\ ended.sent = s.sent /\ ended.polls = s.polls
    BY <2>1, <2>3, <2>4 DEF Streams, Sockets
  <2>7. BufferFits(answered) /\ BufferFits(ended)
    BY <2>1, <2>3, <2>5, <2>6, FieldsOf DEF BufferFits, Limits
  <2>8. StreamFits(answered, events) /\ StreamFits(ended, events)
    BY <1>2, <2>1, <2>2, <2>5, <2>6, <2>7, AlikeFits
  <2>9. PICK reply \in {answered, ended, Terminate(s)} : Set(c, reply)
    BY <1>6 DEF OnData, s, answered, ended
  <2>10. UNCHANGED <<Table, closing>>
    BY <1>6 DEF OnData
  <2>11. reply \in Streams /\ StreamFits(reply, events) /\ ~closing
    BY <1>2, <1>3, <2>1, <2>2, <2>5, <2>6, <2>8, <2>9, TerminateFits
  <2> QED
    BY <2>9, <2>10, <2>11, SetKeeps
<1>7. CASE IdleTimeout(c)
  <2>1. S(c).socket \in {"open", "ended"} /\ Set(c, Terminate(S(c))) /\ UNCHANGED <<Table, closing>>
    BY <1>7 DEF IdleTimeout, IdleExpires, Live
  <2> QED
    BY <1>1, <1>2, <1>3, <2>1, TerminateFits, SetKeeps
<1>8. CASE SocketCloses(c)
  <2> DEFINE s == [S(c) EXCEPT !.socket = "gone", !.closed = TRUE]
  <2>1. s \in Streams /\ s.socket = "gone"
    BY <1>1 DEF Streams, Sockets
  <2>2. StreamFits(s, events)
    BY <1>1 DEF StreamFits, SentFits, PollFits, UpgradeFits, BufferFits, Streams, Limits
  <2>3. Set(c, s) /\ UNCHANGED <<Table, closing>>
    BY <1>8 DEF SocketCloses
  <2> HIDE DEF s
  <2> QED
    BY <2>1, <2>2, <2>3, SetKeeps
<1>9. CASE ForceDestroy(c)
  <2> DEFINE s == Dead(S(c))
  <2>1. s \in Streams /\ s.socket = "gone"
    BY <1>1 DEF Streams, Sockets, Dead
  <2>2. StreamFits(s, events)
    BY <1>1 DEF StreamFits, SentFits, PollFits, UpgradeFits, BufferFits, Streams, Limits, Dead
  <2>3. Set(c, s) /\ UNCHANGED <<Table, closing>>
    BY <1>9 DEF ForceDestroy
  <2> HIDE DEF s
  <2> QED
    BY <2>1, <2>2, <2>3, SetKeeps
<1> QED
  BY <1>4, <1>5, <1>6, <1>7, <1>8, <1>9

-----------------------------------------------------------------------------
(* Polls.                                                                  *)

\* A poll reads what follows the cursor, a page at most.
LEMMA PollReadsKeeps ==
    ASSUME Limits, IInv, NEW c \in Clients, PollReads(c)
    PROVE  IInv'
<1>1. S(c) \in Streams /\ StreamFits(S(c), events)
  BY StreamOf
<1>2. events \in Seq(Nat) /\ S(c).lastSeq \in Nat /\ S(c).lastSeq <= Len(events)
  BY <1>1 DEF IInv, TypeOK, StreamFits, SentFits, Streams
<1> DEFINE last == IF S(c).lastSeq + EventLimit < Len(events)
                   THEN S(c).lastSeq + EventLimit ELSE Len(events)
           n == last - S(c).lastSeq
           rows == [k \in 1..n |-> [seq |-> S(c).lastSeq + k, event |-> events[S(c).lastSeq + k]]]
           s == [S(c) EXCEPT !.polls = Append(@, rows)]
<1>3. n \in Nat /\ S(c).lastSeq + n <= Len(events)
  BY <1>2 DEF Limits
<1>4. Set(c, s) /\ UNCHANGED <<Table, closing>> /\ S(c).polls = <<>>
      /\ S(c).socket \in {"open", "ended"}
  BY DEF PollReads, MayPoll, Live
<1> HIDE DEF n
<1>5. rows \in Seq(Rows) /\ Len(rows) = n
  <2>1. ASSUME NEW k \in 1..n
        PROVE  [seq |-> S(c).lastSeq + k, event |-> events[S(c).lastSeq + k]] \in Rows
    <3>1. S(c).lastSeq + k \in 1..Len(events)
      BY <1>2, <1>3
    <3> QED
      BY <1>2, <3>1 DEF Rows
  <2>2. rows \in [1..n -> Rows]
    BY <2>1
  <2> QED
    BY <1>3, <2>2
<1>6. \A k \in 1..n :
        rows[k] = [seq |-> S(c).lastSeq + k, event |-> events[S(c).lastSeq + k]]
  OBVIOUS
<1> HIDE DEF rows
<1>7. /\ s \in Streams /\ s.polls = <<rows>> /\ s.socket = S(c).socket
      /\ s = [S(c) EXCEPT !.polls = <<rows>>]
  <2>1. <<rows>> \in Seq(Seq(Rows))
    BY <1>5
  <2>2. Append(S(c).polls, rows) = <<rows>>
    BY <1>4
  <2>3. s = [S(c) EXCEPT !.polls = <<rows>>]
    BY <2>2
  <2> HIDE DEF s
  <2> QED
    BY <1>1, <2>1, <2>3 DEF Streams
<1>8. StreamFits(s, events)
  <2>1. SentFits(s, events) /\ UpgradeFits(s) /\ BufferFits(s)
    BY <1>1, <1>4, <1>7 DEF StreamFits, SentFits, UpgradeFits, BufferFits, Streams
  <2>2. s.lastSeq = S(c).lastSeq /\ Len(s.polls) = 1 /\ s.polls[1] = rows
    BY <1>1, <1>7, SMTT(40) DEF Streams
  <2>3. PollFits(s, events)
    BY <1>3, <1>5, <1>6, <2>2 DEF PollFits
  <2> QED
    BY <2>1, <2>3 DEF StreamFits
<1>9. closing => s.socket \notin {"open", "ended"}
  BY <1>7 DEF IInv, NoStreamOutlivesServer
<1> HIDE DEF s
<1> QED
  BY <1>4, <1>7, <1>8, <1>9, SetKeeps

\* A stream that writes the first n rows of its poll has sent what it read.
LEMMA WriteFits ==
    ASSUME Limits, NEW s \in Streams, NEW rows \in Seq(Nat), StreamFits(s, rows),
           s.socket = "open", s.polls = <<>>,
           NEW page \in Seq(Rows), s.lastSeq + Len(page) <= Len(rows),
           \A k \in 1..Len(page) :
             page[k] = [seq |-> s.lastSeq + k, event |-> rows[s.lastSeq + k]],
           Len(page) <= Room(s)
    PROVE  /\ Write(s, page) \in Streams /\ StreamFits(Write(s, page), rows)
           /\ Write(s, page).socket = "open"
<1>1. CASE page = <<>>
  BY <1>1 DEF Write
<1>2. CASE page # <<>>
  <2> DEFINE n == Len(page)
             new == [k \in DOMAIN page |-> page[k].event]
  <2>1. n \in Nat /\ n > 0 /\ DOMAIN page = 1..n
    BY <1>2
  <2>2. new \in Seq(Nat) /\ Len(new) = n /\ \A k \in 1..n : new[k] = rows[s.lastSeq + k]
    <3>1. \A k \in 1..n : page[k] \in Rows
      BY <2>1
    <3>2. new \in [1..n -> Nat]
      BY <2>1, <3>1 DEF Rows
    <3>3. \A k \in 1..n : new[k] = rows[s.lastSeq + k]
      BY <2>1
    <3> QED
      BY <2>1, <3>2, <3>3
  <2>3. Last(page).seq = s.lastSeq + n
    BY <2>1 DEF Last
  <2> HIDE DEF new
  <2>4. Write(s, page) = [s EXCEPT !.sent = s.sent \o new, !.lastSeq = s.lastSeq + n,
                                   !.buffered = s.buffered + n]
    BY <1>2, <2>3 DEF Write, Streams, new
  <2> DEFINE t == Write(s, page)
  <2>5. /\ s.sent \in Seq(Nat) /\ s.lastSeq \in Nat /\ s.buffered \in Nat /\ s.after \in Nat
        /\ s.pings \in Nat
    BY DEF Streams
  <2>6. s.sent \o new \in Seq(Nat) /\ Len(s.sent \o new) = Len(s.sent) + n
    <3>1. s.sent \in Seq(Nat) /\ new \in Seq(Nat)
      BY <2>2, <2>5
    <3>2. s.sent \o new \in Seq(Nat) /\ Len(s.sent \o new) = Len(s.sent) + Len(new)
      BY <3>1, ConcatProperties
    <3> QED
      BY <2>2, <3>2
  <2>7. t \in Streams
    <3> DEFINE all == s.sent \o new
    <3>1. all \in Seq(Nat) /\ s.lastSeq + n \in Nat /\ s.buffered + n \in Nat
      <4>1. all \in Seq(Nat)
        BY <2>6
      <4>2. s.lastSeq + n \in Nat /\ s.buffered + n \in Nat
        BY <2>1, <2>5
      <4> QED
        BY <4>1, <4>2
    <3>2. t = [s EXCEPT !.sent = all, !.lastSeq = s.lastSeq + n, !.buffered = s.buffered + n]
      BY <2>4
    <3> HIDE DEF all, t
    <3> QED
      BY <3>1, <3>2 DEF Streams
  <2>8. /\ t.after = s.after /\ t.lastSeq = s.lastSeq + n /\ t.sent = s.sent \o new
        /\ t.polls = <<>> /\ t.socket = "open" /\ t.buffered = s.buffered + n
        /\ t.pings = s.pings
    BY <2>4 DEF Streams
  <2>9. SentFits(t, rows)
    <3>1. s.after <= s.lastSeq /\ Len(s.sent) = s.lastSeq - s.after
          /\ \A k \in 1..Len(s.sent) : s.sent[k] = rows[s.after + k]
      BY DEF StreamFits, SentFits
    <3>2. ASSUME NEW k \in 1..(Len(s.sent) + n)
          PROVE  (s.sent \o new)[k] = rows[s.after + k]
      <4> DEFINE old == s.sent
                 M == Len(old)
      <4> HIDE DEF n, t, old, M
      <4>1. /\ old \in Seq(Nat) /\ new \in Seq(Nat) /\ M \in Nat /\ n \in Nat /\ k \in 1..(M + n)
            /\ s.sent = old /\ Len(s.sent) = M
        BY <2>1, <2>2, <2>5 DEF old, M
      <4>2. (s.sent \o new)[k] = IF k <= M THEN old[k] ELSE new[k - M]
        <5>1. \A j \in 1..(M + n) : (old \o new)[j] = IF j <= M THEN old[j] ELSE new[j - M]
          BY <2>2, <4>1, ConcatProperties
        <5> QED
          BY <4>1, <5>1
      <4>3. CASE k <= Len(s.sent)
        <5>1. k \in 1..M
          BY <4>1, <4>3
        <5> QED
          BY <3>1, <4>1, <4>2, <5>1
      <4>4. CASE k > Len(s.sent)
        <5>1. k - M \in 1..n /\ ~(k <= M)
          BY <4>1, <4>4
        <5>2. (s.sent \o new)[k] = new[k - M]
          BY <4>2, <5>1
        <5>3. s.lastSeq + (k - M) = s.after + k
          <6>1. M = s.lastSeq - s.after
            BY <3>1, <4>1
          <6>2. s.lastSeq \in Nat /\ s.after \in Nat /\ k \in Nat
            BY <2>5, <4>1
          <6> QED
            BY <6>1, <6>2
        <5>4. new[k - M] = rows[s.lastSeq + (k - M)]
          BY <2>2, <5>1
        <5>5. new[k - M] = rows[s.after + k]
          BY <5>3, <5>4
        <5> QED
          BY <5>2, <5>5
      <4>5. k <= Len(s.sent) \/ k > Len(s.sent)
        BY <4>1
      <4> QED
        BY <4>3, <4>4, <4>5
    <3> HIDE DEF t
    <3>3. Len(t.sent) = Len(s.sent) + n /\ t.after <= t.lastSeq
          /\ Len(t.sent) = t.lastSeq - t.after /\ t.lastSeq <= Len(rows)
      <4> DEFINE a == s.after
                 l == s.lastSeq
                 m == Len(s.sent)
                 e == Len(rows)
      <4>1. a \in Nat /\ l \in Nat /\ a <= l /\ m = l - a
        BY <2>5, <3>1
      <4>2. e \in Nat /\ l + n <= e
        OBVIOUS
      <4>3. t.after = a /\ t.lastSeq = l + n /\ Len(t.sent) = m + n
        BY <2>6, <2>8
      <4> HIDE DEF a, l, m, e, n
      <4>4. a <= l + n /\ m + n = (l + n) - a
        BY <2>1, <4>1
      <4> QED
        BY <4>2, <4>3, <4>4 DEF m, e
    <3> QED
      BY <2>8, <3>2, <3>3 DEF SentFits
  <2>10. PollFits(t, rows) /\ UpgradeFits(t)
    BY <2>8 DEF PollFits, UpgradeFits
  <2>11. BufferFits(t)
    <3> DEFINE b == s.buffered
               p == s.pings
    <3>1. b \in Nat /\ p \in Nat /\ n \in Nat /\ MaxBuffered \in Nat
      BY <2>1, <2>5 DEF Limits
    <3>2. n <= (IF b < MaxBuffered THEN MaxBuffered - b ELSE 0) /\ n > 0
      BY <2>1 DEF Room
    <3>3. t.buffered = b + n /\ t.pings = p
      BY <2>8
    <3> HIDE DEF b, p, n, t
    <3>4. b + n <= MaxBuffered + p
      BY <3>1, <3>2
    <3>5. t.buffered <= MaxBuffered + t.pings /\ t.buffered \in Nat /\ t.pings \in Nat
      BY <3>1, <3>3, <3>4
    <3> QED
      BY <3>1, <3>5 DEF BufferFits
  <2> QED
    BY <2>7, <2>8, <2>9, <2>10, <2>11 DEF StreamFits
<1> QED
  BY <1>1, <1>2

LEMMA PollWritesKeeps ==
    ASSUME Limits, IInv, NEW c \in Clients, PollWrites(c)
    PROVE  IInv'
<1>1. S(c) \in Streams /\ StreamFits(S(c), events)
  BY StreamOf
<1>2. events \in Seq(Nat)
  BY DEF IInv, TypeOK
<1>3. S(c).polls # <<>> /\ S(c).polls \in Seq(Seq(Rows)) /\ Len(S(c).polls) = 1
  <2>1. S(c).polls \in Seq(Seq(Rows))
    BY <1>1, FieldsOf
  <2> QED
    BY <1>1, <2>1, OneTaken DEF PollWrites, StreamFits, PollFits
<1> DEFINE s == [S(c) EXCEPT !.polls = Tail(@)]
           page == Head(S(c).polls)
           part == SubSeq(page, 1, Room(s))
           next == IF s.closed \/ ~Writable(s) THEN s
                   ELSE IF Len(page) <= Room(s) THEN Write(s, page)
                   ELSE Terminate(Write(s, part))
<1>4. page = S(c).polls[1] /\ page \in Seq(Rows)
  BY <1>3
<1>5. s \in Streams /\ s.polls = <<>> /\ s.socket = S(c).socket /\ s.lastSeq = S(c).lastSeq
  <2>1. s \in Streams /\ s.polls = <<>> /\ s.socket = S(c).socket
    BY <1>1, <1>3, PollTaken
  <2> QED
    BY <1>1, <2>1 DEF Streams
<1>6. StreamFits(s, events)
  BY <1>1, <1>3, PollTakenFits
<1>7. /\ s.lastSeq + Len(page) <= Len(events)
      /\ \A k \in 1..Len(page) :
           page[k] = [seq |-> s.lastSeq + k, event |-> events[s.lastSeq + k]]
  BY <1>1, <1>3, <1>4, <1>5 DEF StreamFits, PollFits
<1>8. Set(c, next) /\ UNCHANGED <<Table, closing>>
  BY DEF PollWrites
<1> HIDE DEF s, page
<1>9. closing => s.socket \notin {"open", "ended"}
  BY <1>5 DEF IInv, NoStreamOutlivesServer
<1>10. CASE s.closed \/ ~Writable(s)
  BY <1>5, <1>6, <1>8, <1>9, <1>10, SetKeeps
<1>11. CASE ~(s.closed \/ ~Writable(s)) /\ Len(page) <= Room(s)
  <2>1. s.socket = "open" /\ ~closing
    BY <1>9, <1>11 DEF Writable
  <2>2. Write(s, page) \in Streams /\ StreamFits(Write(s, page), events)
    BY <1>2, <1>4, <1>5, <1>6, <1>7, <1>11, <2>1, WriteFits
  <2>3. next = Write(s, page)
    BY <1>11
  <2> HIDE DEF next
  <2> QED
    BY <1>8, <2>1, <2>2, <2>3, SetKeeps
<1>12. CASE ~(s.closed \/ ~Writable(s)) /\ ~(Len(page) <= Room(s))
  <2>1. s.socket = "open" /\ ~closing
    BY <1>9, <1>12 DEF Writable
  <2>2. Room(s) \in Nat /\ Room(s) < Len(page) /\ s.lastSeq \in Nat
    BY <1>4, <1>5, <1>12 DEF Room, Limits, Streams
  <2>3. /\ part \in Seq(Rows) /\ Len(part) = Room(s)
        /\ \A k \in 1..Room(s) : part[k] = page[k]
    BY <1>4, <2>2
  <2> HIDE DEF part
  <2>4. /\ s.lastSeq + Len(part) <= Len(events)
        /\ \A k \in 1..Len(part) :
             part[k] = [seq |-> s.lastSeq + k, event |-> events[s.lastSeq + k]]
    <3>1. Len(page) \in Nat /\ Len(events) \in Nat /\ \A k \in 1..Room(s) : k \in 1..Len(page)
      BY <1>2, <1>4, <2>2
    <3>2. \A k \in 1..Room(s) :
            part[k] = [seq |-> s.lastSeq + k, event |-> events[s.lastSeq + k]]
      BY <1>7, <2>3, <3>1
    <3>3. s.lastSeq + Room(s) <= Len(events)
      BY <1>7, <2>2, <3>1
    <3> QED
      BY <2>3, <3>2, <3>3
  <2> DEFINE t == Write(s, part)
  <2>5. t \in Streams /\ StreamFits(t, events) /\ t.socket = "open"
    <3>1. Len(part) <= Room(s)
      BY <2>2, <2>3
    <3> QED
      BY <1>2, <1>5, <1>6, <2>1, <2>3, <2>4, <3>1, WriteFits
  <2> HIDE DEF t
  <2>6. Terminate(t) \in Streams /\ StreamFits(Terminate(t), events)
    BY <1>2, <2>5, TerminateFits
  <2>7. next = Terminate(t)
    BY <1>12 DEF t
  <2> HIDE DEF next
  <2> QED
    BY <1>8, <2>1, <2>6, <2>7, SetKeeps
<1> QED
  BY <1>10, <1>11, <1>12

-----------------------------------------------------------------------------
(* Flushes, and the server's close.                                        *)

\* A stream fits any table that has the rows it knows of.
LEMMA AgreesFits ==
    ASSUME NEW s \in Streams, NEW old \in Seq(Nat), NEW new \in Seq(Nat), StreamFits(s, old),
           NEW n \in Nat, n <= Len(new), \A k \in 1..n : new[k] = old[k],
           s.lastSeq <= n, s.polls # <<>> => s.lastSeq + Len(s.polls[1]) <= n
    PROVE  StreamFits(s, new)
<1>1. s.lastSeq \in Nat /\ s.after \in Nat /\ Len(s.sent) \in Nat /\ Len(new) \in Nat
  BY FieldsOf
<1>2. SentFits(s, new)
  <2>1. s.after <= s.lastSeq /\ Len(s.sent) = s.lastSeq - s.after
        /\ \A k \in 1..Len(s.sent) : s.sent[k] = old[s.after + k]
    BY DEF StreamFits, SentFits
  <2>2. \A k \in 1..Len(s.sent) : s.after + k \in 1..n
    BY <1>1, <2>1, SMTT(40)
  <2>3. s.lastSeq <= Len(new)
    BY <1>1
  <2> QED
    BY <2>1, <2>2, <2>3 DEF SentFits
<1>3. PollFits(s, new)
  <2>1. Len(s.polls) <= 1
    BY DEF StreamFits, PollFits
  <2>2. ASSUME s.polls # <<>>
        PROVE  /\ s.lastSeq + Len(s.polls[1]) <= Len(new)
               /\ \A k \in 1..Len(s.polls[1]) :
                    s.polls[1][k] = [seq |-> s.lastSeq + k, event |-> new[s.lastSeq + k]]
    <3>1. s.polls \in Seq(Seq(Rows)) /\ Len(s.polls) = 1
      BY <2>1, <2>2, FieldsOf, OneTaken
    <3>2. s.polls[1] \in Seq(Rows)
      BY <3>1
    <3>3. Len(s.polls[1]) \in Nat
      BY <3>2
    <3>4. \A k \in 1..Len(s.polls[1]) : s.lastSeq + k \in 1..n
      <4> DEFINE m == Len(s.polls[1])
                 l == s.lastSeq
      <4>1. l \in Nat /\ m \in Nat /\ n \in Nat /\ l + m <= n
        BY <1>1, <2>2, <3>3 DEF StreamFits, PollFits
      <4> HIDE DEF m, l
      <4>2. \A k \in 1..m : l + k \in 1..n
        BY <4>1
      <4> QED
        BY <4>2 DEF m, l
    <3>5. \A k \in 1..Len(s.polls[1]) :
            s.polls[1][k] = [seq |-> s.lastSeq + k, event |-> old[s.lastSeq + k]]
      BY <2>2 DEF StreamFits, PollFits
    <3>6. s.lastSeq + Len(s.polls[1]) <= Len(new)
      BY <1>1, <2>2, <3>3
    <3> QED
      BY <3>4, <3>5, <3>6
  <2> QED
    BY <2>1, <2>2 DEF PollFits
<1> QED
  BY <1>2, <1>3 DEF StreamFits

\* What a stream knows of is in the table.
LEMMA KnownRows ==
    ASSUME IInv, NEW c \in Clients
    PROVE  /\ S(c).lastSeq \in Nat /\ S(c).lastSeq <= Len(events)
           /\ S(c).polls # <<>> => /\ S(c).lastSeq + Len(S(c).polls[1]) <= Len(events)
                                   /\ S(c).polls[1] \in Seq(Rows)
<1>1. S(c) \in Streams /\ StreamFits(S(c), events)
  BY StreamOf
<1>2. S(c).polls # <<>> => S(c).polls[1] \in Seq(Rows)
  <2>1. ASSUME S(c).polls # <<>>
        PROVE  S(c).polls[1] \in Seq(Rows)
    <3>1. S(c).polls \in Seq(Seq(Rows)) /\ Len(S(c).polls) = 1
      BY <1>1, <2>1, FieldsOf, OneTaken DEF StreamFits, PollFits
    <3> QED
      BY <3>1
  <2> QED
    BY <2>1
<1> QED
  BY <1>1, <1>2, FieldsOf DEF StreamFits, SentFits, PollFits

LEMMA FlushKeeps ==
    ASSUME Limits, IInv, BeginFlush \/ InsertEvent \/ CommitFlush \/ RollbackFlush
    PROVE  IInv'
<1>1. stream' = stream /\ closing' = closing
  BY DEF BeginFlush, InsertEvent, CommitFlush, RollbackFlush
<1>2. NoStreamOutlivesServer'
  BY <1>1 DEF IInv, NoStreamOutlivesServer, S
<1>3. TypeOK
  BY DEF IInv
<1>4. ASSUME TypeOK', \A c \in Clients : StreamFits(S(c), events')
      PROVE  IInv'
  BY <1>1, <1>2, <1>4 DEF IInv, S
<1>5. CASE UNCHANGED events
  <2>1. events' = events /\ Len(events) \in Nat
    BY <1>3, <1>5 DEF TypeOK
  <2>2. committed' \in 0..Len(events') /\ flushing' \in BOOLEAN /\ written' \in Nat
    <3>1. committed \in 0..Len(events) /\ flushing \in BOOLEAN /\ written \in Nat
      BY <1>3 DEF TypeOK
    <3>2. committed' \in {committed, Len(events)}
      BY DEF BeginFlush, InsertEvent, CommitFlush, RollbackFlush
    <3>3. flushing' \in {flushing, TRUE, FALSE} /\ written' \in {written, written + 1}
      BY DEF BeginFlush, InsertEvent, CommitFlush, RollbackFlush
    <3> QED
      <4> DEFINE n == Len(events)
      <4>1. n \in Nat /\ committed \in 0..n /\ committed' \in {committed, n}
        BY <2>1, <3>1, <3>2
      <4>2. Len(events') = n
        BY <2>1
      <4> HIDE DEF n
      <4>3. committed' \in 0..Len(events')
        BY <4>1, <4>2
      <4>4. flushing' \in BOOLEAN
        BY <3>1, <3>3
      <4>5. written' \in Nat
        BY <3>1, <3>3
      <4> QED
        BY <4>3, <4>4, <4>5
  <2>3. TypeOK'
    BY <1>1, <1>3, <2>1, <2>2 DEF TypeOK
  <2> QED
    BY <1>4, <2>1, <2>3, StreamOf
<1>6. CASE InsertEvent
  <2>1. events' = Append(events, written') /\ written' \in Nat /\ events \in Seq(Nat)
    BY <1>3, <1>6 DEF InsertEvent, TypeOK
  <2>2. /\ events' \in Seq(Nat) /\ Len(events') = Len(events) + 1
        /\ \A k \in 1..Len(events) : events'[k] = events[k]
    BY <2>1, AppendProperties
  <2>3. Len(events) \in Nat /\ Len(events) <= Len(events')
    BY <2>1, <2>2
  <2>4. TypeOK'
    BY <1>1, <1>3, <1>6, <2>1, <2>2, <2>3 DEF InsertEvent, TypeOK
  <2>5. ASSUME NEW c \in Clients
        PROVE  StreamFits(S(c), events')
    BY <2>1, <2>2, <2>3, StreamOf, KnownRows, AgreesFits
  <2> QED
    BY <1>4, <2>4, <2>5
<1>7. CASE RollbackFlush
  <2>1. /\ events \in Seq(Nat) /\ committed \in Nat /\ committed <= Len(events)
        /\ events' = SubSeq(events, 1, committed)
    BY <1>3, <1>7 DEF RollbackFlush, TypeOK
  <2>2. /\ events' \in Seq(Nat) /\ Len(events') = committed
        /\ \A k \in 1..committed : events'[k] = events[k]
    BY <2>1
  <2>3. TypeOK'
    <3>1. /\ committed' = committed /\ flushing' \in BOOLEAN /\ written' = written
      BY <1>7 DEF RollbackFlush
    <3>2. committed' \in 0..Len(events') /\ written' \in Nat
      BY <1>3, <2>1, <2>2, <3>1 DEF TypeOK
    <3> QED
      BY <1>1, <1>3, <2>2, <3>1, <3>2 DEF TypeOK
  <2>4. ASSUME NEW c \in Clients
        PROVE  StreamFits(S(c), events')
    <3>1. S(c).lastSeq <= committed
      BY <1>7, <2>1, KnownRows DEF RollbackFlush, ReadByStreams, Limits, S
    <3>2. ASSUME S(c).polls # <<>>
          PROVE  S(c).lastSeq + Len(S(c).polls[1]) <= committed
      <4> DEFINE page == S(c).polls[1]
                 n == Len(page)
      <4>1. page \in Seq(Rows) /\ S(c).lastSeq \in Nat /\ n \in Nat
        BY <3>2, KnownRows
      <4>2. CASE n = 0
        BY <3>1, <4>1, <4>2
      <4>3. CASE n # 0
        <5>1. n \in 1..n /\ DOMAIN page = 1..n
          BY <4>1, <4>3
        <5>2. page[n].seq = S(c).lastSeq + n
          <6>1. page[n] = [seq |-> S(c).lastSeq + n, event |-> events[S(c).lastSeq + n]]
            BY <3>2, <5>1, StreamOf DEF StreamFits, PollFits
          <6> QED
            BY <6>1
        <5>3. page[n] \in Range(page)
          BY <5>1 DEF Range
        <5>4. 1 \in DOMAIN stream[c].polls
          <6>1. S(c).polls \in Seq(Seq(Rows)) /\ Len(S(c).polls) = 1
            BY <3>2, StreamOf, FieldsOf, OneTaken DEF StreamFits, PollFits
          <6> QED
            BY <6>1 DEF S
        <5>5. ~(page[n].seq > committed)
          BY <1>7, <5>3, <5>4 DEF RollbackFlush, ReadByStreams, Limits, S
        <5> QED
          BY <2>1, <4>1, <5>2, <5>5
      <4> QED
        BY <4>2, <4>3
    <3>3. committed <= Len(events')
      BY <2>1, <2>2
    <3> QED
      BY <2>1, <2>2, <3>1, <3>2, <3>3, StreamOf, AgreesFits
  <2> QED
    BY <1>4, <2>3, <2>4
<1>8. UNCHANGED events \/ InsertEvent \/ RollbackFlush
  BY DEF BeginFlush, InsertEvent, CommitFlush, RollbackFlush
<1> QED
  BY <1>5, <1>6, <1>7, <1>8

LEMMA CloseServerKeeps ==
    ASSUME Limits, IInv, CloseServer
    PROVE  IInv'
<1> DEFINE After(c) == IF S(c).socket \in {"open", "ended"}
                       THEN [S(c) EXCEPT !.socket = "gone", !.closed = TRUE] ELSE S(c)
<1>1. UNCHANGED Table /\ closing' = TRUE /\ stream' = [c \in Clients |-> After(c)]
  BY DEF CloseServer
<1>2. events' = events /\ events \in Seq(Nat)
  BY <1>1 DEF Table, IInv, TypeOK
<1>3. ASSUME NEW c \in Clients
      PROVE  /\ After(c) \in Streams /\ StreamFits(After(c), events)
             /\ After(c).socket \notin {"open", "ended"}
  <2>1. S(c) \in Streams /\ StreamFits(S(c), events)
    BY StreamOf
  <2>2. CASE S(c).socket \in {"open", "ended"}
    <3> DEFINE s == [S(c) EXCEPT !.socket = "gone", !.closed = TRUE]
    <3>1. s \in Streams /\ s.socket = "gone"
      BY <2>1 DEF Streams, Sockets
    <3>2. StreamFits(s, events)
      BY <2>1 DEF StreamFits, SentFits, PollFits, UpgradeFits, BufferFits, Streams, Limits
    <3>3. After(c) = s
      BY <2>2
    <3> HIDE DEF s, After
    <3> QED
      BY <3>1, <3>2, <3>3
  <2>3. CASE S(c).socket \notin {"open", "ended"}
    BY <2>1, <2>3
  <2> QED
    BY <2>2, <2>3
<1> HIDE DEF After
<1>4. TypeOK'
  BY <1>1, <1>3 DEF IInv, TypeOK, Table
<1>5. \A c \in Clients : StreamFits(S(c), events)'
  <2>1. \A c \in Clients : stream'[c] = After(c)
    BY <1>1
  <2>2. \A c \in Clients : StreamFits(stream'[c], events')
    BY <1>2, <1>3, <2>1
  <2> QED
    BY <2>2 DEF S, StreamFits, SentFits, PollFits, UpgradeFits, BufferFits
<1>6. NoStreamOutlivesServer'
  BY <1>1, <1>3 DEF NoStreamOutlivesServer, S
<1> QED
  BY <1>4, <1>5, <1>6 DEF IInv

-----------------------------------------------------------------------------
(* The theorems.                                                           *)

LEMMA InitFits == Limits /\ Init => IInv
<1> SUFFICES ASSUME Limits, Init
             PROVE  IInv
  OBVIOUS
<1>1. Fresh \in Streams
  <2>1. <<>> \in Seq(Seq(Rows)) /\ <<>> \in Seq(Nat)
    BY EmptySeq
  <2> QED
    BY <2>1 DEF Fresh, Streams, Sockets
<1>2. events = <<>> /\ events \in Seq(Nat) /\ Len(events) = 0
  BY DEF Init
<1>3. StreamFits(Fresh, events)
  <2>1. Fresh.sent = <<>> /\ Len(Fresh.sent) = 0 /\ Fresh.polls = <<>> /\ Len(Fresh.polls) = 0
    BY DEF Fresh
  <2> QED
    BY <1>2, <2>1 DEF Fresh, StreamFits, SentFits, PollFits, UpgradeFits, BufferFits, Limits
<1>4. TypeOK
  <2>1. committed = 0 /\ flushing = FALSE /\ written = 0 /\ closing = FALSE
        /\ stream = [c \in Clients |-> Fresh]
    BY DEF Init
  <2>2. committed \in 0..Len(events)
    BY <1>2, <2>1
  <2> QED
    BY <1>1, <1>2, <2>1, <2>2 DEF TypeOK
<1>5. NoStreamOutlivesServer
  BY DEF Init, NoStreamOutlivesServer
<1> QED
  BY <1>1, <1>3, <1>4, <1>5 DEF Init, IInv, S

LEMMA NextKeeps == Limits /\ IInv /\ [Next]_vars => IInv'
<1> SUFFICES ASSUME Limits, IInv, [Next]_vars
             PROVE  IInv'
  OBVIOUS
<1>1. CASE BeginFlush \/ InsertEvent \/ CommitFlush \/ RollbackFlush
  BY <1>1, FlushKeeps
<1>2. ASSUME NEW c \in Clients,
             Connect(c) \/ RejectUpgrade(c) \/ SeedCursor(c) \/ AcceptUpgrade(c)
      PROVE  IInv'
  BY <1>2, UpgradeKeeps
<1>3. ASSUME NEW c \in Clients, PollReads(c)
      PROVE  IInv'
  BY <1>3, PollReadsKeeps
<1>4. ASSUME NEW c \in Clients, PollWrites(c)
      PROVE  IInv'
  BY <1>4, PollWritesKeeps
<1>5. ASSUME NEW c \in Clients,
             PollFails(c) \/ Drain(c) \/ OnData(c) \/ IdleTimeout(c) \/ SocketCloses(c)
               \/ ForceDestroy(c)
      PROVE  IInv'
  BY <1>5, EndKeeps
<1>6. CASE CloseServer
  BY <1>6, CloseServerKeeps
<1>7. CASE UNCHANGED vars
  BY <1>7 DEF vars, IInv, TypeOK, StreamFits, SentFits, PollFits, UpgradeFits, BufferFits,
     NoStreamOutlivesServer, S
<1> QED
  BY <1>1, <1>2, <1>3, <1>4, <1>5, <1>6, <1>7 DEF Next

\* The inductive invariant: every stream has sent what lies between its cursors, and
\* its poll has read what follows (WsStream.poll, api.ts:640-676).
THEOREM StreamsInvariant == Limits /\ Spec => []IInv
<1> SUFFICES ASSUME Limits
             PROVE  Spec => []IInv
  OBVIOUS
<1>1. Init => IInv
  BY InitFits
<1>2. IInv /\ [Next]_vars => IInv'
  BY NextKeeps
<1> QED
  BY <1>1, <1>2, PTL DEF Spec

\* Streams are well typed.
THEOREM TypeCorrect == Limits /\ Spec => []TypeOK
<1>1. IInv => TypeOK
  BY DEF IInv
<1> QED
  BY <1>1, StreamsInvariant, PTL

\* A stream carries every event beyond its cursor once, in order and without a
\* gap (api.ts:40-46).
THEOREM StreamsAreExact == Limits /\ Spec => []StreamIsExact
<1>1. IInv => StreamIsExact
  <2> SUFFICES ASSUME IInv, NEW c \in Clients
               PROVE  /\ S(c).lastSeq <= Len(events)
                      /\ S(c).sent = SubSeq(events, S(c).after + 1, S(c).lastSeq)
    BY DEF StreamIsExact
  <2> DEFINE s == S(c)
             part == SubSeq(events, s.after + 1, s.lastSeq)
  <2>1. s \in Streams /\ StreamFits(s, events) /\ events \in Seq(Nat)
    BY StreamOf DEF IInv, TypeOK
  <2>2. /\ s.after \in Nat /\ s.lastSeq \in Nat /\ s.sent \in Seq(Nat) /\ s.after <= s.lastSeq
        /\ s.lastSeq <= Len(events) /\ Len(s.sent) = s.lastSeq - s.after
        /\ \A k \in 1..Len(s.sent) : s.sent[k] = events[s.after + k]
    BY <2>1, FieldsOf DEF StreamFits, SentFits
  <2> HIDE DEF s
  <2>3. /\ part \in Seq(Nat) /\ Len(part) = s.lastSeq - s.after
        /\ \A k \in 1..Len(part) : part[k] = events[s.after + k]
    <3>1. \A k \in (s.after + 1)..s.lastSeq : k \in 1..Len(events)
      BY <2>1, <2>2
    <3>2. \A k \in (s.after + 1)..s.lastSeq : events[k] \in Nat
      BY <2>1, <3>1
    <3>3. s.after + 1 \in Int /\ s.lastSeq \in Int
      BY <2>2
    <3>4. /\ part \in Seq(Nat)
          /\ Len(part) = IF s.after + 1 <= s.lastSeq THEN s.lastSeq - (s.after + 1) + 1 ELSE 0
          /\ \A k \in 1..(s.lastSeq - (s.after + 1) + 1) : part[k] = events[s.after + 1 + k - 1]
      BY <3>2, <3>3, SubSeqProperties
    <3> HIDE DEF part
    <3>5. Len(part) = s.lastSeq - s.after
      BY <2>2, <3>4
    <3>6. ASSUME NEW k \in 1..Len(part)
          PROVE  part[k] = events[s.after + k]
      <4>1. /\ k \in 1..(s.lastSeq - (s.after + 1) + 1)
            /\ s.after + 1 + k - 1 = s.after + k
        BY <2>2, <3>5
      <4>2. part[k] = events[s.after + 1 + k - 1]
        BY <3>4, <4>1
      <4> QED
        BY <4>1, <4>2
    <3> QED
      BY <3>4, <3>5, <3>6
  <2> HIDE DEF part
  <2>4. s.sent = part
    <3>1. s.sent \in Seq(Nat) /\ part \in Seq(Nat) /\ Len(s.sent) = Len(part)
      BY <2>2, <2>3
    <3>2. \A k \in 1..Len(s.sent) : s.sent[k] = part[k]
      BY <2>2, <2>3, <3>1
    <3> HIDE DEF s
    <3> QED
      BY <3>1, <3>2, SeqEqual
  <2> QED
    BY <2>2, <2>4 DEF s, part
<1> QED
  BY <1>1, StreamsInvariant, PTL

\* A peer that does not read makes the server buffer no more than it may
\* (api.ts:605-611).
THEOREM BuffersAreBounded == Limits /\ Spec => []BufferIsBounded
<1> SUFFICES ASSUME Limits
             PROVE  Spec => []BufferIsBounded
  OBVIOUS
<1>1. IInv => BufferIsBounded
  <2> SUFFICES ASSUME IInv, NEW c \in Clients
               PROVE  S(c).buffered <= MaxBuffered + S(c).pings + 1
    BY DEF BufferIsBounded
  <2>1. BufferFits(S(c)) /\ S(c).buffered \in Nat /\ S(c).pings \in Nat
    BY StreamOf, FieldsOf DEF StreamFits
  <2> QED
    BY <2>1 DEF BufferFits, Limits
<1> QED
  BY <1>1, StreamsInvariant, PTL

\* Once the server closes no stream is open, or opens, although upgrades were
\* under way (api.ts:1386-1395).
THEOREM NoStreamIsLeft == Limits /\ Spec => []NoStreamOutlivesServer
<1>1. IInv => NoStreamOutlivesServer
  BY DEF IInv
<1> QED
  BY <1>1, StreamsInvariant, PTL
=============================================================================
