----------------------------- MODULE EventStream -----------------------------
(***************************************************************************)
(* The live event streams of src/server/api.ts: the upgrade of a client's  *)
(* request, the WsStream that polls the events table and writes each new   *)
(* row to the socket, and the end of the stream, by either side or by the  *)
(* server's close.                                                         *)
(*                                                                         *)
(* Streams and the daemon share one connection (src/server/serve.ts), so a *)
(* poll sees the rows of a flush that is still open.  An event stands for  *)
(* its row, and a row's seq is its place in the table (EventStore shows    *)
(* that seqs have no gaps).  A frame's bytes are left out: every event's   *)
(* frame has size one, and what the client sends is a ping, a close or a   *)
(* frame that is too large.                                                *)
(*                                                                         *)
(* An operator named X_Bug is X with a plausible programming error; it is  *)
(* used only to confirm that the properties below notice the error.        *)
(***************************************************************************)
EXTENDS Integers, Sequences, SequencesExt

CONSTANTS
    Clients,
    Batch,        \* events of one flush
    MaxEvents,    \* bound: events written in a run
    EventLimit,   \* rows per poll
    MaxBuffered,  \* frames the socket buffers before the stream is dropped
    MaxPings,     \* bound: frames a client sends
    FailsWhenRead \* TRUE: a flush may also fail after a stream read its rows

VARIABLES
    events,       \* the rows the connection sees, by seq
    committed,    \* how many of them are committed
    flushing,     \* a flush is open
    written,      \* events written so far, which numbers them
    stream,       \* per client: the socket and its WsStream
    closing       \* the server was asked to close

vars == <<events, committed, flushing, written, stream, closing>>

\* socket: none, auth, seed, open, ended (our side), gone; polls: what polls that
\* are under way have read.
Fresh == [socket |-> "none", after |-> 0, lastSeq |-> 0, closed |-> FALSE,
          polls |-> <<>>, sent |-> <<>>, buffered |-> 0,
          force |-> FALSE, pings |-> 0]

Init ==
    /\ events = <<>> /\ committed = 0 /\ flushing = FALSE /\ written = 0
    /\ stream = [c \in Clients |-> Fresh]
    /\ closing = FALSE

Table == <<events, committed, flushing, written>>

-----------------------------------------------------------------------------
(* The writer: one flush, an INSERT at a time.                             *)

BeginFlush ==
    /\ ~flushing /\ written < MaxEvents
    /\ flushing' = TRUE
    /\ UNCHANGED <<events, committed, written, stream, closing>>

InsertEvent ==
    /\ flushing /\ Len(events) < committed + Batch /\ written < MaxEvents
    /\ written' = written + 1
    /\ events' = Append(events, written')
    /\ UNCHANGED <<committed, flushing, stream, closing>>

CommitFlush ==
    /\ flushing /\ Len(events) > committed
    /\ committed' = Len(events)
    /\ flushing' = FALSE
    /\ UNCHANGED <<events, written, stream, closing>>

\* A stream read rows of the flush that is open.
ReadByStreams ==
    \E c \in Clients :
      \/ stream[c].lastSeq > committed
      \/ \E n \in DOMAIN stream[c].polls : \E row \in Range(stream[c].polls[n]) :
           row.seq > committed

\* The seqs of the rows go with them, and are given to other events later.
RollbackFlush ==
    /\ flushing
    /\ FailsWhenRead \/ ~ReadByStreams
    /\ events' = SubSeq(events, 1, committed)
    /\ flushing' = FALSE
    /\ UNCHANGED <<committed, written, stream, closing>>

-----------------------------------------------------------------------------
(* The upgrade.                                                            *)

Set(c, s) == stream' = [stream EXCEPT ![c] = s]
S(c) == stream[c]
Dead(s) == [s EXCEPT !.socket = "gone"]

\* The request waits for its token to be checked.
Connect(c) ==
    /\ S(c).socket = "none" /\ ~closing
    /\ Set(c, [S(c) EXCEPT !.socket = "auth"])
    /\ UNCHANGED <<Table, closing>>

\* rejectUpgrade(): a request without a valid token.
RejectUpgrade(c) ==
    /\ S(c).socket = "auth"
    /\ Set(c, Dead(S(c)))
    /\ UNCHANGED <<Table, closing>>

\* ?after= gives the cursor, or the largest seq in the table is read.
SeedCursor(c) ==
    /\ S(c).socket = "auth"
    /\ \E after \in {0, Len(events)} :
         Set(c, [S(c) EXCEPT !.socket = "seed", !.after = after, !.lastSeq = after])
    /\ UNCHANGED <<Table, closing>>

Admits_AnyTime == TRUE

\* An upgrade that was in flight when the server began to close is dropped.
Admits == ~closing

AcceptUpgrade(c) ==
    /\ S(c).socket = "seed"
    /\ Set(c, IF Admits THEN [S(c) EXCEPT !.socket = "open"] ELSE Dead(S(c)))
    /\ UNCHANGED <<Table, closing>>

-----------------------------------------------------------------------------
(* The WsStream.                                                           *)

Live(c) == S(c).socket \in {"open", "ended"} /\ ~S(c).closed

Writable(s) == s.socket = "open"

\* terminate(): the close frame follows what is buffered, then the end.
Terminate(s) ==
    [s EXCEPT !.closed = TRUE, !.socket = "ended", !.force = TRUE,
              !.buffered = IF Writable(s) THEN @ + 1 ELSE @]

MayPoll_Overlapping(c) == Live(c) /\ Len(S(c).polls) < 2

\* The re-entrancy guard: no poll while one is under way.
MayPoll(c) == Live(c) /\ S(c).polls = <<>>

\* poll(): the rows beyond the cursor are read ...
PollReads(c) ==
    /\ MayPoll(c)
    /\ LET last == IF S(c).lastSeq + EventLimit < Len(events)
                   THEN S(c).lastSeq + EventLimit ELSE Len(events)
           rows == [k \in 1..(last - S(c).lastSeq) |->
                      [seq |-> S(c).lastSeq + k, event |-> events[S(c).lastSeq + k]]]
       IN  Set(c, [S(c) EXCEPT !.polls = Append(@, rows)])
    /\ UNCHANGED <<Table, closing>>

\* ... or the store throws: the stream lives on and polls again.
PollFails(c) ==
    /\ S(c).polls # <<>>
    /\ Set(c, [S(c) EXCEPT !.polls = Tail(@)])
    /\ UNCHANGED <<Table, closing>>

Room_Unlimited(s) == MaxEvents

\* Backpressure: how many more frames may be buffered.
Room(s) == IF s.buffered < MaxBuffered THEN MaxBuffered - s.buffered ELSE 0

Write(s, rows) ==
    IF rows = <<>> THEN s
    ELSE [s EXCEPT !.sent = @ \o [k \in DOMAIN rows |-> rows[k].event],
                   !.lastSeq = Last(rows).seq, !.buffered = @ + Len(rows)]

\* ... and written: the row for which there is no room ends the stream.
PollWrites(c) ==
    /\ S(c).polls # <<>>
    /\ LET s == [S(c) EXCEPT !.polls = Tail(@)]
           rows == Head(S(c).polls)
       IN  Set(c, IF s.closed \/ ~Writable(s) THEN s
                  ELSE IF Len(rows) <= Room(s) THEN Write(s, rows)
                  ELSE Terminate(Write(s, SubSeq(rows, 1, Room(s)))))
    /\ UNCHANGED <<Table, closing>>

\* The peer reads a frame.
Drain(c) ==
    /\ S(c).socket \in {"open", "ended"} /\ S(c).buffered > 0
    /\ Set(c, [S(c) EXCEPT !.buffered = @ - 1])
    /\ UNCHANGED <<Table, closing>>

\* onData(): a ping is answered, a close frame is echoed and our side ends, a
\* frame that is too large ends the stream.
OnData(c) ==
    /\ Live(c) /\ S(c).pings < MaxPings
    /\ LET s == [S(c) EXCEPT !.pings = @ + 1] IN
       \E reply \in {[s EXCEPT !.buffered = IF Writable(s) THEN @ + 1 ELSE @],
                     [s EXCEPT !.socket = "ended",
                               !.buffered = IF Writable(s) THEN @ + 1 ELSE @],
                     Terminate(s)} :
         Set(c, reply)
    /\ UNCHANGED <<Table, closing>>

IdleExpires_OpenOnly(c) == Live(c) /\ S(c).socket = "open"

\* The idle timer runs until the stream is closed, also when our side has ended.
IdleExpires(c) == Live(c)

IdleTimeout(c) ==
    /\ IdleExpires(c)
    /\ Set(c, Terminate(S(c)))
    /\ UNCHANGED <<Table, closing>>

\* The socket closes: both sides ended, the peer vanished, or an error.
SocketCloses(c) ==
    /\ S(c).socket \in {"open", "ended"}
    /\ Set(c, [S(c) EXCEPT !.socket = "gone", !.closed = TRUE])
    /\ UNCHANGED <<Table, closing>>

\* The backstop of terminate().
ForceDestroy(c) ==
    /\ S(c).force /\ S(c).socket = "ended"
    /\ Set(c, Dead(S(c)))
    /\ UNCHANGED <<Table, closing>>

\* closeStreams(): every accepted socket is destroyed.
CloseServer ==
    /\ ~closing
    /\ closing' = TRUE
    /\ stream' = [c \in Clients |->
                    IF S(c).socket \in {"open", "ended"}
                    THEN [S(c) EXCEPT !.socket = "gone", !.closed = TRUE] ELSE S(c)]
    /\ UNCHANGED Table

Next ==
    \/ BeginFlush \/ InsertEvent \/ CommitFlush \/ RollbackFlush
    \/ \E c \in Clients :
         \/ Connect(c) \/ RejectUpgrade(c) \/ SeedCursor(c) \/ AcceptUpgrade(c)
         \/ PollReads(c) \/ PollFails(c) \/ PollWrites(c) \/ Drain(c)
         \/ OnData(c) \/ IdleTimeout(c) \/ SocketCloses(c) \/ ForceDestroy(c)
    \/ CloseServer

\* The timers of a stream fire.  Nobody must connect, read, send or close, and
\* the table need not answer.
Fairness == \A c \in Clients : WF_vars(IdleTimeout(c)) /\ WF_vars(ForceDestroy(c))

Spec == Init /\ [][Next]_vars /\ Fairness

-----------------------------------------------------------------------------
\* A stream carries every event beyond its cursor once, in order and without
\* a gap, also when reads are slow, polls fail or the buffer fills up
\* (api.ts:40-46, "pushes each new `events` row as one text message").
StreamIsExact ==
    \A c \in Clients :
      /\ S(c).lastSeq <= Len(events)
      /\ S(c).sent = SubSeq(events, S(c).after + 1, S(c).lastSeq)

\* What a peer that does not read makes the server buffer is bounded: the
\* event frames, the answers to its own frames and one close frame
\* (api.ts:605-611).
BufferIsBounded == \A c \in Clients : S(c).buffered <= MaxBuffered + S(c).pings + 1

\* Once the server closes no stream is open, or opens afterwards: the close
\* callback does not wait for one (api.ts:1386-1395).
NoStreamOutlivesServer == closing => \A c \in Clients : S(c).socket \notin {"open", "ended"}

\* A stream that one side ended is released although the peer never reads or
\* closes: the idle timer and the backstop see to it (api.ts:718-733).
EndedStreamIsReleased ==
    \A c \in Clients : S(c).socket = "ended" ~> S(c).socket = "gone"
=============================================================================
