------------------------------ MODULE EventLog ------------------------------
(***************************************************************************)
(* What the event store promises its callers: an append-only log.  Events  *)
(* are accepted into a queue; a prefix of the queue is either written at   *)
(* the end of the log or dropped as a whole; a caller is told the position *)
(* of its event, and that position is final.  A crash forgets the queue,   *)
(* never the log.  EventStore is shown to implement this specification.    *)
(***************************************************************************)
EXTENDS Naturals, Sequences

CONSTANT Events          \* the events callers may emit, each at most once

VARIABLES
    queue,               \* accepted, neither written nor dropped
    log,                 \* written events; the position is the event's seq
    told                 \* position each caller was given, 0 before that

vars == <<queue, log, told>>

Members(s) == {s[i] : i \in 1..Len(s)}

Init ==
    /\ queue = <<>>
    /\ log = <<>>
    /\ told = [e \in Events |-> 0]

Accept(e) ==
    /\ e \notin Members(queue) \cup Members(log)
    /\ queue' = Append(queue, e)
    /\ UNCHANGED <<log, told>>

\* The first n queued events leave the queue together, written in order ...
Write(n) ==
    /\ log' = log \o SubSeq(queue, 1, n)
    /\ queue' = SubSeq(queue, n + 1, Len(queue))
    /\ UNCHANGED told

\* ... or not at all.
Drop(n) ==
    /\ queue' = SubSeq(queue, n + 1, Len(queue))
    /\ UNCHANGED <<log, told>>

\* The callers of the events at positions from..to learn where they are.
Tell(from, to) ==
    /\ told' = [e \in Events |->
                  IF \E p \in from..to : log[p] = e
                  THEN CHOOSE p \in from..to : log[p] = e
                  ELSE told[e]]
    /\ UNCHANGED <<queue, log>>

Forget ==
    /\ queue' = <<>>
    /\ UNCHANGED <<log, told>>

Next ==
    \/ \E e \in Events : Accept(e)
    \/ \E n \in 1..Len(queue) : Write(n) \/ Drop(n)
    \/ \E from, to \in 1..Len(log) : Tell(from, to)
    \/ Forget

Spec == Init /\ [][Next]_vars
=============================================================================
