---------------------------- MODULE AtomicStore ----------------------------
(***************************************************************************)
(* What src/core/store/sqlite.ts promises its callers: a transaction's     *)
(* writes, less those of the nested regions that failed, become durable    *)
(* all at once when it succeeds and not at all when it fails; a write      *)
(* outside transactions is durable when it returns; nothing durable is     *)
(* ever taken back.                                                        *)
(***************************************************************************)
CONSTANTS Txns, Nests, Plains

VARIABLES
    durable,   \* the writers whose writes would survive a crash
    settled    \* the callers that were told how their call ended

vars == <<durable, settled>>

Init == durable = {} /\ settled = {}

\* A transaction ends: its writes and those of some nested regions last.
Commit(t, kept) ==
    /\ t \notin settled
    /\ kept \cap durable = {}
    /\ durable' = durable \cup {t} \cup kept
    /\ settled' = settled \cup {t}

Fail(t) ==
    /\ t \notin settled
    /\ settled' = settled \cup {t}
    /\ UNCHANGED durable

Put(p) ==
    /\ p \notin settled
    /\ durable' = durable \cup {p}
    /\ settled' = settled \cup {p}

Next ==
    \/ \E t \in Txns : Fail(t) \/ \E kept \in SUBSET Nests : Commit(t, kept)
    \/ \E p \in Plains : Put(p)

Spec == Init /\ [][Next]_vars
=============================================================================
