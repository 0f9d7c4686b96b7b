------------------------------ MODULE Candidates ------------------------------
(***************************************************************************)
(* How the live workflow basic-match (examples/basic-match.ts over         *)
(* adapters/xenoblade/workflow.ts) gets an agent's code into the working   *)
(* tree and judges it: the agent replaces definitions and looks at diffs   *)
(* in its turn; then its reply is spliced, the batch cycle builds and      *)
(* compares every target in play, and what the cycle does not accept is    *)
(* left to the diff verifier, each in a process of its own.                *)
(*                                                                         *)
(* Runs of one server share the tree and the objects; readFileSync to      *)
(* writeFileSync is one tick.  A source is a sequence of definitions and   *)
(* declarations.  ninja, the comparison with retail and the lock around    *)
(* them are external: a build compiles the whole unit or nothing.  An      *)
(* agent touches what it is asked about, "ONE complete function            *)
(* definition" at a time (basic-match.ts:92-93).                           *)
(*                                                                         *)
(* An operator named X_Bug is X with a plausible programming error; it is  *)
(* used only to confirm that the properties below notice the error.        *)
(***************************************************************************)
EXTENDS Integers, Sequences, FiniteSets, SequencesExt

CONSTANTS
    Runs,
    Targets,    \* [Runs -> sequence of symbols], the batch of the run's session
    Unit,       \* [symbol -> unit]
    Stem,       \* [symbol -> the name before its `__']
    Sources,    \* [unit -> the source a run finds]
    Replies,    \* what an agent may submit
    MaxTurns,   \* rejectionRetries + 1
    MaxEdits,   \* bound: tool calls of a turn
    None

VARIABLES
    source,  \* of each unit, in the tree
    object,  \* of each unit: the source that was compiled last, or None
    session  \* per run: its agent loop

vars == <<source, object, session>>

Symbols == DOMAIN Unit
Units == DOMAIN Sources

-----------------------------------------------------------------------------
(* Candidates.                                                             *)

\* symbolStems(): the names a definition is looked for under, in this order.
SymbolStems(s) == <<s, Stem[s]>>

DefinitionsOf(text, name) == {i \in DOMAIN text : text[i].name = name /\ text[i].kind = "definition"}

Greatest(S) == CHOOSE i \in S : \A j \in S : j <= i

ExtractFunctionSpan_AnyMention(text, s) ==
    LET at == {i \in DOMAIN text : text[i].name \in {s, Stem[s]}}
    IN  IF at = {} THEN None ELSE Greatest(at)

\* extractFunctionSpan(): the last definition under the first name that has one.
ExtractFunctionSpan(text, s) ==
    LET names == SelectSeq(SymbolStems(s), LAMBDA name : DefinitionsOf(text, name) # {})
    IN  IF names = <<>> THEN None ELSE Greatest(DefinitionsOf(text, names[1]))

\* validateCandidate(): code with balanced braces that names the symbol before
\* the first of them; what it says in front, in a comment say, counts.
ValidateCandidate(reply, s) == reply.kind = "definition" /\ s \in reply.mentions

\* An extern "C" of the original is kept.
Linked(original, reply) == reply.extern \/ original.extern

\* applyCandidate(): the new source, or the old one when it throws.
ApplyCandidate(text, s, reply) ==
    LET at == ExtractFunctionSpan(text, s)
    IN  IF at = None \/ ~ValidateCandidate(reply, s) THEN text
        ELSE [text EXCEPT ![at] = [kind |-> "definition", name |-> reply.name, body |-> reply.body,
                                   extern |-> Linked(@, reply)]]

Applied(s, reply) == [source EXCEPT ![Unit[s]] = ApplyCandidate(@, s, reply)]

-----------------------------------------------------------------------------
(* Building and comparing.                                                 *)

Compiles(text) == \A i \in DOMAIN text : text[i].body # "broken"

\* ninja for the unit of s, as all tools but `asm' run it first.
Built(s) == IF Compiles(source[Unit[s]]) THEN [object EXCEPT ![Unit[s]] = source[Unit[s]]] ELSE object

Linkage(s) == Sources[Unit[s]][ExtractFunctionSpan(Sources[Unit[s]], s)].extern

\* What the compiled function is against retail: "match", "equivalent", or less.
Diff(compiled, s) ==
    LET at == IF compiled = None THEN None ELSE ExtractFunctionSpan(compiled, s)
    IN  IF at = None \/ compiled[at].extern # Linkage(s) THEN "wrong" ELSE compiled[at].body

\* The build of s in this state and its answer, "broken" when it fails.
Answer(s) == IF Compiles(source[Unit[s]]) THEN Diff(source[Unit[s]], s) ELSE "broken"

Status(answer) ==
    CASE answer = "match" -> "FULL_MATCH"
      [] answer = "equivalent" -> "EQUIVALENT_MATCH"
      [] OTHER -> "NOT_STARTED"

ACCEPTED_STATUSES == {"FULL_MATCH", "EQUIVALENT_MATCH"}

\* mapBatchSummary(): entries by target_id, those without one by position; a
\* target without an entry has no status.
MapBatchSummary(entries, targets) ==
    LET ById(s) == {i \in DOMAIN entries : entries[i].target_id = s}
        positional == SelectSeq(entries, LAMBDA e : e.target_id = None)
    IN  [i \in DOMAIN targets |->
           IF ById(targets[i]) # {} THEN entries[Greatest(ById(targets[i]))].status
           ELSE IF i \in DOMAIN positional THEN positional[i].status
           ELSE None]

-----------------------------------------------------------------------------
(* The session of a run.                                                   *)

Fresh(targets) ==
    [at |-> "turn", play |-> targets, turn |-> 1, edits |-> 0, reply |-> None, next |-> 1,
     summary |-> <<>>, verdict |-> <<>>, accepted |-> {}]

Init ==
    /\ source = Sources
    /\ object = [u \in Units |-> None]
    /\ session = [r \in Runs |-> Fresh(Targets[r])]

At(r, phase) == session[r].at = phase
Target(r) == session[r].play[session[r].next]
More(r) == session[r].next <= Len(session[r].play)

Works(r) == At(r, "turn") /\ session[r].edits < MaxEdits

\* replace_function of the session toolset.
ReplaceFunction(r, s, reply) ==
    /\ Works(r)
    /\ source' = Applied(s, reply)
    /\ session' = [session EXCEPT ![r].edits = @ + 1]
    /\ UNCHANGED object

\* hexdiff of the session toolset.
Hexdiff(r, s) ==
    /\ Works(r)
    /\ object' = Built(s)
    /\ session' = [session EXCEPT ![r].edits = @ + 1]
    /\ UNCHANGED source

\* The turn ends; reprompt() takes the reply.
Reply(r, reply) ==
    /\ At(r, "turn")
    /\ session' = [session EXCEPT ![r].at = "splice", ![r].reply = reply, ![r].next = 1]
    /\ UNCHANGED <<source, object>>

\* The reply is tried on the next target; a throw is logged.
Splice(r) ==
    /\ At(r, "splice")
    /\ IF More(r)
       THEN /\ source' = Applied(Target(r), session[r].reply)
            /\ session' = [session EXCEPT ![r].next = @ + 1]
       ELSE /\ session' = [session EXCEPT ![r].at = "cycle", ![r].next = 1, ![r].summary = <<>>]
            /\ UNCHANGED source
    /\ UNCHANGED object

\* batch-cycle.py comes to its next target.
CycleTarget(r) ==
    /\ At(r, "cycle") /\ More(r)
    /\ object' = Built(Target(r))
    /\ session' = [session EXCEPT ![r].next = @ + 1,
         ![r].summary = Append(@, [target_id |-> Target(r), status |-> Status(Answer(Target(r)))])]
    /\ UNCHANGED source

\* It exits, with or without an error, and left a summary, of entries with or
\* without ids, or one that says less; else runBatchCycle() throws.
CycleEnds(r, ids, entries) ==
    /\ At(r, "cycle") /\ ~More(r)
    /\ LET all == IF ids THEN session[r].summary
                  ELSE [i \in DOMAIN session[r].summary |-> [session[r].summary[i] EXCEPT !.target_id = None]]
       IN  session' = [session EXCEPT ![r].at = "verify", ![r].next = 1,
             ![r].verdict = LET status == MapBatchSummary(SubSeq(all, 1, entries), session[r].play)
                            IN  [i \in DOMAIN status |-> status[i] \in ACCEPTED_STATUSES]]
    /\ UNCHANGED <<source, object>>

CycleThrows(r) ==
    /\ At(r, "cycle")
    /\ session' = [session EXCEPT ![r].at = "failed"]
    /\ UNCHANGED <<source, object>>

\* What hexdiff --no-build would compare.
DiffVerify_Stale(s) == object[Unit[s]] # None /\ Diff(object[Unit[s]], s) = "match"

\* diffVerify(): of a fresh build.
DiffVerify(s) == Answer(s) = "match"

\* A target the cycle did not accept is built and compared once more; when the
\* tool fails or says nothing to parse, it is rejected.
Verify(r) ==
    /\ At(r, "verify") /\ More(r)
    /\ IF session[r].verdict[session[r].next]
       THEN session' = [session EXCEPT ![r].next = @ + 1] /\ UNCHANGED object
       ELSE \/ /\ session' = [session EXCEPT ![r].next = @ + 1,
                                            ![r].verdict[session[r].next] = DiffVerify(Target(r))]
               /\ object' = Built(Target(r))
            \/ /\ session' = [session EXCEPT ![r].next = @ + 1]
               /\ UNCHANGED object
    /\ UNCHANGED source

\* The engine takes the verdict: accepted targets are finalized and leave the
\* session, which goes on with the rejected ones while it may.
TakeVerdict(r) ==
    /\ At(r, "verify") /\ ~More(r)
    /\ LET s == session[r]
           taken == {i \in DOMAIN s.play : s.verdict[i]}
           left == SelectSeq(s.play, LAMBDA t : \A i \in taken : s.play[i] # t)
       IN  session' = [session EXCEPT ![r] =
             [Fresh(left) EXCEPT !.accepted = s.accepted \cup {s.play[i] : i \in taken},
                                 !.turn = s.turn + 1,
                                 !.at = IF left = <<>> \/ s.turn = MaxTurns THEN "done" ELSE "turn"]]
    /\ UNCHANGED <<source, object>>

Next ==
    \E r \in Runs :
      \/ \E i \in DOMAIN session[r].play, reply \in Replies : ReplaceFunction(r, session[r].play[i], reply)
      \/ \E i \in DOMAIN session[r].play : Hexdiff(r, session[r].play[i])
      \/ \E reply \in Replies : Reply(r, reply)
      \/ Splice(r) \/ CycleTarget(r) \/ CycleThrows(r) \/ Verify(r) \/ TakeVerdict(r)
      \/ \E ids \in BOOLEAN, entries \in 0..Len(session[r].play) : CycleEnds(r, ids, entries)

Spec == Init /\ [][Next]_vars

-----------------------------------------------------------------------------
\* "Byte-identity is decisive" (basic-match.ts:174-175), of the tree and for
\* good: an accepted function has a definition in the tree that compiles to what
\* retail has, linkage included, whatever the sessions of other functions of the
\* unit submit, break and build around it.
AcceptedStaysMatched ==
    \A r \in Runs : \A s \in session[r].accepted :
      Diff(source[Unit[s]], s) \in {"match", "equivalent"}

\* A splice replaces the definition of a target in play, and leaves every other
\* definition and every declaration of the file as they were
\* (workflow.ts:553-562).
SpliceIsLocal ==
    \A u \in Units :
      source'[u] # source[u] =>
        /\ Len(source'[u]) = Len(source[u])
        /\ \E i \in DOMAIN source[u] :
             /\ source[u][i].kind = "definition" /\ source'[u][i].name = source[u][i].name
             /\ \A j \in DOMAIN source[u] \ {i} : source'[u][j] = source[u][j]
             /\ \E r \in Runs : \E k \in DOMAIN session[r].play :
                  source[u][i].name \in {session[r].play[k], Stem[session[r].play[k]]}

SplicesAreLocal == [][SpliceIsLocal]_vars
=============================================================================
