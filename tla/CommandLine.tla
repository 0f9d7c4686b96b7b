----------------------------- MODULE CommandLine -----------------------------
(***************************************************************************)
(* One invocation of the command line (cli/index.ts, cli/live.ts,          *)
(* workflow/facade.ts): the words are parsed and checked, a command opens  *)
(* the store, works and closes it, or `run' creates a run on the facade -- *)
(* that of its host, or a live stack it configures itself -- and, asked to *)
(* wait, polls the run until it settles or the time is over.               *)
(*                                                                         *)
(* A word is a flag, with or without `=value', a plain word, or the        *)
(* separator.  What a command prints and what it does in the store are     *)
(* other modules' (Registry, SmellGate, WorkflowStatus) or left out.       *)
(*                                                                         *)
(* An operator named X_Bug is X with a plausible programming error; it is  *)
(* used only to confirm that the properties below notice the error.        *)
(***************************************************************************)
EXTENDS Integers, Sequences, FiniteSets

CONSTANTS
    CommandLines, \* [command, args]: what may be typed
    Names,        \* names of flags
    Selector, Number, Registry, \* words that parse as what they are named for
    None,
    Timeout,      \* of waitForRun(), in polls
    MaxChanges    \* bound: changes of the run's status

VARIABLES
    typed,
    configured, \* the facade has a host
    phase,
    store,      \* "none", "open" or "closed"
    run,        \* the created run: its scope and status
    polls,
    changes,
    exit        \* code of the process

vars == <<typed, configured, phase, store, run, polls, changes, exit>>

Flag(name) == [kind |-> "flag", name |-> name, value |-> None]
Assigned(name, value) == [kind |-> "flag", name |-> name, value |-> value]
Word(text) == [kind |-> "word", text |-> text]
Separator == [kind |-> "separator"]

IsWord(w) == w.kind = "word"
IsFlag(w) == w.kind = "flag"

-----------------------------------------------------------------------------
(* parseArgs().                                                            *)

BOOLEAN_FLAGS ==
    {"delta", "json", "markdown", "check", "write", "no-strict", "completeness", "detached", "no-fail"}

\* The flag at n takes the word after it for its value.
TakesNext(args, n) ==
    /\ IsFlag(args[n]) /\ args[n].value = None /\ args[n].name \notin BOOLEAN_FLAGS
    /\ n < Len(args) /\ IsWord(args[n + 1])

ParseArgs(args) ==
    LET parse[n \in 0..Len(args)] ==
          IF n = 0 THEN [positionals |-> <<>>, values |-> [f \in Names |-> None], bools |-> {},
                         rest |-> FALSE, error |-> FALSE]
          ELSE LET p == parse[n - 1]
                   w == args[n]
               IN  IF p.rest THEN [p EXCEPT !.positionals = Append(@, w)]
                   ELSE IF n > 1 /\ TakesNext(args, n - 1) THEN p
                   ELSE IF w = Separator THEN [p EXCEPT !.rest = TRUE]
                   ELSE IF IsWord(w) THEN [p EXCEPT !.positionals = Append(@, w)]
                   ELSE IF w.value # None
                   THEN [p EXCEPT !.values[w.name] = w.value,
                                  !.error = @ \/ w.name \in BOOLEAN_FLAGS]
                   ELSE IF TakesNext(args, n) THEN [p EXCEPT !.values[w.name] = args[n + 1].text]
                   ELSE [p EXCEPT !.bools = @ \cup {w.name}]
    IN  parse[Len(args)]

Given(parsed) == {f \in Names : parsed.values[f] # None} \cup parsed.bools

Collected_Last(args, name) ==
    IF ParseArgs(args).values[name] = None THEN <<>> ELSE <<ParseArgs(args).values[name]>>

\* collectRepeatedValues(), None when it throws.
CollectRepeatedValues(args, name) ==
    LET collect[n \in 0..Len(args)] ==
          IF n = 0 THEN [out |-> <<>>, rest |-> FALSE, error |-> FALSE]
          ELSE LET c == collect[n - 1]
                   w == args[n]
               IN  IF c.rest \/ ~IsFlag(w)
                   THEN [c EXCEPT !.rest = @ \/ w = Separator]
                   ELSE IF w.name # name THEN c
                   ELSE IF w.value # None THEN [c EXCEPT !.out = Append(@, w.value)]
                   ELSE IF n < Len(args) /\ IsWord(args[n + 1])
                   THEN [c EXCEPT !.out = Append(@, args[n + 1].text)]
                   ELSE [c EXCEPT !.error = TRUE]
        all == collect[Len(args)]
    IN  IF all.error THEN None ELSE all.out

-----------------------------------------------------------------------------
(* What a command accepts.                                                 *)

\* checkFlags().
Allowed(command) ==
    CASE command \in {"status", "select", "import"} -> {"db", "fixture"}
      [] command = "export" -> {"out", "db", "fixture"}
      [] command = "analyze" -> {"db", "fixture", "run"}
      [] command = "workflow set" -> {"target", "unit", "reason", "db", "fixture"}
      [] command = "workflow status" -> {"unit", "target", "db", "fixture"}
      [] command = "run" -> {"model", "budget", "target", "unit", "wait", "db", "models"}
      [] command = "report" -> {"json", "check", "write", "no-strict", "base", "variant",
                                "completeness", "config", "db", "fixture"}
      [] OTHER -> {}

\* requireValueFlag(); the values of `run' that repeat are checked as they are
\* collected.
RequireValue(command) ==
    CASE command = "run" -> {"model", "budget", "db", "models"}
      [] OTHER -> {"db", "fixture", "out", "run", "target", "unit", "reason", "base", "variant", "config"}

\* The positionals, and what else a command looks at before it starts.
Accepts(command, args, p) ==
    CASE command = "status" -> p.positionals = <<>>
      [] command = "select" -> p.positionals = <<Word(Selector)>>
      [] command = "export" -> p.positionals = <<Word(Registry)>>
      [] command \in {"import", "analyze", "workflow status"} -> Len(p.positionals) = 1
      [] command = "workflow set" ->
           Len(p.positionals) = 2 /\ ((p.values["target"] = None) # (p.values["unit"] = None))
      [] command = "run" ->
           /\ Len(p.positionals) = 1 /\ p.values["model"] # None
           /\ p.values["budget"] \in {None, Number}
           /\ CollectRepeatedValues(args, "target") # None
           /\ CollectRepeatedValues(args, "unit") # None
      [] command = "report" ->
           /\ "completeness" \notin p.bools => ~({"check", "write"} \subseteq p.bools)
           /\ "completeness" \notin p.bools => p.values["variant"] \in {None, "RVL"}
      [] OTHER -> FALSE \* unknown command

Valid(command, args) ==
    LET p == ParseArgs(args)
    IN  /\ ~p.error
        /\ Given(p) \subseteq Allowed(command)
        /\ RequireValue(command) \cap p.bools = {}
        /\ Accepts(command, args, p)

Parsed == ParseArgs(typed.args)

-----------------------------------------------------------------------------
Init ==
    /\ typed \in CommandLines
    /\ configured \in BOOLEAN
    /\ phase = "start"
    /\ store = "none" /\ run = None
    /\ polls = 0 /\ changes = 0
    /\ exit = None

Exit(code) == phase' = "exited" /\ exit' = code

\* main(): a thrown error exits 1.
Reject ==
    /\ phase = "start" /\ ~Valid(typed.command, typed.args)
    /\ Exit(1)
    /\ UNCHANGED <<typed, configured, store, run, polls, changes>>

UsesStore ==
    \/ typed.command \notin {"run", "report"}
    \/ typed.command = "report" /\ "completeness" \in Parsed.bools

\* `report' without --completeness: the gate passes or not, or throws; a
\* summary passes.
Report ==
    /\ phase = "start" /\ Valid(typed.command, typed.args) /\ ~UsesStore
    /\ typed.command = "report"
    /\ \E code \in {0, 1} : Exit(code)
    /\ UNCHANGED <<typed, configured, store, run, polls, changes>>

StoreAfterFailedImport_Leaks == "open"

\* openAndImport() closes the store it could not migrate or import into.
StoreAfterFailedImport == "closed"

\* The file cannot be opened, or not be migrated, or the fixture not imported.
OpenAndImport ==
    /\ phase = "start" /\ Valid(typed.command, typed.args) /\ UsesStore
    /\ \/ store' = "open" /\ phase' = "work" /\ UNCHANGED exit
       \/ store' = "none" /\ Exit(1)
       \/ store' = StoreAfterFailedImport /\ Exit(1)
    /\ UNCHANGED <<typed, configured, run, polls, changes>>

\* The body of the command, and its finally.
Work ==
    /\ phase = "work"
    /\ store' = "closed"
    /\ \E code \in {0, 1} : Exit(code)
    /\ UNCHANGED <<typed, configured, run, polls, changes>>

-----------------------------------------------------------------------------
(* run.                                                                    *)

CreateRun ==
    \/ /\ run' = [status |-> "queued", target |-> CollectRepeatedValues(typed.args, "target"),
                  unit |-> CollectRepeatedValues(typed.args, "unit")]
       /\ IF "wait" \in Parsed.bools THEN phase' = "waiting" /\ UNCHANGED exit ELSE Exit(0)
    \/ UNCHANGED run /\ Exit(1)

\* The host's facade; without its stack there is no scheduler to ask, so that a
\* command that waits throws once the run is created.
RunOnHost ==
    /\ phase = "start" /\ Valid(typed.command, typed.args) /\ typed.command = "run"
    /\ configured
    /\ CreateRun
    /\ UNCHANGED <<typed, configured, store, polls, changes>>

\* configureLiveDecompi(): the models file, then the store, which stays open.
Configure ==
    /\ phase = "start" /\ Valid(typed.command, typed.args) /\ typed.command = "run"
    /\ ~configured
    /\ \/ store' = "none" /\ Exit(1) /\ UNCHANGED configured
       \/ store' = "open" /\ Exit(1) /\ UNCHANGED configured
       \/ store' = "open" /\ phase' = "create" /\ configured' = TRUE /\ UNCHANGED exit
    /\ UNCHANGED <<typed, run, polls, changes>>

RunOnLiveStack ==
    /\ phase = "create"
    /\ CreateRun
    /\ UNCHANGED <<typed, configured, store, polls, changes>>

Settled == {"done", "failed", "cancelled"}

\* The scheduler, or a client of it.
RunMoves ==
    /\ run # None /\ phase # "exited" /\ changes < MaxChanges
    /\ changes' = changes + 1
    /\ \E to \in CASE run.status = "queued" -> {"running", "cancelled"}
                   [] run.status = "running" -> {"paused", "done", "failed", "cancelled"}
                   [] run.status = "paused" -> {"queued", "cancelled"}
                   [] OTHER -> {} :
         run' = [run EXCEPT !.status = to]
    /\ UNCHANGED <<typed, configured, phase, store, polls, exit>>

NoStack ==
    /\ phase = "waiting" /\ store = "none"
    /\ Exit(1)
    /\ UNCHANGED <<typed, configured, store, run, polls, changes>>

Passes_UnlessFailed == run.status # "failed"

\* What cmdRun() makes of the settled run.
Passes == run.status = "done"

Expired_WhileRunning == polls > Timeout /\ run.status \in {"queued", "running"}

\* waitForRun() looks at the clock after every answer that has not settled.
Expired == polls > Timeout

Least(a, b) == IF a < b THEN a ELSE b

\* One turn of waitForRun(), the time between two turns included.
Poll ==
    /\ phase = "waiting" /\ store = "open"
    /\ IF run.status \in Settled THEN Exit(IF Passes THEN 0 ELSE 1) /\ UNCHANGED polls
       ELSE IF Expired THEN Exit(1) /\ UNCHANGED polls
       ELSE polls' = Least(polls + 1, Timeout + 1) /\ UNCHANGED <<phase, exit>>
    /\ UNCHANGED <<typed, configured, store, run, changes>>

Ended == phase = "exited" /\ UNCHANGED vars

Proceed ==
    \/ Reject \/ Report \/ OpenAndImport \/ Work
    \/ RunOnHost \/ Configure \/ RunOnLiveStack \/ NoStack \/ Poll

Next == Proceed \/ RunMoves \/ Ended

\* The command goes on by itself; the run need not.
Spec == Init /\ [][Next]_vars /\ WF_vars(Proceed)

-----------------------------------------------------------------------------
\* The exit code of `run --wait' tells how the run ended ("exit 1 when the run
\* failed", index.ts:1243), and no command but one that made a live stack exits
\* with a store it opened.
ExitTellsTheOutcome ==
    phase = "exited" =>
      /\ run # None /\ exit = 0 /\ "wait" \in Parsed.bools => run.status = "done"
      /\ typed.command # "run" => store # "open"

\* Whatever the order of its words, the run's scope lists every value written
\* for --target and --unit before the separator, in order, as the parsed values,
\* which keep the last one only, cannot tell (index.ts:1070-1074).
Written(name) ==
    LET before == {n \in DOMAIN typed.args : \A k \in 1..n : typed.args[k] # Separator}
        at == {n \in before : IsFlag(typed.args[n]) /\ typed.args[n].name = name}
        value(n) == IF typed.args[n].value # None THEN typed.args[n].value
                    ELSE IF TakesNext(typed.args, n) THEN typed.args[n + 1].text ELSE None
        nth(i) == CHOOSE n \in at : Cardinality({k \in at : k <= n}) = i
    IN  [i \in 1..Cardinality(at) |-> value(nth(i))]

ScopeIsAsWritten ==
    run # None => run.target = Written("target") /\ run.unit = Written("unit")

\* Every command comes to an end, also on a run that stays paused.
CommandsEnd == <>(phase = "exited")
=============================================================================
