-------------------------------- MODULE MCParts --------------------------------
(* The parts that work beside the control plane, each on a small instance of    *)
(* its own: a behaviour is one of AgentSessions, WorkflowStatus, RunPlan,       *)
(* Registration, SmellGate, Registry, DeltaLint, CommandLine, Candidates or     *)
(* SymbolTables, its subject.                                                   *)
EXTENDS AgentSessions, TLC

CONSTANTS Absent, Garbled, All, paced, free, r1, r2

\* Sessions: a model that is paced and one that is not.
MCInterval == paced :> 2 @@ free :> 0
MCLimit == r1 :> 6 @@ r2 :> 6

VARIABLES
    subject,
    rows, items, events, tx, call, read, touched, done,              \* WorkflowStatus
    candidates, recorded, workflow, scope, planPhase,                \* RunPlan
    offset, found, checked, before, changes,
    pipelines, fragments, routeTargets, added, threw, registrations, \* Registration
    main, branch, previous, edits,                                   \* SmellGate
    registry, file, command, started,                                \* Registry
    orig, text,                                                      \* DeltaLint
    typed, configured, phase, store, created, polls, moves, exit,    \* CommandLine
    source, object, session,                                         \* Candidates
    lines, table, steps                                              \* SymbolTables

statusVars == <<rows, items, events, tx, call, read, touched, done>>
planVars == <<candidates, recorded, workflow, scope, planPhase, offset, found, checked, before,
              changes>>
registrationVars == <<pipelines, fragments, routeTargets, added, threw, registrations>>
gateVars == <<main, branch, previous, edits>>
registryVars == <<registry, file, command, started>>
lintVars == <<orig, text>>
commandVars == <<typed, configured, phase, store, created, polls, moves, exit>>
candidateVars == <<source, object, session>>
symbolVars == <<lines, table, steps>>
partVars == <<statusVars, planVars, registrationVars, gateVars, registryVars, lintVars,
              commandVars, candidateVars, symbolVars>>
allVars == <<subject, vars, partVars>>

-----------------------------------------------------------------------------
\* Statuses: a target, its unit, and actions that promote, note or do neither.
Status == INSTANCE WorkflowStatus WITH
    Targets <- {"t1"}, Unit <- "t1" :> "u1", Statuses <- {"DRAFT", "DONE"}, Done <- "DONE",
    Actions <- {[promote |-> TRUE, status |-> None], [promote |-> FALSE, status |-> None],
                [promote |-> FALSE, status |-> "DRAFT"]},
    MaxWrites <- 1, MaxFinals <- 2, MaxReads <- 1

-----------------------------------------------------------------------------
\* Plans: five items of two units and two kinds.
PlanRow(unit, kind, status, attempts, meta) ==
    [unit |-> unit, kind |-> kind, status |-> status, attempts |-> attempts, meta |-> meta]
PlanTables ==
    { << PlanRow("u1", "function", "NOT_STARTED", 1, FALSE),
         PlanRow("u2", "function", "NOT_STARTED", 0, FALSE),
         PlanRow("u1", "function", "NOT_STARTED", 0, meta),
         PlanRow(None, "file", s, 1, TRUE),
         PlanRow("u1", "function", "NOT_STARTED", 0, TRUE) >>
      : meta \in BOOLEAN, s \in {"NOT_STARTED", "DONE"} }

Filter(ids, kind, unit, status, meta) ==
    [ids |-> ids, kind |-> kind, unit |-> unit, status |-> status, meta |-> meta,
     attempts |-> [min |-> 0, max |-> 1]]
Planned(filter, sort, limit, ladder) ==
    [accepts |-> "function", select |-> [filter |-> filter, sort |-> sort, limit |-> limit],
     statuses |-> ladder[1], doneStatuses |-> ladder[2], completionStatus |-> ladder[3]]
Defaults == <<None, None, None>>
Named == <<<<"STARTED", "DONE">>, None, None>>
Early == <<<<"STARTED", "DONE">>, {"STARTED"}, "DONE">>
Fresh == Filter(None, None, None, {"NOT_STARTED"}, TRUE)
Some == Filter({1, 4}, {"file"}, None, {"NOT_STARTED"}, FALSE)
PlanWorkflows ==
    { Planned(f, "id", 1, Defaults)
      : f \in {Fresh, Some, Filter(None, {"file", "function"}, {"u1"}, None, TRUE),
               Filter(None, None, None, None, TRUE)} }
    \cup { Planned(Fresh, "attempts", l, d) : l \in {None, 2}, d \in {Defaults, Named, Early} }
    \cup { Planned(Some, "id", None, Defaults) }

Plan == INSTANCE RunPlan WITH
    rows <- candidates, phase <- planPhase,
    Ids <- 1..5, Units <- {"u1", "u2"}, Kinds <- {"function", "file"},
    Statuses <- {"NOT_STARTED", "DONE"}, MaxAttempts <- 2, Tables <- PlanTables,
    Workflows <- PlanWorkflows,
    Scopes <- { [targets |-> t, units |-> None] : t \in {None, {2, 3}} }
              \cup { [targets |-> None, units |-> {"u2"}] },
    OVER_FETCH_FACTOR <- 2, MaxRecorded <- 1, MaxChanges <- 1

-----------------------------------------------------------------------------
\* Registrations: pipelines and fragments by hand, and compiled workflows, that
\* name each other and themselves.
Always == [below |-> None, status |-> None, min |-> None, max |-> None]
RouteTo(f) == [when |-> Always, to |-> f, model |-> None, max |-> None]
Each(body, targets) ==
    [kind |-> "foreach", from |-> None, batch |-> 1, keyed |-> FALSE, body |-> body,
     routes |-> [i \in DOMAIN targets |-> RouteTo(targets[i])], setup |-> FALSE,
     models |-> {}, caps |-> {}]
Registered(what, id, outer, inner) ==
    [what |-> what, id |-> id,
     scopes |-> (id :> <<Each("in", outer)>>) @@ ("in" :> <<Each("one", inner)>>)
                @@ ("one" :> <<[kind |-> "verify"]>>)]
Added(id, tools, routes) ==
    [id |-> id, tools |-> tools, routes |-> routes, canBatch |-> TRUE, defaultBatchSize |-> None,
     rejectionRetries |-> None, setup |-> None]

Routing == INSTANCE Registration WITH
    workflows <- added,
    Registrations <-
      { Registered("fragment", "a", <<"b">>, <<>>),
        Registered("fragment", "a", <<>>, <<"w#fragment1">>),
        Registered("fragment", "b", <<>>, <<"a">>), Registered("fragment", "b", <<"c">>, <<>>),
        Registered("fragment", "c", <<>>, <<>>),
        Registered("fragment", "c", <<"a", "w#fragment0">>, <<>>),
        Registered("fragment", "w#fragment0", <<"b">>, <<>>),
        Registered("pipeline", "w", <<"w#fragment0">>, <<"b">>),
        Registered("pipeline", "p", <<"a">>, <<"p">>) },
    Workflows <-
      { Added("w", {}, << [when |-> Always, model |-> None, maxAttempts |-> None],
                          [when |-> [Always EXCEPT !.below = 3], model |-> None,
                           maxAttempts |-> None] >>),
        Added("v", {"finish"}, <<>>), Added("w#fragment0", {}, <<>>) },
    MaxRegistrations <- 5

-----------------------------------------------------------------------------
\* Reports: two game units and one of the RVL, files with and without asm.
SmellLine(hits, asm, net, closes, inside) ==
    [hits |-> hits, asm |-> asm, net |-> net, closes |-> closes, inside |-> inside]
SmellyLine == SmellLine({"void"}, None, 0, FALSE, FALSE)
SmellFiles ==
    { <<>>, <<SmellyLine>>,
      << SmellLine({"asm_code", "void"}, "brace", 1, FALSE, TRUE),
         SmellLine({"void"}, None, 0, FALSE, TRUE), SmellLine({}, None, -1, TRUE, TRUE), SmellyLine >>,
      << SmellLine({"asm_code"}, "paren", 1, FALSE, TRUE),
         SmellLine({"void"}, None, -1, FALSE, TRUE), SmellyLine, SmellyLine >> }

Gate == INSTANCE SmellGate WITH
    Files <- SmellFiles, Root <- "u1" :> "game" @@ "u2" :> "game" @@ "r1" :> "rvl",
    Metrics <- {"void", "asm_code"}, NEW_METRIC_SEED <- {"asm_code"}, Paths <- {{"u1"}},
    MaxEdits <- 2

-----------------------------------------------------------------------------
\* The registry: targets and fixtures, snapshots that are torn or doubled.
Item(id, unit, life, status, meta) ==
    [id |-> id, unit |-> unit, lifecycle |-> life, status |-> status, meta |-> meta]
Targets == << Item(1, "u", "pending", "OPEN", "notes"), Item(2, None, "pending", "OPEN", "{}") >>

Items == INSTANCE Registry WITH
    db <- registry, Ids <- 1..3, LIFECYCLE_VOCAB <- {"pending", "accepted"},
    TERMINAL_STATUSES <- {"FULL_MATCH", "EQUIVALENT_MATCH", "NOT_FOUND"}, Targets <- Targets,
    Fixtures <- { << Item(3, "u", "odd", "FULL_MATCH", "{}") >>,
                  << Item(1, "u", "pending", "NOT_FOUND", "{}") >> },
    Snapshots <-
      LET calls == {[from |-> 1, to |-> 2, kind |-> "calls"]}
      IN  { [items |-> Targets, deps |-> calls,
             capabilities |-> {[item |-> 2, capability |-> "c"]}],
            [items |-> <<Targets[1]>>, deps |-> calls, capabilities |-> {}],
            [items |-> <<Targets[2], Targets[2]>>, deps |-> {}, capabilities |-> {}] },
    Commands <- {"c1", "c2"}, MaxCommands <- 4

-----------------------------------------------------------------------------
\* The lint: every file of up to three of four lines.
LintLine(code, comment) == [code |-> code, comment |-> comment]

Lint == INSTANCE DeltaLint WITH
    Lines <- { LintLine({"no_void_ptr"}, {}), LintLine({}, {"no_void_ptr", "no_codegen_macros"}),
               LintLine({"init_cast_open"}, {}), LintLine({"assign", ")"}, {}) },
    MaxLength <- 3, Language <- "cpp"

-----------------------------------------------------------------------------
\* Command lines: `run' with every order of its words, other commands with some.
Flagged(name) == [kind |-> "flag", name |-> name, value |-> None]
Valued(name, value) == [kind |-> "flag", name |-> name, value |-> value]
Worded(word) == [kind |-> "word", text |-> word]
RunWords == { Flagged("target"), Valued("target", "a"), Flagged("wait"), Flagged("unit"), Worded("a"),
              Worded("b"), [kind |-> "separator"] }
OtherWords == { Flagged("db"), Valued("target", "a"), Worded("selector"), Worded("registry"),
                Flagged("completeness"), Flagged("check") }
UpTo(n, words) == UNION {[1..k -> words] : k \in 0..n}
ModelFlag == Valued("model", "m")

Cli == INSTANCE CommandLine WITH
    run <- created, changes <- moves,
    CommandLines <-
      { [command |-> "run", args |-> <<ModelFlag>> \o a] : a \in UpTo(3, RunWords) }
      \cup { [command |-> "run", args |-> a] : a \in UpTo(2, RunWords \cup {ModelFlag}) }
      \cup { [command |-> c, args |-> a]
             : c \in {"status", "select", "export", "import", "analyze", "workflow set",
                      "workflow status", "report", "frob"},
               a \in UpTo(3, OtherWords) },
    Names <- {"target", "unit", "wait", "model", "db", "fixture", "out", "run", "reason", "base",
              "variant", "config", "budget", "models", "completeness", "check", "write", "json",
              "no-strict"},
    Selector <- "selector", Number <- "1", Registry <- "registry", Timeout <- 1, MaxChanges <- 4

-----------------------------------------------------------------------------
\* Candidates: three functions of one unit, one of them extern "C".
Definition(name, body, extern) ==
    [kind |-> "definition", name |-> name, body |-> body, extern |-> extern]
Submitted(name, mentions, body, extern) ==
    [kind |-> "definition", name |-> name, mentions |-> mentions, body |-> body, extern |-> extern]
Functions == {"f", "g__Fv", "h"}

Splicing == INSTANCE Candidates WITH
    Runs <- {"r1", "r2"}, Targets <- "r1" :> <<"f", "g__Fv">> @@ "r2" :> <<"h">>,
    Unit <- [s \in Functions |-> "u"], Stem <- [s \in Functions |-> IF s = "g__Fv" THEN "g" ELSE s],
    Sources <- "u" :> << Definition("f", "stub", FALSE), Definition("g", "stub", FALSE),
                         Definition("h", "stub", TRUE),
                         [kind |-> "declaration", name |-> "h", body |-> "stub", extern |-> FALSE] >>,
    Replies <- { Submitted("g", {"g", "g__Fv"}, "equivalent", FALSE),
                 Submitted("h", {"h"}, "broken", FALSE), Submitted("h", {"h"}, "match", FALSE) },
    MaxTurns <- 2, MaxEdits <- 1

-----------------------------------------------------------------------------
\* Symbols: declarations, blocks and definitions; free, member and sloppy names.
Name(base, at, in, spelled, rest) ==
    [base |-> base, at |-> at, scope |-> in, spelled |-> spelled, rest |-> rest]
Free(base, at) == Name(base, at, <<>>, "exact", <<>>)
Blank == [blank |-> TRUE, ext |-> FALSE, opener |-> FALSE, column0 |-> TRUE, braces |-> 0,
          brace |-> FALSE, closes |-> FALSE, semi |-> FALSE, comma |-> FALSE, plain |-> TRUE,
          name |-> None, cast |-> None, param |-> None, mentions |-> {}]
Text == [Blank EXCEPT !.blank = FALSE]
Declares(n) == [Text EXCEPT !.ext = TRUE, !.semi = TRUE, !.name = n]
Row(name, address) == [name |-> name, address |-> address]

Symbols == INSTANCE SymbolTables WITH
    source <- lines, Classes <- {"CGame"}, MaxLines <- 4, MaxSteps <- 2,
    Lines <-
      { Blank, Declares(Free("func", 2)),
        Declares(Name("reset", None, <<"cf", "CGame">>, "exact", <<"v">>)),
        Declares(Name("memcpy", None, <<>>, "exact", <<"jp">>)),
        [Text EXCEPT !.ext = TRUE, !.comma = TRUE],
        [Text EXCEPT !.column0 = FALSE, !.semi = TRUE, !.name = Free("run", None),
                     !.mentions = {Free("start", None)}],
        [Text EXCEPT !.ext = TRUE, !.opener = TRUE, !.braces = 1, !.brace = TRUE],
        [Text EXCEPT !.semi = TRUE, !.name = Free("func", 3)],
        [Text EXCEPT !.closes = TRUE, !.braces = -1],
        [Text EXCEPT !.ext = TRUE, !.brace = TRUE, !.braces = 1, !.name = Free("start", None)],
        [Text EXCEPT !.column0 = FALSE, !.semi = TRUE, !.cast = "CGame"] },
    Tables <-
      { << Row(Name("__ct", None, <<"CGame">>, "bare", <<>>), 1),
           Row(Name("update", None, <<"cf", "CGame">>, "exact", <<"v">>), 2),
           Row(Free("lbl", 2), 2), Row(Free("memcpy", None), 4) >>,
        << Row(Name("func", 2, <<"CGame">>, "long", <<"v">>), 2), Row(Free("func", 3), 4),
           Row(Free("lbl", 3), 3) >> },
    RelocNames <- << Name("reset", None, <<"CGame">>, "exact", <<"v">>),
                     Name("run", None, <<"CWork">>, "exact", <<"Ul">>) >>

-----------------------------------------------------------------------------
(* One subject at a time.                                                      *)

NoStatus == rows = None /\ items = None /\ events = None /\ tx = None /\ call = None
            /\ read = None /\ touched = None /\ done = None
NoPlan == candidates = None /\ recorded = None /\ workflow = None /\ scope = None
          /\ planPhase = None /\ offset = None /\ found = None /\ checked = None
          /\ before = None /\ changes = None
NoRegistration == pipelines = None /\ fragments = None /\ routeTargets = None /\ added = None
                  /\ threw = None /\ registrations = None
NoGate == main = None /\ branch = None /\ previous = None /\ edits = None
NoRegistry == registry = None /\ file = None /\ command = None /\ started = None
NoLint == orig = None /\ text = None
NoCommand == typed = None /\ configured = None /\ phase = None /\ store = None
             /\ created = None /\ polls = None /\ moves = None /\ exit = None
NoCandidates == source = None /\ object = None /\ session = None
NoSymbols == lines = None /\ table = None /\ steps = None

\* The sessions' variables are where they start when they are not the subject.
MCInit ==
    /\ Init
    /\ subject \in {"sessions", "status", "plan", "routing", "gate", "registry", "lint",
                    "command", "splicing", "symbols"}
    /\ IF subject = "status" THEN Status!Init ELSE NoStatus
    /\ IF subject = "plan" THEN Plan!Init ELSE NoPlan
    /\ IF subject = "routing" THEN Routing!Init ELSE NoRegistration
    /\ IF subject = "gate" THEN Gate!Init ELSE NoGate
    /\ IF subject = "registry" THEN Items!Init ELSE NoRegistry
    /\ IF subject = "lint" THEN Lint!Init ELSE NoLint
    /\ IF subject = "command" THEN Cli!Init ELSE NoCommand
    /\ IF subject = "splicing" THEN Splicing!Init ELSE NoCandidates
    /\ IF subject = "symbols" THEN Symbols!Init ELSE NoSymbols

\* What a step of each part leaves alone.
StatusStep == UNCHANGED <<subject, vars, planVars, registrationVars, gateVars, registryVars,
                          lintVars, commandVars, candidateVars, symbolVars>>
PlanStep == UNCHANGED <<subject, vars, statusVars, registrationVars, gateVars, registryVars,
                        lintVars, commandVars, candidateVars, symbolVars>>
RoutingStep == UNCHANGED <<subject, vars, statusVars, planVars, gateVars, registryVars,
                           lintVars, commandVars, candidateVars, symbolVars>>
GateStep == UNCHANGED <<subject, vars, statusVars, planVars, registrationVars, registryVars,
                        lintVars, commandVars, candidateVars, symbolVars>>
RegistryStep == UNCHANGED <<subject, vars, statusVars, planVars, registrationVars, gateVars,
                            lintVars, commandVars, candidateVars, symbolVars>>
LintStep == UNCHANGED <<subject, vars, statusVars, planVars, registrationVars, gateVars,
                        registryVars, commandVars, candidateVars, symbolVars>>
CommandStep == UNCHANGED <<subject, vars, statusVars, planVars, registrationVars, gateVars,
                           registryVars, lintVars, candidateVars, symbolVars>>
SplicingStep == UNCHANGED <<subject, vars, statusVars, planVars, registrationVars, gateVars,
                            registryVars, lintVars, commandVars, symbolVars>>
SymbolStep == UNCHANGED <<subject, vars, statusVars, planVars, registrationVars, gateVars,
                          registryVars, lintVars, commandVars, candidateVars>>

MCNext ==
    \/ subject = "sessions" /\ Next /\ UNCHANGED <<subject, partVars>>
    \/ subject = "status" /\ Status!Next /\ StatusStep
    \/ subject = "plan" /\ Plan!Next /\ PlanStep
    \/ subject = "routing" /\ Routing!Next /\ RoutingStep
    \/ subject = "gate" /\ Gate!Next /\ GateStep
    \/ subject = "registry" /\ Items!Next /\ RegistryStep
    \/ subject = "lint" /\ Lint!Next /\ LintStep
    \/ subject = "command" /\ Cli!Next /\ CommandStep
    \/ subject = "splicing" /\ Splicing!Next /\ SplicingStep
    \/ subject = "symbols" /\ Symbols!Next /\ SymbolStep

\* A command goes on by itself.
MCFairness == WF_allVars(subject = "command" /\ Cli!Proceed /\ CommandStep)

MCSpec == MCInit /\ [][MCNext]_allVars
MCFairSpec == MCSpec /\ MCFairness

-----------------------------------------------------------------------------
\* Every command exits, also one that waits for a run that stays paused
\* (live.ts:123-142).
EveryCommandExits == subject = "command" ~> subject = "command" /\ phase = "exited"

\* A plan holds the targets its selector asks for: pages neither drop nor repeat
\* a match (selector.ts:12-15), targets are left out exactly if done
\* (compile.ts:350-369); and a target's own status row decides what is done,
\* the row, the item and the event of a finalization agreeing, although settings,
\* resets and rollbacks come between (status.ts:14-16, daemon.ts:197-201).
TargetsAreChosenExactly ==
    /\ subject = "plan" => Plan!SelectionIsExact /\ Plan!OpenTargetsArePlanned
    /\ subject = "status" => Status!PreciseRowDecides /\ Status!RowItemAndEventAgree

\* Every edge, capability and claim is of items that are there (registry.ts:181-185),
\* the two completeness tables agree, and routes that may be followed have no
\* cycle and lead to fragments that are there (engine.ts:383).
RegistriesAreSound ==
    /\ subject = "registry" => Items!EdgesNameItems /\ Items!CountsAgree
    /\ subject = "routing" => Routing!RoutesAreSound

\* What linters look at is what the file holds: the diff is minimal and finds the
\* assignment in an added cast (delta.ts:26-27, 170-173), the RVL report leaves
\* out asm bodies and nothing else (registry.ts:278-283), and the scanner finds
\* declarations, in blocks or not (scanner.ts:170-176).
LintIsExact ==
    /\ subject = "lint" => Lint!DiffIsMinimal /\ Lint!CastAssignmentsAreFound
    /\ subject = "gate" => Gate!RvlCountsOutsideAsm
    /\ subject = "symbols" => Symbols!DeclarationsAreFound

\* A command does what was typed: the scope has every value written for it, in
\* order, the exit code of `run --wait' tells how the run ended, and a command
\* leaves no store open (cli/index.ts:1070-1074, 1243).
CommandsDoAsTold ==
    subject = "command" => Cli!ExitTellsTheOutcome /\ Cli!ScopeIsAsWritten

\* An accepted function keeps a definition that compiles to what retail has,
\* whatever the sessions of its unit submit, break and build (basic-match.ts:174-175).
AcceptedStaysMatched == subject = "splicing" => Splicing!AcceptedStaysMatched

\* Gates hold: no merge makes a unit smell more (parse/cpp/registry.ts:535-537),
\* and no snapshot admits a line that a rule forbids (delta.ts).
GatesHold ==
    [][ /\ subject = "gate" => Gate!MergeIsNoRegression
        /\ subject = "lint" => Lint!NoHitIsAdmitted ]_allVars

\* What tools rewrite is as it was told: a snapshot restores the registry it was
\* taken from (target/registry.ts:9-13), a splice touches one definition of a
\* target in play (workflow.ts:553-562), and a finding that is followed is gone
\* (extc.ts:4-8, 83-86).
RewritesAreFaithful ==
    [][ /\ subject = "registry" => Items!RestoresOrigin
        /\ subject = "splicing" => Splicing!SpliceIsLocal
        /\ subject = "symbols" => Symbols!FindingSettles ]_allVars

-----------------------------------------------------------------------------
\* "The result matches the selector's filters and the scope" (scope.ts:23-24).
ScopeIsRespected == subject = "plan" => Plan!ScopeIsRespected
=============================================================================
