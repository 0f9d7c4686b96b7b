------------------------------ MODULE SmellGate ------------------------------
(***************************************************************************)
(* The report gate of `decompi report' (cli/index.ts, parse/cpp/           *)
(* registry.ts): --write scans the tree into docs/smells.md, and --check   *)
(* passes when that report is what a fresh scan would write and no metric  *)
(* of a translation unit grew against the report of the base branch.       *)
(*                                                                         *)
(* Developers edit units, regenerate the report of all roots or of some    *)
(* paths, or garble it; a branch is merged when its check passes (git and  *)
(* the CI around the gate are external).  A file is a sequence of lines; a *)
(* line keeps which metrics the rules find on it and what the asm-body     *)
(* scanner sees of it.  The report keeps its baseline, which is a function *)
(* of the scan and determines it, wording and table are left out.          *)
(*                                                                         *)
(* An operator named X_Bug is X with a plausible programming error; it is  *)
(* used only to confirm that the properties below notice the error.        *)
(***************************************************************************)
EXTENDS Integers, Sequences, FiniteSets

CONSTANTS
    Files,           \* files a unit may be: sequences of lines
    Root,            \* the root a unit is under: "game" or "rvl"
    Metrics,         \* SMELL_METRICS, "asm_code" among them
    NEW_METRIC_SEED, \* metrics a baseline always lists
    Paths,           \* what may be given to --write: sets of units
    Absent, None, Garbled,
    MaxEdits         \* bound: edits, rewrites of the report included

VARIABLES
    main,     \* tree and reports of the base branch
    branch,   \* those of the branch in work
    previous, \* the game report of the branch's last commit (HEAD~1)
    edits

vars == <<main, branch, previous, edits>>

Units == DOMAIN Root
Variants == {"game", "rvl"}

-----------------------------------------------------------------------------
(* The scan.                                                               *)

\* asmBodyLines(): an entry line opens a body, counted in braces or in parens;
\* the lines up to and including the closing one are the body.
AsmLines(file) ==
    LET scan[n \in 0..Len(file)] ==
          IF n = 0 THEN [in |-> FALSE, mode |-> "brace", depth |-> 0, entry |-> {}, body |-> {}]
          ELSE LET s == scan[n - 1]
                   line == file[n]
                   depth == s.depth + line.net
               IN  IF s.in
                   THEN [s EXCEPT !.depth = depth, !.body = @ \cup {n},
                                  !.in = IF s.mode = "brace" THEN ~line.closes /\ depth >= 0
                                         ELSE depth > 0]
                   ELSE IF line.asm = None THEN s
                   ELSE [s EXCEPT !.in = TRUE, !.mode = line.asm, !.depth = line.net,
                                  !.entry = @ \cup {n}]
    IN  scan[Len(file)]

Counted_WholeBody(file, n, m, rvl) == rvl => n \notin AsmLines(file).body

\* The RVL variant drops bodies from every metric, entry lines from all but one.
Counted(file, n, m, rvl) ==
    rvl => /\ n \notin AsmLines(file).body
           /\ m = "asm_code" \/ n \notin AsmLines(file).entry

MetricsOf(file, rvl) ==
    [m \in Metrics |-> Cardinality({n \in DOMAIN file : m \in file[n].hits /\ Counted(file, n, m, rvl)})]

\* scanUnits(): the units at the given paths that are there.
ScanUnits(tree, paths, variant) ==
    [u \in {v \in paths : tree[v] # Absent} |-> MetricsOf(tree[u], variant = "rvl")]

\* baselineJson(): metrics that are not zero, and the seeded ones.
Listed(metrics) == {m \in Metrics : metrics[m] > 0} \cup NEW_METRIC_SEED

RenderSmellReport(rows) ==
    [u \in DOMAIN rows |-> [m \in Listed(rows[u]) |-> rows[u][m]]]

DefaultRoots(variant) == {u \in Units : Root[u] = variant}

Regenerated(tree, variant) == RenderSmellReport(ScanUnits(tree, DefaultRoots(variant), variant))

-----------------------------------------------------------------------------
(* The check.                                                              *)

\* extractBaseline(): of a report that is not one, nothing.
ExtractBaseline(report) == IF report = Garbled THEN << >> ELSE report

\* baseReportText(): origin/main, else HEAD~1.
BaseReport == IF main.report["game"] # None THEN main.report["game"] ELSE previous

Fresh_AnyReport(tree, report) == report # None

Fresh(tree, report) == report = Regenerated(tree, "game")

Before(base, u, m) == IF m \in DOMAIN base[u] THEN base[u][m] ELSE 0

Established(base) == UNION {DOMAIN base[u] : u \in DOMAIN base}

\* Units the base does not have are exempt, as are those that are gone.
Regressions(base, rows) ==
    {<<u, m>> \in (DOMAIN base \cap DOMAIN rows) \X Established(base) :
       rows[u][m] > Before(base, u, m)}

\* checkSmellReport(), strict.
CheckPasses ==
    /\ Fresh(branch.tree, branch.report["game"])
    /\ BaseReport # None =>
         Regressions(ExtractBaseline(BaseReport),
                     ScanUnits(branch.tree, DefaultRoots("game"), "game")) = {}

-----------------------------------------------------------------------------
\* The gate is new to the project, or its report is committed.
Init ==
    /\ \E tree \in [Units -> Files \cup {Absent}], adopted \in BOOLEAN :
         main = [tree |-> tree,
                 report |-> [v \in Variants |-> IF adopted THEN Regenerated(tree, v) ELSE None]]
    /\ branch = main
    /\ previous = main.report["game"]
    /\ edits = 0

Edited == edits < MaxEdits /\ edits' = edits + 1 /\ UNCHANGED main

\* A developer edits, adds or removes a unit.
Edit(u, file) ==
    /\ Edited
    /\ branch' = [branch EXCEPT !.tree[u] = file]
    /\ UNCHANGED previous

\* runReportGate() with --write, and the commit of what it wrote.
WriteReport(variant, paths) ==
    /\ Edited
    /\ previous' = branch.report["game"]
    /\ branch' = [branch EXCEPT !.report[variant] =
                    RenderSmellReport(ScanUnits(branch.tree, paths, variant))]

\* The report is edited by hand, or badly merged.
Garble ==
    /\ Edited
    /\ branch' = [branch EXCEPT !.report["game"] = Garbled]
    /\ UNCHANGED previous

\* A branch whose check passes is merged; work goes on from there.
Merge ==
    /\ branch # main
    /\ CheckPasses
    /\ main' = branch
    /\ UNCHANGED <<branch, previous, edits>>

\* The branch is given up.
Abandon ==
    /\ branch # main
    /\ branch' = main /\ previous' = main.report["game"]
    /\ UNCHANGED <<main, edits>>

Next ==
    \/ \E u \in Units, f \in Files \cup {Absent} : Edit(u, f)
    \/ \E v \in Variants, p \in Paths \cup {DefaultRoots("game"), DefaultRoots("rvl")} : WriteReport(v, p)
    \/ Garble \/ Merge \/ Abandon

Spec == Init /\ [][Next]_vars

-----------------------------------------------------------------------------
Smells(tree, u, m) == MetricsOf(tree[u], FALSE)[m]

Tracked(tree, m) ==
    \/ m \in NEW_METRIC_SEED
    \/ \E u \in DefaultRoots("game") : tree[u] # Absent /\ Smells(tree, u, m) > 0

\* "Per-TU metrics must not increase vs the baseline committed on the base
\* branch" (registry.ts:535-537): once the report is adopted no merge makes a
\* unit of the tree worse in a metric the project tracks, although reports may be
\* partial, stale or garbled on the way; what is compared are trees, not reports.
MergeIsNoRegression ==
    (main' # main /\ main.report["game"] # None) =>
      \A u \in DefaultRoots("game"), m \in Metrics :
        (main.tree[u] # Absent /\ main'.tree[u] # Absent /\ Tracked(main.tree, m))
          => Smells(main'.tree, u, m) <= Smells(main.tree, u, m)

MergesNeverRegress == [][MergeIsNoRegression]_vars

\* The RVL report counts no line of an asm body, and every line after it, when
\* each body spans lines (registry.ts:278-283).
RvlCountsOutsideAsm ==
    \A u \in DOMAIN Root :
      (branch.tree[u] # Absent /\ \A n \in DOMAIN branch.tree[u] : branch.tree[u][n].asm # None => branch.tree[u][n].net > 0)
        => \A m \in Metrics \ {"asm_code"} :
             MetricsOf(branch.tree[u], TRUE)[m] =
               Cardinality({n \in DOMAIN branch.tree[u] :
                  m \in branch.tree[u][n].hits /\ ~branch.tree[u][n].inside})
=============================================================================
