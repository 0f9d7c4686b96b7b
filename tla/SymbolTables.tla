----------------------------- MODULE SymbolTables -----------------------------
(***************************************************************************)
(* The extern "C" hygiene of src/parse/symbols: declarations found in a    *)
(* source file (scanner.ts), classified against the retail symbols         *)
(* (table.ts, extc.ts), and the plan that makes them members of a class,   *)
(* as a developer follows both.                                            *)
(*                                                                         *)
(* A name is its base, the retail address after it, the class encoding     *)
(* behind its last `__' with its spelling, and what follows: parameters,   *)
(* a region.  A line of source is what the scanner tells lines apart by.   *)
(* There is one file; reasons, snippets and instructions are left out.     *)
(*                                                                         *)
(* An operator named X_Bug is X with a plausible programming error; it is  *)
(* used only to confirm that the properties below notice the error.        *)
(***************************************************************************)
EXTENDS Integers, Sequences, FiniteSets, SequencesExt

CONSTANTS
    Lines,       \* lines a file may have
    Tables,      \* symbols.txt: sequences of names with addresses
    RelocNames,  \* names of the reloc map, a sequence
    Classes,     \* class tokens
    MaxLines,    \* bound
    MaxSteps,    \* bound: findings and plans that are followed
    None

VARIABLES source, table, steps

vars == <<source, table, steps>>

-----------------------------------------------------------------------------
(* Names.                                                                  *)

Parts(n) ==
    << <<"base", n.base>> >>
    \o (IF n.at = None THEN <<>> ELSE << <<"at", n.at>> >>)
    \o (IF n.scope = <<>> THEN <<>> ELSE << <<"scope", n.scope, n.spelled>> >>)
    \o [k \in DOMAIN n.rest |-> <<"rest", n.rest[k]>>]

\* startsWith(), of a longer name.
Extends(longer, shorter) == longer # shorter /\ IsPrefix(Parts(shorter), Parts(longer))

\* embeddedAddresses(): the address must end the name, or a word at least.
EmbeddedAddresses(n) == IF n.at # None /\ n.scope = <<>> /\ n.rest = <<>> THEN {n.at} ELSE {}

\* What follows the last `__'.
QualifierTail(n) == <<n.scope, n.spelled, n.rest>>

\* extractClassInfo() over parseMangled(): a declared length that overruns is cut
\* at the signature's F; a constructor without length and parameters counts; any
\* other member needs a length.  None for free names.
ClassInfo(n) ==
    IF n.scope = <<>> \/ (n.spelled = "bare" /\ n.base \notin {"__ct", "__dt"})
         \/ (n.spelled = "long" /\ n.rest = <<>>)
    THEN None
    ELSE [class |-> Last(n.scope), path |-> IF Len(n.scope) = 1 THEN <<>> ELSE n.scope,
          params |-> n.rest]

ClassEncoding_Appends(class, path) == IF path = <<>> THEN <<class>> ELSE Append(path, class)

\* classEncoding(): the path of a scoped class may end with the class already.
ClassEncoding(class, path) ==
    IF path = <<>> THEN <<class>> ELSE IF Last(path) = class THEN path ELSE Append(path, class)

\* mangleMember(), and for the base of a constructor mangleCtor().
Mangle(base, at, class, path, params) ==
    [base |-> base, at |-> at, scope |-> ClassEncoding(class, path), spelled |-> "exact",
     rest |-> params]

Special(n) == n.base \in {"__ct", "__dt"}

\* canonicalTargetFor(): None when the name is canonical, or takes parameters.
CanonicalTarget(n) ==
    LET ci == ClassInfo(n)
        canonical == Mangle(n.base, IF Special(n) THEN None ELSE n.at, ci.class, ci.path,
                            IF ci.params = <<>> THEN <<"v">> ELSE ci.params)
    IN  IF (~Special(n) /\ (n.rest = <<>> \/ Head(n.rest) # "v")) \/ canonical = n
        THEN None ELSE canonical

-----------------------------------------------------------------------------
(* The symbol table.                                                       *)

\* byAddress: all names of an address, in file order.
Occupants(address) ==
    LET here == SelectSeq(table, LAMBDA row : row.address = address)
    IN  [k \in DOMAIN here |-> here[k].name]

TableNames == {row.name : row \in ToSet(table)}

\* mergedNames(): symbols.txt in file order, then the reloc map.
MergedNames ==
    [k \in DOMAIN table |-> table[k].name] \o SelectSeq(RelocNames, LAMBDA n : n \notin TableNames)

IsRetail_TableOnly(n) == n \in TableNames

IsRetail(n) == n \in TableNames \/ n \in ToSet(RelocNames)

\* The occupants of the addresses in a name, unless the name is one of them.
Displaced(n) ==
    LET at == {a \in EmbeddedAddresses(n) : Occupants(a) # <<>> /\ n \notin ToSet(Occupants(a))}
    IN  IF at = {} THEN None ELSE Head(Occupants(CHOOSE a \in at : TRUE))

First(test(_)) ==
    LET hits == SelectSeq(MergedNames, test)
    IN  IF hits = <<>> THEN None ELSE Head(hits)

\* classifyDrift(): the first rule that finds a name.
Drift(n) ==
    LET rules == << Displaced(n),
                    First(LAMBDA rn : Extends(rn, n)),
                    First(LAMBDA rn : Extends(n, rn)),
                    First(LAMBDA rn : n.scope # <<>> /\ QualifierTail(rn) = QualifierTail(n)) >>
        found == SelectSeq(rules, LAMBDA r : r # None)
    IN  IF found = <<>> THEN None ELSE Head(found)

\* classifyExternC(), with the name it resolves to.
Classify(n) ==
    IF n = None THEN [category |-> "unparsed", resolved |-> None]
    ELSE IF IsRetail(n)
    THEN [category |-> IF Displaced(n) # None THEN "jp_stale" ELSE "exact", resolved |-> Displaced(n)]
    ELSE [category |-> IF Drift(n) # None THEN "drift" ELSE "invented", resolved |-> Drift(n)]

-----------------------------------------------------------------------------
(* The scanner.                                                            *)

Sum(parts) == FoldLeft(LAMBDA n, k : n + source[k].braces, 0, parts)

NameAt(parts) == SelectSeq(parts, LAMBDA k : source[k].name # None)

\* nameFrom(), of the text of these lines.
NameFrom(parts) == IF NameAt(parts) = <<>> THEN None ELSE source[Head(NameAt(parts))].name

\* logicalLine(): the lines of a statement, and the last one that was looked at.
\* A line at column 0 is not part of it, but it was looked at.
RECURSIVE LogicalLine(_, _, _)
LogicalLine(i, j, parts) ==
    LET last == source[Last(parts)]
    IN  IF last.semi \/ Sum(parts) > 0 \/ j - i >= 8 THEN [parts |-> parts, end |-> j]
        ELSE IF j = Len(source) THEN [parts |-> parts, end |-> j + 1]
        ELSE IF source[j + 1].blank THEN LogicalLine(i, j + 1, parts)
        ELSE IF source[j + 1].column0 /\ ~last.comma THEN [parts |-> parts, end |-> j + 1]
        ELSE LogicalLine(i, j + 1, Append(parts, j + 1))

BlockEnds_AtZero(depth) == depth <= 0

BlockEnds(depth) == depth < 0

\* The body of an extern "C" { block from line j on; inside of definitions
\* nothing counts, and a statement goes on until a line that ends with `;'.
RECURSIVE Block(_, _, _, _)
Block(j, depth, pending, entries) ==
    IF j > Len(source) THEN [entries |-> entries, end |-> j]
    ELSE
      LET line == source[j]
          inner == depth + line.braces
      IN  IF BlockEnds(inner) THEN [entries |-> entries, end |-> j]
          ELSE IF inner # 0 \/ (pending = <<>> /\ (line.blank \/ line.closes \/ line.brace \/ ~line.plain))
          THEN Block(j + 1, inner, pending, entries)
          ELSE IF line.semi
          THEN Block(j + 1, inner, <<>>, Append(entries, Append(pending, j)))
          ELSE Block(j + 1, inner, Append(pending, j), entries)

\* extractEntries() from line i on: the lines of each declaration.
RECURSIVE EntriesFrom(_)
EntriesFrom(i) ==
    IF i > Len(source) THEN <<>>
    ELSE IF ~source[i].ext THEN EntriesFrom(i + 1)
    ELSE IF source[i].opener
    THEN LET block == Block(i + 1, 0, <<>>, <<>>) IN block.entries \o EntriesFrom(block.end + 1)
    ELSE LET s == LogicalLine(i, i, <<i>>)
         IN  (IF (\E k \in ToSet(s.parts) : source[k].brace) \/ ~source[Last(s.parts)].semi
              THEN <<>> ELSE << s.parts >>) \o EntriesFrom(s.end + 1)

ExtractEntries == EntriesFrom(1)

RECURSIVE BodyEnd(_, _)
BodyEnd(j, depth) ==
    IF depth <= 0 \/ j = Len(source) THEN j ELSE BodyEnd(j + 1, depth + source[j + 1].braces)

\* externCDefsWithBodies() from line i on: first and last lines.
RECURSIVE DefsFrom(_)
DefsFrom(i) ==
    IF i > Len(source) THEN {}
    ELSE IF ~source[i].ext \/ source[i].opener \/ ~source[i].brace THEN DefsFrom(i + 1)
    ELSE LET end == BodyEnd(i, source[i].braces)
         IN  (IF source[i].name = None THEN {} ELSE {<<i, end>>}) \cup DefsFrom(end + 1)

-----------------------------------------------------------------------------
(* The plan for a class.                                                   *)

Casts(d) == SelectSeq([k \in 1..(d[2] - d[1] + 1) |-> source[d[1] + k - 1].cast], LAMBDA c : c # None)

\* The definitions that cast self to the class, or take it first.
DefHits(class) ==
    {d \in DefsFrom(1) : (Casts(d) # <<>> /\ Head(Casts(d)) = class) \/ source[d[1]].param = class}

\* Declarations that name the class and are not invented.
DeclHits(class) ==
    {e \in ToSet(ExtractEntries) :
       LET n == NameFrom(e)
       IN  n # None /\ class \in ToSet(n.scope) /\ Classify(n).category # "invented"}

\* scanCallSites(): lines with a planned name that are not hits themselves.
CallSites(class) ==
    LET hits == {d[1] : d \in DefHits(class)} \cup {Head(e) : e \in DeclHits(class)}
    IN  {k \in DOMAIN source : k \notin hits
           /\ \E d \in DefHits(class) : source[d[1]].name \in source[k].mentions \cup {source[k].name}}

\* The entries of symbols.txt that a plan renames.
Renames(class) ==
    {k \in DOMAIN table :
       LET n == table[k].name
       IN  ClassInfo(n) # None /\ ClassInfo(n).class = class /\ CanonicalTarget(n) # None}

-----------------------------------------------------------------------------
Init == source = <<>> /\ table \in Tables /\ steps = 0

\* The file ends in the body of a function.
InBody ==
    \E i \in DOMAIN source :
      source[i].brace /\ ~source[i].opener /\ Sum([k \in 1..(Len(source) - i + 1) |-> i + k - 1]) > 0

\* A linkage specification is no statement of a function's body.
Write(line) ==
    /\ Len(source) < MaxLines
    /\ line.ext => ~InBody
    /\ source' = Append(source, line)
    /\ UNCHANGED <<table, steps>>

\* A declaration is given the name that `extc' says is meant.
Follow(entry) ==
    /\ steps < MaxSteps
    /\ NameFrom(entry) # None /\ Classify(NameFrom(entry)).resolved # None
    /\ source' = [source EXCEPT ![Head(NameAt(entry))].name = Classify(NameFrom(entry)).resolved]
    /\ steps' = steps + 1
    /\ UNCHANGED table

\* The ceremony of planMemberConversion(): definitions become members, their
\* callers call members, and symbols.txt gets the names the compiler emits.
Convert(class) ==
    /\ steps < MaxSteps
    /\ DefHits(class) # {} \/ Renames(class) # {}
    /\ table' = [k \in DOMAIN table |->
                   IF k \in Renames(class) THEN [table[k] EXCEPT !.name = CanonicalTarget(@)]
                   ELSE table[k]]
    /\ source' = [k \in DOMAIN source |->
                    IF \E d \in DefHits(class) : d[1] = k THEN [source[k] EXCEPT !.ext = FALSE]
                    ELSE IF k \in CallSites(class) THEN [source[k] EXCEPT !.mentions = {}]
                    ELSE source[k]]
    /\ steps' = steps + 1

Next ==
    \/ \E line \in Lines : Write(line)
    \/ \E entry \in ToSet(ExtractEntries) : Follow(entry)
    \/ \E class \in Classes : Convert(class)

Spec == Init /\ [][Next]_vars

-----------------------------------------------------------------------------
\* Blocks that are open before line k.
Level(k) == FoldLeft(LAMBDA n, l : IF l.opener THEN n + 1 ELSE IF l.closes /\ n > 0 THEN n - 1 ELSE n,
                     0, SubSeq(source, 1, k - 1))

Settled(l) == l.blank \/ l.semi \/ l.opener \/ l.closes
Whole(l) == l.semi /\ ~l.brace /\ l.plain

\* Where no statement was left open before it, a declaration of one line, alone
\* or in an extern "C" block, is one entry of the scan, and after a block only
\* what says extern "C" is one (scanner.ts:170-176); entries do not overlap.
DeclarationsAreFound ==
    LET entries == ExtractEntries
    IN  /\ \A a, b \in DOMAIN entries : a < b => Last(entries[a]) < Head(entries[b])
        /\ \A k \in DOMAIN source :
             (\A j \in 1..(k - 1) : Settled(source[j])) /\ Whole(source[k]) =>
               /\ Level(k) = 0 => (source[k].ext <=> <<k>> \in ToSet(entries))
               /\ Level(k) = 1 => <<k>> \in ToSet(entries)

\* Findings settle: a declaration renamed as it was told is retail, and not told
\* to drift to another name; and a class converted as planned has nothing left
\* to rename, or to convert (extc.ts:4-8, 83-86).
FindingSettles ==
    /\ \A entry \in ToSet(ExtractEntries) :
         (table' = table /\ NameFrom(entry)' # NameFrom(entry)) =>
           Classify(NameFrom(entry)').category \in {"exact", "jp_stale"}
    /\ \A class \in Classes : Convert(class) => Renames(class)' = {} /\ DefHits(class)' = {}

FindingsSettle == [][FindingSettles]_vars
===============================================================================
