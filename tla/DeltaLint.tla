------------------------------ MODULE DeltaLint ------------------------------
(***************************************************************************)
(* The added-lines gate of `decompi lint --delta' (parse/cpp/delta.ts): a  *)
(* file is compared with its `.orig' snapshot by a Myers diff over the     *)
(* part that the common prefix and suffix leave, and the rules run over    *)
(* the added lines, one after the other, with one bit of state.            *)
(*                                                                         *)
(* A developer edits the file; the snapshot is taken anew when the gate    *)
(* found nothing (the tool that writes it is external).  A line is the     *)
(* patterns its text matches, split in what is before and after the first  *)
(* `//'; a pattern is named by the rule it alone decides, where there is   *)
(* one.                                                                    *)
(*                                                                         *)
(* An operator named X_Bug is X with a plausible programming error; it is  *)
(* used only to confirm that the properties below notice the error.        *)
(***************************************************************************)
EXTENDS Integers, Sequences, FiniteSets

CONSTANTS
    Lines,     \* records [code, comment] of sets of patterns
    MaxLength, \* bound: lines of a file
    Language,  \* of the path: "c", "cpp" or "other"
    None

VARIABLES
    orig, \* the snapshot, None when there is no such file
    text

vars == <<orig, text>>

Texts == UNION {[1..n -> Lines] : n \in 0..MaxLength}

-----------------------------------------------------------------------------
(* The diff.                                                               *)

Least(S) == CHOOSE i \in S : \A j \in S : i <= j

Greatest(S) == CHOOSE i \in S : \A j \in S : j <= i

Size(old, new) == Len(old) + Len(new)

\* The move into diagonal k at step d is an insertion, given the reach v.
Inserts(v, d, k) == k = -d \/ (k # d /\ v[k - 1] < v[k + 1])

\* The end of the run of equal lines from x on diagonal k.
Slide(old, new, x, k) ==
    Greatest({e \in x..(IF x > Len(old) THEN x ELSE Len(old)) :
       \A i \in x + 1..e : i - k \in DOMAIN new /\ old[i] = new[i - k]})

\* Reach(): how far into the old lines d changes lead, by diagonal.  The
\* array of a step holds its own diagonals and zero elsewhere.
Reach(old, new) ==
    LET size == Size(old, new)
        v[d \in -1..size] ==
          IF d = -1 THEN [k \in -size - 1..size + 1 |-> 0]
          ELSE LET u == v[d - 1]
               IN  [k \in -size - 1..size + 1 |->
                      IF k \in -d..d /\ (k + d) % 2 = 0
                      THEN Slide(old, new, IF Inserts(u, d, k) THEN u[k + 1] ELSE u[k - 1] + 1, k)
                      ELSE 0]
    IN  v

\* The first step that reaches the end of both.
Distance(old, new, v) ==
    Least({d \in 0..Size(old, new) :
       LET u == v[d] IN \E k \in -d..d : (k + d) % 2 = 0 /\ u[k] >= Len(old) /\ u[k] - k >= Len(new)})

\* myersAddedIndices(): walks back, noting the new line of every insertion.
MyersAdded(old, new) ==
    IF old = <<>> THEN DOMAIN new ELSE IF new = <<>> THEN {} ELSE
    LET v == Reach(old, new)
        distance == Distance(old, new, v)
        back[d \in 0..distance] ==
          IF d = distance THEN [x |-> Len(old), y |-> Len(new), added |-> {}]
          ELSE LET s == back[d + 1]
                   k == s.x - s.y
                   u == v[d]
                   inserts == Inserts(u, d + 1, k)
                   x == IF inserts THEN u[k + 1] ELSE u[k - 1]
                   y == IF inserts THEN x - (k + 1) ELSE x - (k - 1)
               IN  [x |-> x, y |-> y,
                    added |-> s.added \cup (IF inserts THEN {y + 1} ELSE {})]
    IN  back[0].added

CommonPrefix(old, new) ==
    Greatest({n \in 0..Len(old) : n <= Len(new) /\ \A i \in 1..n : old[i] = new[i]})

CommonSuffix_Overlaps(old, new, start) ==
    Greatest({n \in 0..Len(old) : n <= Len(new) /\
                \A i \in 0..n - 1 : old[Len(old) - i] = new[Len(new) - i]})

\* Of what the prefix leaves of both.
CommonSuffix(old, new, start) ==
    Greatest({n \in 0..Len(old) - start : n <= Len(new) - start /\
                \A i \in 0..n - 1 : old[Len(old) - i] = new[Len(new) - i]})

\* computeAddedLines(): numbers of the lines of `new' that are not in `old'.
AddedLines(old, new) ==
    IF old = None THEN DOMAIN new ELSE
    LET start == CommonPrefix(old, new)
        suffix == CommonSuffix(old, new, start)
    IN  IF start = Len(new) THEN {}
        ELSE IF start = Len(old) THEN start + 1..Len(new)
        ELSE {start + i : i \in MyersAdded(SubSeq(old, start + 1, Len(old) - suffix),
                                           SubSeq(new, start + 1, Len(new) - suffix))}

-----------------------------------------------------------------------------
(* The rules.                                                              *)

Raw(line) == line.code \cup line.comment

\* Rules of the line with its comment; some patterns start at its beginning.
AnywhereRules ==
    {"non_sjis_char", "no_section_attr", "no_codegen_macros", "no_binary_patching",
     "s_include", "no_volatile_fake_stack"}
AtStartRules == {"no_pragmas", "no_if0", "no_angle_include"}

RawHits(line) ==
    (AnywhereRules \cap Raw(line)) \cup (AtStartRules \cap line.code)
      \cup (IF "extern_c" \in Raw(line) /\ "lbl_" \notin Raw(line) THEN {"no_extern_c"} ELSE {})

\* Rules of the line without its comment.
CodeRules ==
    {"no_asm", "no_asm_insn_shim", "no_register_keyword", "no_void_ptr", "no_unk_name",
     "no_unk_generated"}

CodeHits(line) ==
    (CodeRules \cap line.code)
      \cup (IF Language = "c" /\ "extern_c" \in line.code THEN {"extern_c_in_c"} ELSE {})
      \cup (IF Language = "cpp" /\ {"ctor_dtor", "self_param"} \subseteq line.code
               /\ "::" \notin line.code THEN {"cpp_free_ctor"} ELSE {})
      \cup (IF {"reg_name", "decl_like"} \subseteq line.code THEN {"no_register_names"} ELSE {})
      \cup (IF {"cast", "hex_off"} \subseteq line.code THEN {"no_offset_arithmetic"} ELSE {})

CastStep_ClosesFirst(pending, line) ==
    LET open == (pending \/ "init_cast_open" \in line.code) /\ ")" \notin line.code
    IN  [pending |-> open, hit |-> "init_cast" \in line.code \/ (open /\ "assign" \in line.code)]

\* Both rules no_init_side_effect: a cast that ends its line is pending from
\* there on, until a line with a `)'.
CastStep(pending, line) ==
    LET open == pending \/ "init_cast_open" \in line.code
    IN  [pending |-> open /\ ")" \notin line.code,
         hit |-> "init_cast" \in line.code \/ (open /\ "assign" \in line.code)]

\* lintDelta(): the added lines in their order.
LintDelta(old, new) ==
    LET added == AddedLines(old, new)
        lint[n \in 0..Len(new)] ==
          IF n = 0 THEN [pending |-> FALSE, findings |-> {}]
          ELSE IF n \notin added THEN lint[n - 1]
          ELSE LET cast == CastStep(lint[n - 1].pending, new[n])
                   hits == RawHits(new[n]) \cup CodeHits(new[n])
                             \cup (IF cast.hit THEN {"no_init_side_effect"} ELSE {})
               IN  [pending |-> cast.pending,
                    findings |-> lint[n - 1].findings \cup ({n} \X hits)]
    IN  lint[Len(new)].findings

\* runLint(): the findings of the rule asked for, of all when none is.
RunLint(rule) == {f \in LintDelta(orig, text) : rule = None \/ f[2] = rule}

\* cmdLint(): the exit code.
CmdLint(rule, noFail) == IF RunLint(rule) # {} /\ ~noFail THEN 1 ELSE 0

-----------------------------------------------------------------------------
Init == orig \in Texts \cup {None} /\ text = (IF orig = None THEN <<>> ELSE orig)

\* The file is written.
Write(t) == text' = t /\ UNCHANGED orig

\* `lint --delta' exits 0, and the snapshot is taken of what it saw.
Snapshot ==
    /\ CmdLint(None, FALSE) = 0
    /\ orig' = text
    /\ UNCHANGED text

Next == (\E t \in Texts : Write(t)) \/ Snapshot

Spec == Init /\ [][Next]_vars

-----------------------------------------------------------------------------
Old == IF orig = None THEN <<>> ELSE orig
Kept == DOMAIN text \ AddedLines(orig, text)
CommonOf(K) ==
    \E f \in [K -> DOMAIN Old] :
      \A i, j \in K : text[i] = Old[f[i]] /\ (i < j => f[i] < f[j])

\* "A Myers O(ND) diff, which is globally LCS-optimal", with trimming that "is
\* exact" (delta.ts:26-27, 170-173): the lines that are not added are lines of
\* the snapshot in its order, and no larger set of lines of the file is.
DiffIsMinimal ==
    LET kept == Kept
    IN  /\ CommonOf(kept)
        /\ \A K \in SUBSET DOMAIN text : Cardinality(K) > Cardinality(kept) => ~CommonOf(K)

Count(t, line) == Cardinality({n \in DOMAIN t : t[n] = line})

\* A file that passes the gate before every snapshot never gains a line that a
\* rule forbids, whatever is moved, repeated or deleted around it.
NoHitIsAdmitted ==
    orig' # orig =>
      \A line \in Lines :
        RawHits(line) \cup CodeHits(line) # {} => Count(orig', line) <= Count(Old, line)

GateAdmitsNoHit == [][NoHitIsAdmitted]_vars

\* An assignment in a cast whose opening line and every line up to it are
\* added is found, when no parenthesis closes before it.
CastAssignmentsAreFound ==
    \A a \in DOMAIN text : \A b \in a..Len(text) :
      (/\ "assign" \in text[b].code
       /\ a..b \subseteq AddedLines(orig, text)
       /\ "init_cast_open" \in text[a].code
       /\ \A n \in a..b - 1 : ")" \notin text[n].code)
        => <<b, "no_init_side_effect">> \in LintDelta(orig, text)
=============================================================================
