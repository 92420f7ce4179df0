---------------------------- MODULE QueryLanguage ----------------------------
(***************************************************************************)
(* The query language (core/src/query.rs): the parser's loop over its       *)
(* explicit stack of suspended groups and macros, and the ways a parsed     *)
(* query is answered (lib.rs, query_inner): exact bitmap algebra over the   *)
(* metadata postings, the name column, or a scan of trigram candidates that *)
(* skips rows which cannot match before their content is fetched.           *)
(*                                                                         *)
(* A token is "L", "R", "Or", "And", "Not", an atom or a macro.  Atoms      *)
(* stand for their kinds: "n" a literal of a name (three bytes or more), "c"*)
(* of content, "p" of an extracted property, "dir" the folder: prefix,      *)
(* which scopes a group when one follows it.                                *)
(***************************************************************************)
EXTENDS Naturals, Sequences, FiniteSets, SequencesExt

CONSTANTS
    Inputs,             \* bounds: [symbols, length] of the token sequences parsed
    Macros,             \* [macro -> its tokens], the macros preference
    NestingLimit,       \* 128
    ExpressionLimit,    \* 8192
    MacroLimit,         \* 16
    NoQuery             \* no parsed query, or no exclusion

VARIABLES
    text,               \* the tokens of the whole query
    frame, suspended,   \* the expression being read and those that wait for it
    remaining,          \* expressions the limits still allow
    outcome,            \* "parsing", "accepted", "rejected" or "limit"
    query               \* the accepted query

parserVars == << text, frame, suspended, remaining, outcome, query >>

Atoms == {"n", "c", "p", "dir"}

All == [op |-> "all"]
Term(atom) == [op |-> "term", term |-> atom]
Not(q) == [op |-> "not", arg |-> q]
Compound(op, args) == [op |-> op, args |-> args]

-----------------------------------------------------------------------------
(* ExpressionFrame and the loop of Parser::parse.                           *)

NewFrame(tokens, kind, macros, nesting) ==
    [tokens |-> tokens, kind |-> kind, macros |-> macros, nesting |-> nesting,
     negations |-> 0, expecting |-> TRUE, conjunction |-> << >>, disjunction |-> << >>]

Negated(q, count) == FoldLeft(LAMBDA r, i : Not(r), q, [i \in 1..count |-> i])

\* Mutant: a NOT also negates the operands after its own.
AcceptKeepsNegations(f, q) ==
    [f EXCEPT !.expecting = FALSE, !.disjunction = Append(@, Negated(q, f.negations))]

Accept(f, q) ==
    [f EXCEPT !.negations = 0, !.expecting = FALSE,
              !.disjunction = Append(@, Negated(q, f.negations))]

FinishDisjunction(f) ==
    IF Len(f.disjunction) = 1 THEN f.disjunction[1] ELSE Compound("or", f.disjunction)

FinishFrame(f) ==
    IF f.conjunction = << >> THEN FinishDisjunction(f)
    ELSE Compound("and", Append(f.conjunction, FinishDisjunction(f)))

RestrictType(q, kind) == IF kind = "folder" THEN Compound("and", << Term("dir"), q >>) ELSE q

Upcoming == IF frame.tokens = << >> THEN "end" ELSE Head(frame.tokens)

Consumed == [frame EXCEPT !.tokens = Tail(@)]

Parsing == outcome = "parsing"

Stop(verdict) ==
    /\ outcome' = verdict
    /\ UNCHANGED << text, frame, suspended, remaining, query >>

TakeOr ==
    /\ Parsing /\ ~frame.expecting /\ Upcoming = "Or"
    /\ frame' = [Consumed EXCEPT !.expecting = TRUE]
    /\ UNCHANGED << text, suspended, remaining, outcome, query >>

\* An unclosed group, or a closing token in the root or in a macro, is an error.
BadClose == (frame.kind \in {"group", "folder"}) # (Upcoming = "R")

\* A group hands the rest of its tokens back; a macro's parent kept its own.
CloseFrame ==
    /\ Parsing /\ ~frame.expecting /\ Upcoming \in {"end", "R"}
    /\ \/ BadClose /\ Stop("rejected")
       \/ /\ ~BadClose /\ suspended = << >>
          /\ query' = FinishFrame(frame) /\ outcome' = "accepted"
          /\ UNCHANGED << text, frame, suspended, remaining >>
       \/ /\ ~BadClose /\ suspended # << >>
          /\ LET parent == Last(suspended)
                 resumed == IF frame.kind = "macro" THEN parent
                            ELSE [parent EXCEPT !.tokens = Tail(frame.tokens)]
             IN  frame' = Accept(resumed, RestrictType(FinishFrame(frame), frame.kind))
          /\ suspended' = Front(suspended)
          /\ UNCHANGED << text, remaining, outcome, query >>

\* Anything else after an operand begins the next conjunct; AND is optional.
JoinConjunct ==
    /\ Parsing /\ ~frame.expecting /\ Upcoming \notin {"Or", "end", "R"}
    /\ frame' = [(IF Upcoming = "And" THEN Consumed ELSE frame) EXCEPT
                    !.conjunction = Append(@, FinishDisjunction(frame)),
                    !.disjunction = << >>, !.expecting = TRUE]
    /\ UNCHANGED << text, suspended, remaining, outcome, query >>

Nesting == frame.nesting + frame.negations

\* The limits are tested, and an expression counted, before each operand token.
WithinLimits == Parsing /\ frame.expecting /\ Nesting < NestingLimit /\ remaining > 0

ExceedLimits ==
    /\ Parsing /\ frame.expecting /\ (Nesting >= NestingLimit \/ remaining = 0)
    /\ Stop("limit")

Negate ==
    /\ WithinLimits /\ Upcoming = "Not"
    /\ frame' = [Consumed EXCEPT !.negations = @ + 1]
    /\ remaining' = remaining - 1
    /\ UNCHANGED << text, suspended, outcome, query >>

Suspend(parent, child) ==
    /\ suspended' = Append(suspended, parent)
    /\ frame' = child
    /\ remaining' = remaining - 1
    /\ UNCHANGED << text, outcome, query >>

Scopes == Upcoming = "dir" /\ Len(frame.tokens) > 1 /\ frame.tokens[2] = "L"

OpenGroup ==
    /\ WithinLimits /\ (Upcoming = "L" \/ Scopes)
    /\ LET kind == IF Scopes THEN "folder" ELSE "group"
           inner == IF Scopes THEN Tail(Tail(frame.tokens)) ELSE Tail(frame.tokens)
       IN  Suspend([frame EXCEPT !.tokens = << >>],
                   NewFrame(inner, kind, frame.macros, Nesting + 1))

OpenMacro ==
    /\ WithinLimits /\ Upcoming \in DOMAIN Macros
    /\ \/ frame.macros >= MacroLimit /\ Stop("limit")
       \/ /\ frame.macros < MacroLimit /\ Macros[Upcoming] = << >>
          /\ frame' = Accept(Consumed, All) /\ remaining' = remaining - 1
          /\ UNCHANGED << text, suspended, outcome, query >>
       \/ /\ frame.macros < MacroLimit /\ Macros[Upcoming] # << >>
          /\ Suspend(Consumed, NewFrame(Macros[Upcoming], "macro", frame.macros + 1, Nesting + 1))

AcceptAtom ==
    /\ WithinLimits /\ Upcoming \in Atoms /\ ~Scopes
    /\ frame' = Accept(Consumed, Term(Upcoming))
    /\ remaining' = remaining - 1
    /\ UNCHANGED << text, suspended, outcome, query >>

\* parse_at: no tokens ask for everything.
AcceptEmpty ==
    /\ Parsing /\ text = << >>
    /\ outcome' = "accepted" /\ query' = All
    /\ UNCHANGED << text, frame, suspended, remaining >>

RejectOperand ==
    WithinLimits /\ text # << >> /\ Upcoming \in {"end", "R", "Or", "And"} /\ Stop("rejected")

ParserInit ==
    /\ text \in UNION {BoundedSeq(input.symbols, input.length) : input \in Inputs}
    /\ frame = NewFrame(text, "root", 0, 0)
    /\ suspended = << >> /\ remaining = ExpressionLimit
    /\ outcome = "parsing" /\ query = NoQuery

ParserNext ==
    \/ TakeOr \/ CloseFrame \/ JoinConjunct \/ ExceedLimits \/ Negate
    \/ OpenGroup \/ OpenMacro \/ AcceptAtom \/ AcceptEmpty \/ RejectOperand

-----------------------------------------------------------------------------
(* Evaluation of a row.  A row knows whether its name contains the literal  *)
(* ("grams": only its trigrams do), its kind, and what its body and its     *)
(* extracted property hold, "none" when there is none.                      *)

RowSet == [name: {"no", "grams", "yes"}, dir: BOOLEAN,
           body: {"none", "hit", "miss"}, prop: {"none", "hit", "miss"}]

\* The rows one query is asked of: all combinations a plan treats differently.
SampleRows == {r \in RowSet : r.prop = "miss" => r.body = "none"}

RECURSIVE Requires(_, _)
\* requires_content for "c", requires_properties for "p".
Requires(atom, q) ==
    CASE q.op = "term" -> q.term = atom
      [] q.op = "not" -> Requires(atom, q.arg)
      [] q.op \in {"and", "or"} -> \E i \in DOMAIN q.args : Requires(atom, q.args[i])
      [] OTHER -> FALSE

TermMatches(atom, row) ==
    CASE atom = "n" -> row.name = "yes"
      [] atom = "dir" -> row.dir
      [] atom = "c" -> row.body = "hit"
      [] atom = "p" -> row.prop = "hit"

\* AND and OR of three-valued operands, as metadata_truth, extraction_truth and
\* indexed_truth fold them.
Combine(op, values) ==
    LET decisive == IF op = "and" THEN "false" ELSE "true"
    IN  IF decisive \in values THEN decisive
        ELSE IF "unknown" \in values THEN "unknown"
        ELSE IF op = "and" THEN "true" ELSE "false"

Opposite(value) ==
    CASE value = "true" -> "false" [] value = "false" -> "true" [] OTHER -> "unknown"

AsTruth(b) == IF b THEN "true" ELSE "false"

RECURSIVE Truth(_, _, _)
\* The truth of a query of a row when the atoms of `hidden` are not known.
Truth(q, row, hidden) ==
    CASE q.op = "all" -> "true"
      [] q.op = "term" ->
            IF q.term \in hidden THEN "unknown" ELSE AsTruth(TermMatches(q.term, row))
      [] q.op = "not" -> Opposite(Truth(q.arg, row, hidden))
      [] OTHER -> Combine(q.op, {Truth(q.args[i], row, hidden) : i \in DOMAIN q.args})

\* matches, metadata_truth and extraction_truth.
Matches(q, row) == Truth(q, row, {}) = "true"
MetadataTruth(q, row) == Truth(q, row, {"c"})
ExtractionTruth(q, row) == Truth(q, row, {"c", "p"})

\* Mutant: a missing body is read as a body without the text.
MatchesEmptyBody(q, row) == Matches(q, row)

\* QueryEvaluator::matches_available: a query of content without a body is decided by
\* what the metadata proves.
MatchesAvailable(q, row) ==
    IF row.body = "none" /\ Requires("c", q) THEN MetadataTruth(q, row) = "true"
    ELSE Matches(q, row)

RECURSIVE SupportsExact(_)
SupportsExact(q) ==
    CASE q.op = "all" -> TRUE
      [] q.op = "term" -> q.term = "dir"
      [] q.op = "not" -> SupportsExact(q.arg)
      [] OTHER -> \A i \in DOMAIN q.args : SupportsExact(q.args[i])

RECURSIVE EvaluateExact(_, _)
\* Bitmap algebra over the live rows.
EvaluateExact(q, rows) ==
    CASE q.op = "all" -> rows
      [] q.op = "term" -> {r \in rows : r.dir}
      [] q.op = "not" -> rows \ EvaluateExact(q.arg, rows)
      [] q.op = "and" -> {r \in rows : \A i \in DOMAIN q.args : r \in EvaluateExact(q.args[i], rows)}
      [] q.op = "or" -> UNION {EvaluateExact(q.args[i], rows) : i \in DOMAIN q.args}

Unpruned == << >>

RECURSIVE CandidatesOf(_, _)
\* candidates_with_cancellation: a set of rows no match is outside of, or no pruning.
\* Trigram postings keep every row whose name has all the trigrams of the literal.
CandidatesOf(q, rows) ==
    IF SupportsExact(q) THEN << EvaluateExact(q, rows) >>
    ELSE CASE q.op = "and" ->
                LET parts == {i \in DOMAIN q.args : CandidatesOf(q.args[i], rows) # Unpruned}
                IN  IF parts = {} THEN Unpruned
                    ELSE << {r \in rows : \A i \in parts : r \in CandidatesOf(q.args[i], rows)[1]} >>
           [] q.op = "or" ->
                IF \E i \in DOMAIN q.args : CandidatesOf(q.args[i], rows) = Unpruned
                THEN Unpruned
                ELSE << UNION {CandidatesOf(q.args[i], rows)[1] : i \in DOMAIN q.args} >>
           [] q.op = "term" /\ q.term = "n" -> << {r \in rows : r.name # "no"} >>
           [] OTHER -> Unpruned

Scanned(q, rows) ==
    LET candidates == CandidatesOf(q, rows)
    IN  IF candidates = Unpruned THEN rows ELSE candidates[1]

RECURSIVE OnlyNames(_)
\* NameExpression::compile succeeds.
OnlyNames(q) ==
    CASE q.op = "all" -> TRUE
      [] q.op = "term" -> q.term = "n"
      [] q.op = "not" -> OnlyNames(q.arg)
      [] OTHER -> \A i \in DOMAIN q.args : OnlyNames(q.args[i])

\* The matching set query_inner computes for a query and one exclusion.
Plan(q, exclusion, rows) ==
    LET excludes == exclusion # NoQuery
        content == Requires("c", q) \/ (excludes /\ Requires("c", exclusion))
    IN  IF ~content /\ SupportsExact(q) /\ (excludes => SupportsExact(exclusion))
        THEN EvaluateExact(q, rows)
                \ (IF excludes THEN EvaluateExact(exclusion, rows) ELSE {})
        ELSE IF ~content /\ OnlyNames(q) /\ (excludes => OnlyNames(exclusion))
        THEN {r \in Scanned(q, rows) :
                Matches(q, r) /\ ~(excludes /\ Matches(exclusion, r))}
        ELSE {r \in Scanned(q, rows) :
                /\ content => MetadataTruth(q, r) # "false"
                /\ ~(excludes /\ MatchesAvailable(exclusion, r))
                /\ MatchesAvailable(q, r)}

\* The rows a metadata-only query offers for extraction; exclusions do not apply.
ExtractionCandidates(q, rows) ==
    IF SupportsExact(q) THEN EvaluateExact(q, rows)
    ELSE {r \in Scanned(q, rows) : ExtractionTruth(q, r) # "false"}

-----------------------------------------------------------------------------
(* Reference: the grammar the language documents, over spans of tokens.     *)
(* OR binds tighter than AND; a meaning is the set of assignments of the    *)
(* atoms for which the text holds, and an ungrammatical span has none.      *)

Assignments == SUBSET Atoms

Span(s, i, j) == SubSeq(s, i, j)

\* A folder: prefix belongs to the group after it.
Splits(s, i) == ~(s[i] = "dir" /\ s[i + 1] = "L")

RECURSIVE Conjunctions(_, _), Disjunctions(_, _), Operands(_, _)

Conjunctions(s, depth) ==
    Disjunctions(s, depth) \cup
    UNION {UNION {{a \cap b : a \in Disjunctions(Span(s, 1, i), depth),
                              b \in Conjunctions(Span(s, j, Len(s)), depth)} :
                    j \in {i + 1} \cup (IF s[i + 1] = "And" THEN {i + 2} ELSE {})} :
           i \in {i \in 1..(Len(s) - 1) : Splits(s, i)}}

Disjunctions(s, depth) ==
    Operands(s, depth) \cup
    UNION {{a \cup b : a \in Operands(Span(s, 1, i - 1), depth),
                       b \in Disjunctions(Span(s, i + 1, Len(s)), depth)} :
           i \in {i \in 2..(Len(s) - 1) : s[i] = "Or"}}

Operands(s, depth) ==
    CASE s = << >> -> {}
      [] s[1] = "Not" -> {Assignments \ a : a \in Operands(Tail(s), depth)}
      [] Len(s) = 1 /\ s[1] \in Atoms -> {{a \in Assignments : s[1] \in a}}
      [] Len(s) = 1 /\ s[1] \in DOMAIN Macros ->
            IF depth = MacroLimit THEN {}
            ELSE IF Macros[s[1]] = << >> THEN {Assignments}
            ELSE Conjunctions(Macros[s[1]], depth + 1)
      [] Len(s) > 2 /\ s[1] = "L" /\ Last(s) = "R" ->
            Conjunctions(Span(s, 2, Len(s) - 1), depth)
      [] Len(s) > 3 /\ s[1] = "dir" /\ s[2] = "L" /\ Last(s) = "R" ->
            {{a \in m : "dir" \in a} : m \in Conjunctions(Span(s, 3, Len(s) - 1), depth)}
      [] OTHER -> {}

RECURSIVE MeaningOf(_)
MeaningOf(q) ==
    CASE q.op = "all" -> Assignments
      [] q.op = "term" -> {a \in Assignments : q.term \in a}
      [] q.op = "not" -> Assignments \ MeaningOf(q.arg)
      [] q.op = "and" -> {a \in Assignments : \A i \in DOMAIN q.args : a \in MeaningOf(q.args[i])}
      [] q.op = "or" -> UNION {MeaningOf(q.args[i]) : i \in DOMAIN q.args}

(* ParseIsGrammatical: the parser accepts exactly the texts the grammar     *)
(* derives, unless a limit stops it, and the query it builds from its stack *)
(* of suspended groups and macros means what the grammar says.              *)
ParseIsGrammatical ==
    /\ outcome = "accepted" /\ text # << >> => Conjunctions(text, 0) = {MeaningOf(query)}
    /\ outcome = "rejected" => Conjunctions(text, 0) = {}

Exclusions == {NoQuery, Term("n"), Term("c"), Not(Term("c")), Term("dir"), Not(Term("p"))}

(* Each row as extraction may leave it. *)
Extracted(row) == {[row EXCEPT !.body = b, !.prop = p] : b, p \in {"none", "hit", "miss"}}

(* PlansAgree: whichever plan answers a query, the rows are those for which *)
(* it is certainly true and its exclusion not certainly true (a missing     *)
(* body leaves a content term unknown, a missing property is no match), and *)
(* no row that extraction could turn into a match is left out of the rows   *)
(* offered for extraction.                                                  *)
PlansAgree ==
    outcome = "accepted" =>
        LET certain(q, r) == Truth(q, r, IF r.body = "none" THEN {"c"} ELSE {}) = "true"
        IN  /\ \A e \in Exclusions :
                Plan(query, e, SampleRows) =
                    {r \in SampleRows : certain(query, r) /\ ~(e # NoQuery /\ certain(e, r))}
            /\ \A r \in SampleRows :
                (\E x \in Extracted(r) : certain(query, x))
                    => r \in ExtractionCandidates(query, SampleRows)
=============================================================================
