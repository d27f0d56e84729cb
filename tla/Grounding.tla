------------------------------- MODULE Grounding -------------------------------
(***************************************************************************)
(* verify_grounding and what may be published after it: the status of each *)
(* equation and claim of an answer, whether the answer needs repair, and   *)
(* the two filters that keep a part of it, task_publication_candidate and  *)
(* safe_partial_answer. Pure operators over AnswerText.                    *)
(*                                                                         *)
(* A judge gives each claim a set of rows. Relation says what a source     *)
(* holds of an equation: "native" text, an "ocr" transcription only, an    *)
(* "unclear" notation that strict comparison cannot decide, or nothing.    *)
(* The windows in which a citation is looked for are the stretches between *)
(* neighbouring equations; their caps in characters are left out.          *)
(***************************************************************************)
EXTENDS AnswerText

CONSTANTS
    Relation,   \* Source -> Equation -> {"native", "ocr", "unclear", "none"}
    Derivation, \* Equation -> sources whose rule and inputs yield it, or {}
    Dangling    \* equations with an ambiguous continuation

ASSUME GroundingAssumption ==
    /\ Relation \in [Source -> [Equation -> {"native", "ocr", "unclear",
                                             "none"}]]
    /\ Derivation \in [Equation -> SUBSET Source]
    /\ Dangling \subseteq Equation

\* A row of the judge; "contexts" tells whether it repeats the claim's own.
Row == [support : {"supported", "unsupported", "contradicted", "uncertain"},
        passages : SUBSET (Source \cup {Unknown}), contexts : BOOLEAN,
        fit : {"matched", "mismatch", "uncertain"},
        scope : {"in_scope", "mixed", "excluded"}]

\* A review r is a record: "rows" of each claim; "task", an explicit user
\* task; "own", each claim must cite for itself; "topics", some are excluded.

(***************************************************************************)
(* Equations.                                                              *)
(***************************************************************************)

\* A citation follows its equation, up to the next one.
CitedAfter(a, i) ==
    Cited(a, i .. FirstFrom(Equations(a), i + 1, Len(a) + 1) - 1)

\* If nothing is cited there, what comes before it, back to the last equation.
CitedBefore(a, i) ==
    Cited(a, Max({1} \cup {j \in Equations(a) : j < i}) .. i - 1)
CitedFor(a, i) ==
    LET Else(after, before) == IF after # {} THEN after ELSE before
    IN Else(CitedAfter(a, i), CitedBefore(a, i))

\* What sources say of an equation that cites them.
StatusBy(eq, cited) ==
    LET Held(how) == \E s \in cited : Relation[s][eq] = how
    IN IF Unknown \in cited THEN "invalid_citation"
       ELSE IF eq \in Dangling THEN "unassessed"
       ELSE IF Held("native") THEN "source_matched"
       ELSE IF Held("ocr") THEN "unverified_ocr"
       ELSE IF Derivation[eq] # {} /\ Derivation[eq] \subseteq cited
            THEN "calculated"
       ELSE IF Held("unclear") THEN "unassessed"
       ELSE "unsupported"
FormulaStatus(a, i) == StatusBy(a[i].eq, CitedFor(a, i))

BadFormula == {"unsupported", "unverified_ocr", "invalid_citation"}

(***************************************************************************)
(* Claims.                                                                 *)
(***************************************************************************)

\* The citations of a claim's paragraph: from the claim on, or before it.
SpanCitations(a, c) ==
    LET known(S) == Cited(a, S) \cap Source
        on == known(c .. UnitEnd(a, c))
    IN IF on # {} THEN on ELSE known(UnitStart(a, c) .. c - 1)

\* Rows count when their passages exist and come from the claim's citations.
RowValid(a, c, row, task) ==
    /\ ~task \/ Contexts(a, c) = {} \/ row.contexts
    /\ row.passages \subseteq Source
    /\ IF row.passages # {} THEN row.passages \subseteq SpanCitations(a, c)
       ELSE row.support \in {"unsupported", "uncertain"}

ClaimStatus(a, c, row, task) ==
    IF ~RowValid(a, c, row, task) THEN "invalid_judge_evidence"
    ELSE CASE row.support = "supported" -> "judge_supported"
           [] row.support = "uncertain" -> "unassessed"
           [] OTHER -> row.support

Statuses(a, c, r) == {ClaimStatus(a, c, row, r.task) : row \in r.rows[c]}

\* The relevance and the scope of a claim need exactly one row.
OnlyRow(r, c, row) == r.rows[c] = {row}
Fit(a, c, r) ==
    IF Cardinality(r.rows[c]) = 1
    THEN LET row == CHOOSE x \in r.rows[c] : TRUE
         IN IF row.contexts \/ Contexts(a, c) = {} THEN row.fit
            ELSE "unassessed"
    ELSE "unassessed"
ScopeOf(r, c) ==
    IF r.topics /\ Cardinality(r.rows[c]) = 1
    THEN (CHOOSE x \in r.rows[c] : TRUE).scope ELSE "in_scope"

(***************************************************************************)
(* The report.                                                             *)
(***************************************************************************)

\* Blocks with a finding that speaks against them. A claim without its own
\* citation is one where the contract asks for it.
Disputed(a, r) ==
    {i \in Equations(a) : FormulaStatus(a, i) \in BadFormula}
    \cup {c \in Claims(a) :
            \/ Statuses(a, c, r) \cap {"unsupported", "contradicted"} # {}
            \/ ScopeOf(r, c) # "in_scope"
            \/ r.task /\ r.own /\ a[c].cites = {}}

Unproven(a) == {i \in Equations(a) : FormulaStatus(a, i) = "unassessed"}
InvalidCitation(a) == Unknown \in Cited(a, DOMAIN a)

\* Claims a valid row decides.
Assessed(a, r) ==
    {c \in Claims(a) : Statuses(a, c, r) \cap
        {"judge_supported", "unsupported", "contradicted"} # {}}

\* assessment_complete: every text is assessed, with the headings above it,
\* and no row is malformed.
Complete(a, r) ==
    LET covered == Assessed(a, r)
                   \cup UNION {Contexts(a, c) : c \in Assessed(a, r)}
    IN /\ Claims(a) # {}
       /\ Texts(a) \cup Heads(a) \subseteq covered
       /\ Unproven(a) = {}
       /\ \A c \in Claims(a) :
              "invalid_judge_evidence" \notin Statuses(a, c, r)
       /\ r.topics => \A c \in Claims(a) : Cardinality(r.rows[c]) = 1
       /\ r.task => \A c \in Claims(a) : Fit(a, c, r) \in {"matched",
                                                          "mismatch"}

\* needs_repair
NeedsRepair(a, r) ==
    \/ Disputed(a, r) # {}
    \/ InvalidCitation(a)
    \/ r.task /\ ~( /\ Complete(a, r)
                    /\ \A c \in Claims(a) : Fit(a, c, r) = "matched")

(***************************************************************************)
(* task_publication_candidate.                                             *)
(***************************************************************************)

\* Mutant: a finding against a heading above the claim is not looked at.
QualifiedAlone(a, r, c) ==
    /\ \E row \in r.rows[c] :
           /\ OnlyRow(r, c, row)
           /\ ClaimStatus(a, c, row, r.task) = "judge_supported"
    /\ Fit(a, c, r) = "matched"
    /\ a[c].cites # {}
    /\ c \notin Disputed(a, r) \cup Unproven(a)
    /\ Unknown \notin a[c].cites

\* One row supports the claim and fits the task, it cites for itself, and no
\* finding touches it or a heading above it.
Qualified(a, r, c) ==
    LET with == {c} \cup Contexts(a, c) IN
    /\ \E row \in r.rows[c] :
           /\ OnlyRow(r, c, row)
           /\ ClaimStatus(a, c, row, r.task) = "judge_supported"
    /\ Fit(a, c, r) = "matched"
    /\ a[c].cites # {}
    /\ with \cap (Disputed(a, r) \cup Unproven(a)) = {}
    /\ Unknown \notin Cited(a, with)

\* Units all of whose texts are claims that qualify.
Kept(a, r) ==
    {unit \in Units(a) :
        /\ ClaimsOf(a, unit) # {}
        /\ FullyClaimed(a, unit)
        /\ \A c \in ClaimsOf(a, unit) : Qualified(a, r, c)}

\* The blocks published, in the order of the answer: the units and the
\* headings above their claims.
Published(a, r) ==
    UNION {unit \cup UNION {Contexts(a, c) : c \in ClaimsOf(a, unit)} :
              unit \in Kept(a, r)}

(***************************************************************************)
(* safe_partial_answer without a task: what has a finding is taken out.    *)
(***************************************************************************)

\* unsupported_spans; a claim that mixes scopes is left for rewriting.
Actionable(a, r) ==
    {i \in Equations(a) : FormulaStatus(a, i) \in BadFormula}
    \cup {c \in Claims(a) :
            \/ Statuses(a, c, r) \cap {"unsupported", "contradicted"} # {}
            \/ ScopeOf(r, c) = "excluded"}

\* expand_rejected_spans
Rejected(a, r) ==
    UNION {unit \in Units(a) : unit \cap Actionable(a, r) # {}}

\* What survives: the bodies not rejected, with the headings above them, as
\* far as these are listed with a claim. Footers go when anything does.
WithHeadings(a, listed, bodies, rejected) ==
    bodies \cup ((UNION {Chain(a, LastBefore(listed, b)) : b \in bodies}) \ rejected)
Tidied(a, kept) ==
    IF kept = DOMAIN a THEN kept ELSE {i \in kept : a[i].kind # "foot"}
Standing(a, listed, rejected) ==
    Tidied(a, WithHeadings(a, listed, DOMAIN a \ (listed \cup rejected), rejected))
Survivors(a, r) == Standing(a, Listed(a), Rejected(a, r))
===============================================================================
