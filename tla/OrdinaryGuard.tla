----------------------------- MODULE OrdinaryGuard -----------------------------
(***************************************************************************)
(* The publication guard of the ordinary coverage answer: what assess_     *)
(* answer concludes of one draft from its citations, its equations and one *)
(* review of all its claims. Pure operators over Grounding.                *)
(*                                                                         *)
(* A packet p is what the request supplies: a record of "limits" (the      *)
(* packer could not include everything), "tables", "members" (the variants *)
(* of a family that must be explained, each with the sources that hold     *)
(* it), "requested" (the question asks for a formula) and "rules" (the     *)
(* equations found for it, with their sources). A draft d has a "text", a  *)
(* sequence of blocks, and tells whether its paragraphs are "copied" from  *)
(* the sources they cite and the "whole" material is in it. A review r     *)
(* gives a row to each claim and to each member, unless it is "lost": the  *)
(* call failed or its reply is not of the schema.                          *)
(***************************************************************************)
EXTENDS Grounding

CONSTANTS
    Alternatives \* equations whose source leaves an operator open

ASSUME OrdinaryGuardAssumption == Alternatives \subseteq Equation

\* "exact": the claim speaks of the row's very target, with its conditions.
ClaimRow == [support : {"supported", "unsupported", "contradicted",
                        "uncertain"},
             passages : SUBSET (Source \cup {Unknown}), exact : BOOLEAN]

(***************************************************************************)
(* Equations.                                                              *)
(***************************************************************************)

\* _formula_checks: every equation is the cited source's or computed from it.
FormulasProven(a) ==
    /\ \A i \in Equations(a) :
           /\ FormulaStatus(a, i) \in {"source_matched", "calculated"}
           /\ a[i].eq \notin Alternatives
    /\ Unknown \notin Cited(a, DOMAIN a)

\* The equations a draft gives, each with a source that states it.
Supplied(a) ==
    UNION {{<<a[i].eq, s>> : s \in {t \in CitedFor(a, i) :
                                        Relation[t][a[i].eq] = "native"}} :
              i \in {j \in Equations(a) :
                        FormulaStatus(a, j) = "source_matched"}}

\* _formula_requirement_missing
FormulaMissing(p, a) ==
    /\ p.requested
    /\ \/ Supplied(a) = {}
       \/ p.rules # {} /\ Supplied(a) \cap p.rules = {}

(***************************************************************************)
(* Copies of the sources.                                                  *)
(***************************************************************************)

\* _source_copy, _complete_material_copy: nothing but cited paragraphs of the
\* sources, and all of them; tables and families are never copies.
IsCopy(p, d) ==
    /\ d.copied /\ d.whole
    /\ \A i \in DOMAIN d.text : d.text[i].kind # "foot" =>
           Cited(d.text, Unit(d.text, i)) \notin {{}, {Unknown}}
    /\ ~p.tables
    /\ DOMAIN p.members = {}

(***************************************************************************)
(* The review.                                                             *)
(***************************************************************************)

\* Mutant: only the claims that are listed count.
TailUnlistedNever(a) == FALSE

\* claim_review_capacity: words after the last claim a review may list.
TailUnlisted(a) ==
    /\ Cardinality(Claims(a)) = MaxClaims
    /\ \E i \in DOMAIN a : a[i].kind # "foot" /\ \A c \in Claims(a) : i > c

\* _attribution_bound: support comes from sources the author declared.
AttributionBound(a, r) ==
    \A c \in Claims(a) : r.rows[c].support = "supported" =>
        /\ r.rows[c].passages # {}
        /\ r.rows[c].passages \subseteq Bound(a, c)

\* _family_review_contract: the claims that may explain a member.
Eligible(p, a, m) == {c \in Claims(a) : Bound(a, c) \cap p.members[m] # {}}

\* _expand_family_review: a row of the review names no other claims, and no
\* passages but the member's.
MemberRowFits(p, a, r, m) ==
    /\ r.members[m].claims \subseteq Eligible(p, a, m)
    /\ r.members[m].passages \subseteq p.members[m]

\* _family_coverage_valid: each member is explained by supported claims, every
\* one of which rests on a passage of that member.
MembersCovered(p, r) ==
    \A m \in DOMAIN p.members : LET row == r.members[m] IN
        /\ row.detailed /\ row.claims # {} /\ row.passages # {}
        /\ \A c \in row.claims :
               /\ r.rows[c].support = "supported"
               /\ r.rows[c].passages \cap row.passages # {}

(***************************************************************************)
(* assess_answer, check by check.                                          *)
(***************************************************************************)

\* The first failure, in the order of the checks; "none" accepts the draft.
Failure(p, d, r) ==
    LET a == d.text IN
    IF Unresolved(a) # {} THEN "invalid_citation"
    ELSE IF ~FormulasProven(a) THEN "formula"
    ELSE IF FormulaMissing(p, a) THEN "required_formula_missing"
    ELSE IF \E m \in DOMAIN p.members : p.members[m] = {}
         THEN "source_family_binding_unverified"
    ELSE IF p.limits THEN "source_condition_or_family_incomplete"
    ELSE IF IsCopy(p, d) THEN "none"
    ELSE IF TailUnlisted(a) THEN "claim_review_capacity_unassessed"
    ELSE IF \/ r.lost
            \/ Claims(a) = {}
            \/ \E m \in DOMAIN p.members : ~MemberRowFits(p, a, r, m)
         THEN "semantic_review_unavailable"
    ELSE IF /\ \A c \in Claims(a) :
                   /\ ClaimStatus(a, c, r.rows[c], FALSE) = "judge_supported"
                   /\ r.rows[c].exact
            /\ AttributionBound(a, r)
            /\ MembersCovered(p, r)
         THEN "none"
    ELSE "typed_claim_or_condition_unverified"

Accepted(p, d, r) == Failure(p, d, r) = "none"

\* A repair may be asked for: the writer could do better.
Repairable(p, d, r) ==
    Failure(p, d, r) \in {"invalid_citation", "formula",
                          "required_formula_missing",
                          "typed_claim_or_condition_unverified"}
===============================================================================
