------------------------------ MODULE AnswerText ------------------------------
(***************************************************************************)
(* The structure of a written answer, as the grounding verifier, the       *)
(* publication filter and the ordinary guard see it: a sequence of blocks. *)
(* A heading is one line; a text is one claim, perhaps with an equation,   *)
(* and the citation that ends it; a footer is a paragraph that only cites. *)
(* A joined text goes on in the paragraph, list item or table row of the   *)
(* text before it; other blocks stand apart. Wording is left out.          *)
(***************************************************************************)
EXTENDS Naturals, Sequences, FiniteSets, FiniteSetsExt

CONSTANTS
    Source,     \* evidence records supplied with the answer
    Equation,   \* equations, by their normalized form
    Document,   \* Source -> the physical document revision it belongs to
    Unknown,    \* a citation that names no supplied record
    NoEquation, \* a block without an equation
    MaxClaims   \* claims a review may list: 100

ASSUME AnswerTextAssumption ==
    /\ Unknown \notin Source
    /\ NoEquation \notin Equation
    /\ DOMAIN Document = Source
    /\ MaxClaims \in Nat \ {0}

Block == [kind : {"head", "text", "foot"}, level : Nat, joined : BOOLEAN,
          cites : SUBSET (Source \cup {Unknown}),
          eq : Equation \cup {NoEquation}]

\* What the parser makes of a text: a text goes on from a text, and a footer
\* states nothing.
WellFormed(a) == \A i \in DOMAIN a :
    /\ a[i].joined => a[i].kind = "text" /\ i > 1 /\ a[i - 1].kind = "text"
    /\ a[i].kind = "foot" => a[i].eq = NoEquation
Answer == {a \in Seq(Block) : WellFormed(a)}

Heads(a) == {i \in DOMAIN a : a[i].kind = "head"}
Texts(a) == {i \in DOMAIN a : a[i].kind = "text"}
Equations(a) == {i \in DOMAIN a : a[i].eq # NoEquation}

\* The nearest block of a set before (at or after) a place; none is 0.
LastBefore(S, i) == LET before == {j \in S : j < i}
                    IN IF before = {} THEN 0 ELSE Max(before)
FirstFrom(S, i, none) == LET after == {j \in S : j >= i}
                         IN IF after = {} THEN none ELSE Min(after)

(***************************************************************************)
(* _answer_structure: headings, their ancestors, and the bounded claims.   *)
(***************************************************************************)

\* The heading right above when no body is between them, or else the nearest
\* one of a lower level.
Parent(a, h) ==
    IF h - 1 \in Heads(a) THEN h - 1
    ELSE LastBefore({j \in Heads(a) : a[j].level < a[h].level}, h)

\* context_chain of a heading, itself included.
Chain(a, h) ==
    LET up[i \in 0 .. h] == IF i = 0 THEN {} ELSE {i} \cup up[Parent(a, i)]
    IN up[h]

\* context_at: the heading a text stands under.
Owner(a, t) == LastBefore(Heads(a), t)

\* Headings without any body below are claims themselves.
Orphans(a) == Heads(a) \ UNION {Chain(a, Owner(a, t)) : t \in Texts(a)}

\* The first MaxClaims claims, in the order of the answer.
Claims(a) ==
    LET all == Texts(a) \cup Orphans(a)
    IN {c \in all : Cardinality({d \in all : d <= c}) <= MaxClaims}

\* context_ids of a claim.
Contexts(a, c) ==
    IF a[c].kind = "head" THEN Chain(a, Parent(a, c)) ELSE Chain(a, Owner(a, c))

\* A heading whose contexts are listed in the catalog.
Listed(a) == UNION {Contexts(a, c) : c \in Claims(a)}

(***************************************************************************)
(* publication_units: what is kept or removed as a whole.                  *)
(***************************************************************************)

\* The first and the last block of the unit a block belongs to.
UnitStart(a, i) == Max({j \in 1 .. i : j = 1 \/ ~a[j].joined})
UnitEnd(a, i) ==
    FirstFrom({j \in DOMAIN a : ~a[j].joined}, i + 1, Len(a) + 1) - 1
Unit(a, i) == UnitStart(a, i) .. UnitEnd(a, i)
Units(a) == {Unit(a, i) : i \in DOMAIN a}

ClaimsOf(a, unit) == unit \cap Claims(a)
\* No text of the unit is left out of the claims.
FullyClaimed(a, unit) == unit \cap Texts(a) \subseteq Claims(a)

(***************************************************************************)
(* _resolve and citation scopes: the sources a claim is attributed to.     *)
(***************************************************************************)

Cited(a, S) == UNION {a[i].cites : i \in S}
Citing(a) == {i \in DOMAIN a : a[i].cites # {}}

\* One citation names records of one physical document revision, or nothing.
Resolved(cites) ==
    IF cites \subseteq Source
       /\ Cardinality({Document[s] : s \in cites}) <= 1
    THEN cites ELSE {}

\* Citations that the projection cannot resolve.
Unresolved(a) == {i \in Citing(a) : Resolved(a[i].cites) = {}}

\* A hard heading begins a section: footers do not reach across it.
Section(a, i) ==
    LastBefore(Heads(a), i + 1)
        .. FirstFrom(Heads(a), i + 1, Len(a) + 1) - 1

\* compile_publication: the section's last citation, a paragraph of its own,
\* binds the claims before it when every citation there names the same set.
FooterScope(a, c) ==
    LET cited == Citing(a) \cap Section(a, c)
        footer == LastBefore(cited, Len(a) + 1)
    IN IF /\ footer > c
          /\ a[footer].kind = "foot"
          /\ \A i \in cited :
                 Resolved(a[i].cites) = Resolved(a[footer].cites)
       THEN Resolved(a[footer].cites) ELSE {}

\* _terminal_line_scopes: the citation that ends a paragraph line, the only
\* one on it, binds the claims of the line.
LineScope(a, c) ==
    LET line == Unit(a, c)
        last == UnitEnd(a, c)
    IN IF a[c].kind = "text" /\ Citing(a) \cap line = {last} /\ c # last
       THEN Resolved(a[last].cites) ELSE {}

\* bindings: a claim's own citation, or the scopes it lies in.
Bound(a, c) ==
    IF c \in Citing(a) THEN Resolved(a[c].cites)
    ELSE FooterScope(a, c) \cup LineScope(a, c)
===============================================================================
