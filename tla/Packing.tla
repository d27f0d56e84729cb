------------------------------ MODULE Packing ------------------------------
(***************************************************************************)
(* Evidence packing: how the passages that survived retrieval become the   *)
(* bounded context of an answer.                                           *)
(*                                                                         *)
(* evidence_selection.py groups the chunks of the docstore into whole      *)
(* sections (SectionEvidenceIndex), builds a pool of candidates and packs  *)
(* them one by one into a character budget, either the legacy way (select) *)
(* or by coverage of the question's subjects (select_v2).  A section that  *)
(* does not fit is cut to an excerpt of whole blocks (_focused_excerpt).   *)
(*                                                                         *)
(* A chunk is one block of text.  Relevance scores are left open: where    *)
(* the code takes the best score the operators return every candidate that *)
(* its structural keys allow.  A request r is a record; the fields used    *)
(* here are described where Retrieval declares Requests.                   *)
(***************************************************************************)
EXTENDS Naturals, FiniteSets, SequencesExt

CONSTANTS
    Chunk,       \* the chunks of the docstore snapshot
    Position,    \* Position[c]: its place in the docstore
    File,        \* File[c]: the physical file, one per revision
    Document,    \* Document[f]: the name a reader knows the file by
    Section,     \* Section[c]: its section path
    Parent,      \* Parent[s]: the section one level above, or s itself
    Gone,        \* the chunks of repealed clauses (status "deleted")
    Hostile,     \* the chunks contains_prompt_injection recognises
    Exception,   \* the sections evidence_role calls an exception
    Size,        \* Size[c]: its characters, omission marker included
    Subject,     \* Subject[c]: the subjects of the question it covers
    Guards,      \* Guards[c]: the conditions an equation is read with
    Uses,        \* Uses[c]: the equations defining what equation c uses
    Legend,      \* Legend[c]: the rows that define equation c's symbols
    MaxChars,    \* the character budget of the context
    MinRemaining, \* select stops below this many characters (300)
    FamilyChars, \* characters a sibling family may take (6000)
    FamilyMax,   \* children a sibling family may have (12)
    MaxSlots     \* passages a widened limit may reach (24)

ASSUME PackingAssumption ==
    /\ IsFiniteSet(Chunk)
    /\ \A c, d \in Chunk : Position[c] = Position[d] => c = d
    /\ \A c \in Chunk : Position[c] \in Nat /\ Size[c] \in Nat \ {0}
    \* _equation_guards: a condition holds no equation
    /\ \A c \in Chunk : Guards[c] \subseteq Chunk /\ \A d \in Guards[c] : Guards[d] = {}
    /\ {MaxChars, MinRemaining, FamilyChars, FamilyMax, MaxSlots} \subseteq Nat

Least(a, b) == IF a < b THEN a ELSE b
Most(a, b) == IF a > b THEN a ELSE b

\* the members of S in the order of a key no two of them share
ByKey(S, key) ==
    [k \in 1 .. Cardinality(S) |-> CHOOSE c \in S : Cardinality({d \in S : key[d] <= key[c]}) = k]
InOrder(S) == ByKey(S, Position)
Places(P) == ByKey(P, [i \in P |-> i])

At(seq, places) == [k \in DOMAIN places |-> seq[places[k]]]
Kept(S, seq) == At(seq, Places({i \in DOMAIN seq : seq[i] \in S}))

\* the sum of size[c] over S, counted
SumOf(S, size) == Cardinality(UNION {{c} \X (1 .. size[c]) : c \in S})
Chars(S) == SumOf(S, Size)

(* A candidate: one physical file, one section, some of its chunks.        *)
Passage(c) == [file |-> File[c], sec |-> Section[c], parts |-> {c}]
Cost(item) == Chars(item.parts)
SubjectsOf(item) == UNION {Subject[c] : c \in item.parts}

\* filter_scoped_evidence, visible: the boundary every file has to pass
Visible(r, f) == /\ f \notin r.excluded
                 /\ f \in r.aliases
                 /\ r.named = {} \/ f \in r.named

\* __init__, _coverage_sections: the section of a file, repealed chunks left
\* out; prompt injection is not looked for here
Whole(f, s) == [file |-> f, sec |-> s,
                parts |-> {c \in Chunk \ Gone : File[c] = f /\ Section[c] = s}]
Sections == {Whole(File[c], Section[c]) : c \in Chunk \ Gone}

\* filter_query_applicability: another category's section does not apply
Applies(r, item) == item.sec \notin r.unfit

Offered(r) == {item \in Sections : Visible(r, item.file) /\ Applies(r, item)}
Below(item, root) == item.file = root.file /\ item.sec # root.sec /\ Parent[item.sec] = root.sec
\* a section two levels down counts too; the model nests no deeper
Under(item, root) == \/ Below(item, root)
                     \/ /\ item.file = root.file /\ root.sec \notin {item.sec, Parent[item.sec]}
                        /\ Parent[Parent[item.sec]] = root.sec
ByPosition(items) == ByKey(items, [item \in items |-> Position[InOrder(item.parts)[1]]])

-----------------------------------------------------------------------------
(* select: the legacy packer, one pass over an ordered list.               *)

Roots(r) == {item \in Offered(r) : item.sec \in r.heads}

\* select: headings of the subject, their children, then the ranked passages
\* (only those with every word of the subject, where there are such)
LegacyCandidates(r, ranked) ==
    LET roots == Roots(r)
        children == {item \in Offered(r) : \E root \in roots : Under(item, root)}
        direct == Kept(r.direct, ranked)
        rest == IF roots = {} /\ direct = <<>> THEN ranked ELSE direct
        fit == Kept({c \in ToSet(rest) : Visible(r, File[c]) /\ Applies(r, Passage(c))}, rest)
    IN ByPosition(roots) \o ByPosition(children) \o [k \in DOMAIN fit |-> Passage(fit[k])]

LegacyLimit(r) ==
    LET roots == Roots(r)
    IN Most(r.topk, Least(MaxSlots, Cardinality({item \in Offered(r) :
           item \in roots \/ \E root \in roots : Under(item, root)})))

\* the leading blocks of a passage that fit, none cut
Prefix(parts, room) ==
    LET blocks == InOrder(parts)
        fits == {k \in 0 .. Len(blocks) : Chars(ToSet(SubSeq(blocks, 1, k))) <= room}
    IN ToSet(SubSeq(blocks, 1, CHOOSE k \in fits : \A j \in fits : j <= k))

\* select: skip what is packed, stop when little room is left, keep leading blocks
Take(r, acc, item) ==
    LET room == MaxChars - acc.used
        cut == [item EXCEPT !.parts = Prefix(@, room)]
    IN IF acc.stop \/ item \in acc.seen THEN acc
       ELSE IF room < MinRemaining THEN [acc EXCEPT !.stop = TRUE]
       ELSE IF cut.parts = {} THEN acc
       ELSE [out |-> Append(acc.out, cut), used |-> acc.used + Cost(cut),
             seen |-> acc.seen \cup {item}, stop |-> Len(acc.out) + 1 >= LegacyLimit(r)]

Taken(r, items) ==
    LET f[n \in 0 .. Len(items)] ==
          IF n = 0 THEN [out |-> <<>>, used |-> 0, seen |-> {}, stop |-> FALSE]
          ELSE Take(r, f[n - 1], items[n])
    IN f[Len(items)].out

ExceptionsLast(r, items) ==
    LET last == IF r.exceptions THEN {} ELSE {i \in ToSet(items) : i.sec \in Exception}
    IN Kept(ToSet(items) \ last, items) \o Kept(last, items)

LegacyPacked(r, ranked) == ExceptionsLast(r, Taken(r, LegacyCandidates(r, ranked)))

-----------------------------------------------------------------------------
(* _focused_excerpt: whole blocks, an equation with the conditions it is   *)
(* read with, in the order the packets are worth their room.               *)

\* Mutant: a block is reserved without the conditions that guard it.
ReserveAlone(parts, room, chosen, c) ==
    LET next == chosen \cup ({c} \cap parts)
    IN IF Chars(next) <= room THEN next ELSE chosen

\* reserve: a packet with its guards, all of it or none of it
Reserve(parts, room, chosen, c) ==
    LET next == chosen \cup (({c} \cup Guards[c]) \cap parts)
    IN IF Chars(next) <= room THEN next ELSE chosen
Fill(parts, room, chosen, wants) ==
    LET f[n \in 0 .. Len(wants)] ==
          IF n = 0 THEN chosen ELSE Reserve(parts, room, f[n - 1], wants[n])
    IN f[Len(wants)]

\* _formula_dependencies: equations, then those one hop away
Packages(parts) ==
    LET equations == {c \in parts : Uses[c] # {} \/ Legend[c] # {} \/ Guards[c] # {}}
        roots == SubSeq(InOrder(equations), 1, Least(3, Cardinality(equations)))
        hops == InOrder(((UNION {Uses[c] : c \in ToSet(roots)}) \cap parts) \ ToSet(roots))
    IN roots \o SubSeq(hops, 1, Least(3, Len(hops)))

\* preferred quotes, formula packages, the legend of those that fitted, and
\* then every block in order of relevance with its neighbours
Excerpt(parts, room, quoted, order) ==
    LET packages == Packages(parts)
        formulas == Fill(parts, room, Fill(parts, room, {}, InOrder(quoted \cap parts)), packages)
        legends == InOrder((UNION {Legend[c] : c \in ToSet(packages) \cap formulas}) \cap parts)
    IN Fill(parts, room, Fill(parts, room, formulas, legends), Kept(parts, order))

-----------------------------------------------------------------------------
(* select_v2: the packer that competes candidates for uncovered subjects.  *)

\* select_v2 (overview, family_intent), _sibling_family: the direct children
\* of one heading, at least two of them
Family(r) ==
    LET children(root) == {item \in Offered(r) : Below(item, root) /\ item.sec \notin Exception}
        parents == {root \in Roots(r) : Cardinality(children(root)) >= 2}
    IN IF ~r.overview \/ parents = {} THEN <<>>
       ELSE ByPosition(children(ByPosition(parents)[1]))

\* reference expansion: one hop, in the same file, at most three targets
Referenced(r, pool) ==
    LET targets == {item \in Sections :
                      /\ Visible(r, item.file)
                      /\ \E from \in pool : from.file = item.file /\ <<from.sec, item.sec>> \in r.refs}
    IN ToSet(SubSeq(ByPosition(targets), 1, Least(3, Cardinality(targets))))

\* offer: a ranked or matching chunk competes as its own whole section
Offer(r, S) == {item \in {Whole(File[c], Section[c]) : c \in S \ Gone} :
                  Visible(r, item.file) /\ Applies(r, item)}

\* the candidates: ranked and matching chunks, headings, a family, references
CoveragePool(r, ranked) ==
    LET family == Family(r)
        pool == Offer(r, ToSet(ranked) \cup r.direct) \cup Roots(r)
                  \cup ToSet(SubSeq(family, 1, Least(FamilyMax, Len(family))))
    IN pool \cup Referenced(r, pool)

CoverageLimit(r) ==
    Most(r.topk, Least(MaxSlots, Cardinality(r.subjects) + Least(2, Cardinality(Roots(r)))))

\* priority: the structural keys; ties are decided by a score
Rank(r, covered, item) ==
    << IF ~r.exceptions /\ item.sec \in Exception THEN 1 ELSE 0,
       IF SubjectsOf(item) \cap (r.subjects \ covered) = {} THEN 1 ELSE 0,
       IF item \in ToSet(Family(r)) THEN 0 ELSE 1 >>
Before(a, b) == \/ a[1] < b[1]
                \/ a[1] = b[1] /\ a[2] < b[2]
                \/ a[1] = b[1] /\ a[2] = b[2] /\ a[3] < b[3]
Best(r, covered, pool) ==
    {item \in pool : \A other \in pool : ~Before(Rank(r, covered, other), Rank(r, covered, item))}

\* what the uncovered subjects of other candidates need at least
Owed(r, covered, pool, item) ==
    LET open == r.subjects \ covered
        holders(s) == {other \in pool \ {item} : s \in SubjectsOf(other)}
        cheapest(s) == Cost(CHOOSE o \in holders(s) : \A p \in holders(s) : Cost(o) <= Cost(p))
        wanted == {s \in open \ SubjectsOf(item) : holders(s) # {}}
    IN IF SubjectsOf(item) \cap open = {} THEN 0
       ELSE SumOf(wanted, [s \in wanted |-> cheapest(s)])

\* an equation of the passage with its conditions and legend
Indivisible(item) ==
    UNION {({c} \cup Guards[c] \cup Legend[c]) \cap item.parts : c \in ToSet(Packages(item.parts))}

\* the room a candidate may take: a fair share of what is left, more for a
\* pending subject or an equation packet that fits
FairRoom(r, covered, pool, packed, left, item) ==
    LET owed == Owed(r, covered, pool, item)
        grow(b, n) == IF n <= left - owed THEN Most(b, n) ELSE b
        pending == IF SubjectsOf(item) \cap (r.subjects \ covered) # {} THEN Cost(item) ELSE 0
        slots == Least(CoverageLimit(r) - Len(packed), Cardinality(pool))
    IN grow(grow(left \div Most(1, slots), pending), Chars(Indivisible(item)))

\* the family's own budget: whole children while all of it fits, a fair room
\* within what is left of it otherwise
FamilyRoom(r, covered, packed, left, item, family, fair) ==
    LET whole == /\ Cardinality(family) \in 1 .. Least(FamilyMax, CoverageLimit(r))
                 /\ Chars(UNION {f.parts : f \in family}) <= Least(FamilyChars, MaxChars)
                 /\ r.subjects \ (covered \cup SubjectsOf(item)) = {}
        spent == Chars(UNION {p.parts : p \in {q \in ToSet(packed) : \E f \in family : f.sec = q.sec /\ f.file = q.file}})
    IN Least(IF whole THEN Least(left, Cost(item)) ELSE fair, Most(FamilyChars, spent) - spent)

Share(r, covered, pool, packed, used, item) ==
    LET left == MaxChars - used
        fair == FairRoom(r, covered, pool, packed, left, item)
        family == ToSet(Family(r))
    IN IF item \in family THEN FamilyRoom(r, covered, packed, left, item, family, fair) ELSE fair
=============================================================================
