------------------------------ MODULE Algorithms ------------------------------
(***************************************************************************)
(* The sequential algorithms of the answer path, run on every input of     *)
(* bounded size: each step applies one of them to an input, and the        *)
(* invariants compare what it computes with what it promises.              *)
(***************************************************************************)
EXTENDS OrdinaryGuard, Navigation, SourceReading, Conversation, Tables, Sections

CONSTANTS
    Answers,   \* answers to verify and to publish from
    Rows,      \* row sets a judge may give one claim
    Demands,   \* task, own and topics of a review
    Drafts,    \* drafts of the ordinary writer
    Packets,   \* what a request supplies to it
    ClaimRows, \* rows its reviewer may give a claim
    Lists,     \* candidate lists
    Frontiers, \* what the queries of a request found
    Ranks,     \* best ranks of records per query group
    Budgets,   \* character budgets
    Limits,    \* page limits a navigator asks for
    Histories, \* messages of a project, the asked question among them
    Bundles,   \* numbered evidence lists
    Cards,     \* card lists of a reader
    Grids,     \* tables
    Files      \* files, line by line

ASSUME AlgorithmsAssumption ==
    /\ Answers \subseteq Answer
    /\ \A rows \in Rows : rows \subseteq Row /\ IsFiniteSet(rows)
    /\ Demands \subseteq [task : BOOLEAN, own : BOOLEAN, topics : BOOLEAN]
    /\ Drafts \subseteq [text : Answer, copied : BOOLEAN, whole : BOOLEAN]
    /\ ClaimRows \subseteq ClaimRow
    /\ Lists \subseteq Seq(Record)
    /\ \A fs \in Frontiers :  \* one query is the question itself
           /\ fs \in Seq([raw : BOOLEAN, channels : Seq(Seq(Record))])
           /\ \A n, m \in DOMAIN fs : fs[n].raw /\ fs[m].raw => n = m
    /\ \A ranks \in Ranks, r \in Record : \A g \in DOMAIN ranks[r] : ranks[r][g] \in Nat
    /\ Budgets \subseteq Nat
    /\ Limits \subseteq Nat \ {0}
    /\ Histories \subseteq Seq(Message)
    /\ Bundles \subseteq Seq(Numbered)
    /\ \A rows \in Grids : \A i \in DOMAIN rows : rows[i].header \in BOOLEAN
    /\ Files \subseteq Seq(Line) \ {<<>>}

VARIABLE case  \* the algorithm that ran last, and its input

NoCase == case = [of |-> "nothing"]

\* The reviews a judge may give an answer.
Reviews(a) == {[rows |-> rows, task |-> d.task, own |-> d.own,
                topics |-> d.topics] :
                   rows \in [Claims(a) -> Rows], d \in Demands}

\* An answer is written, or verified, the sources being fixed.
Write == /\ case.of = "nothing"
         /\ \E a \in Answers : case' = [of |-> "answer", answer |-> a]

Verify == /\ case.of = "answer"
          /\ \E r \in Reviews(case.answer) :
                 case' = [of |-> "report", answer |-> case.answer, review |-> r]

\* Candidates are admitted, promoted by what the queries found.
Promote == /\ case.of = "nothing"
           /\ \E items \in Lists, fs \in Frontiers, b \in Budgets, n \in 1 .. 3 :
                  case' = [of |-> "frontiers", items |-> items,
                           frontiers |-> fs, budget |-> b, slots |-> n]

PromoteForCoverage ==
    /\ case.of = "nothing"
    /\ \E items \in Lists, ranks \in Ranks, b \in Budgets :
       \E n \in 0 .. Len(items) : \E chosen \in [1 .. n -> DOMAIN items] :
          /\ IsCoverage(items, b, ranks, chosen)
          /\ case' = [of |-> "coverage", items |-> items, budget |-> b,
                      chosen |-> chosen]

\* publish_draft: the writer's draft is reviewed.
WriteDraft == /\ case.of = "nothing"
              /\ \E p \in Packets, d \in Drafts :
                     case' = [of |-> "draft", packet |-> p, draft |-> d,
                              repaired |-> FALSE]

\* The reviews of a draft: of each claim, and of each member of a family; or
\* the call fails.
GuardReviews(p, a) ==
    {[rows |-> <<>>, members |-> <<>>, lost |-> TRUE]} \cup
    {[rows |-> rows, members |-> members, lost |-> FALSE] :
        rows \in [Claims(a) -> ClaimRows],
        members \in [DOMAIN p.members ->
                        [detailed : {TRUE}, claims : SUBSET Claims(a),
                         passages : SUBSET Source]]}

Assess == /\ case.of = "draft"
          /\ \E r \in GuardReviews(case.packet, case.draft.text) :
                 case' = [of |-> "verdict", packet |-> case.packet,
                          draft |-> case.draft, review |-> r,
                          repaired |-> case.repaired]

\* The one repair is asked for; the draft and its review are not kept.
AskRepair == /\ case.of = "verdict"
             /\ ~case.repaired
             /\ Repairable(case.packet, case.draft, case.review)
             /\ case' = [of |-> "repair", packet |-> case.packet]

\* The repaired draft; if the writer fails, the sources themselves are
\* published in place of any draft.
RepairDraft == /\ case.of = "repair"
               /\ \E d \in Drafts :
                      case' = [of |-> "draft", packet |-> case.packet,
                               draft |-> d, repaired |-> TRUE]

\* navigate_sources: the opening pages, for the user's question.
Navigate == /\ case.of = "nothing"
            /\ \E query \in DOMAIN Terms, b \in Budgets :
                   case' = [of |-> "navigation", nav |-> Opened(query, b)]

Navigating == case.of = "navigation" /\ case.nav.stop = "none"

\* One action of a decision: a page of something known, ...
Browse ==
    /\ Navigating /\ case.nav.acts < MaxActions
    /\ \E op \in Callable(case.nav, DOMAIN Terms), limit \in Limits,
          cursor \in {NoCursor} \cup case.nav.known.cursors :
           case' = [case EXCEPT !.nav = Browsed(@, op, cursor, limit)]

\* ... a whole row, perhaps under a handle nobody issued, ...
ReadRow == /\ Navigating /\ case.nav.acts < MaxActions
           /\ \E i \in case.nav.known.nodes \cup {0} :
                  case' = [case EXCEPT !.nav = Read(@, i)]

\* ... or the end; else the results go into the next call, which may fail.
Finish == Navigating /\ case' = [case EXCEPT !.nav = Finished(@)]
EndTurn == /\ Navigating /\ case.nav.acts > 0
         /\ case' = [case EXCEPT !.nav = Turned(@)]
Break == /\ Navigating /\ case.nav.acts = 0
         /\ case' = [case EXCEPT !.nav = Broken(@)]

\* A question of a chat, asked as the message at; what follows it was said
\* while it waited for a worker.
Converse == /\ case.of = "nothing"
            /\ \E h \in Histories : \E at \in DOMAIN h :
                   /\ h[at].role = "user" /\ h[at].complete
                   /\ case' = [of |-> "conversation", history |-> h, at |-> at]

\* A reader's response, to this evidence or to other evidence; the evidence
\* may be another when the reading is used.
ReadEvidence ==
    /\ case.of = "nothing"
    /\ \E items \in Bundles, asked \in Bundles, now \in Bundles,
          cards \in Cards, limits \in BOOLEAN :
           case' = [of |-> "reading", now |-> now, limits |-> limits,
                    made |-> ReadingOf(items, FALSE,
                                       [snapshot |-> Snapshot(asked, FALSE),
                                        cards |-> cards])]

\* A table is cut into chunks.
CutTable == /\ case.of = "nothing"
            /\ \E rows \in Grids, doubtful \in BOOLEAN :
                   case' = [of |-> "table", rows |-> rows, doubtful |-> doubtful,
                            out |-> TableUnits(rows, doubtful)]

\* A file is cut into section documents.
CutFile == /\ case.of = "nothing"
           /\ \E f \in Files : case' = [of |-> "file", file |-> f, out |-> Ingested(f)]

Step == \/ Write \/ Verify \/ Promote \/ PromoteForCoverage
        \/ WriteDraft \/ Assess \/ AskRepair \/ RepairDraft
        \/ Navigate \/ Browse \/ ReadRow \/ Finish \/ EndTurn \/ Break
        \/ Converse \/ ReadEvidence \/ CutTable \/ CutFile

Cases == NoCase /\ [][Step]_case

(***************************************************************************)
(* Answers: attribution, verification, publication.                        *)
(***************************************************************************)

\* compile_publication: a claim without a citation is attributed to a source
\* only when a citation after it, in its section or on its line, names that
\* source and none in between names another; all it is attributed to is one
\* physical document revision.
AttributionIsDeclared ==
    case.of = "answer" =>
        LET a == case.answer IN
        \A c \in Claims(a) \ Citing(a) :
            /\ Cardinality({Document[s] : s \in Bound(a, c)}) <= 1
            /\ \A s \in Bound(a, c) :
                   \E j \in Section(a, c) \cap Citing(a) :
                       /\ j > c
                       /\ \A i \in (c .. j) \cap Citing(a) :
                              s \in Resolved(a[i].cites)

\* needs_repair: an answer to a task that passes untouched holds nothing
\* undecided: every text and heading has a valid supporting row, its own or
\* of a claim below it, no equation is unproven, and each supporting row rests
\* on sources its paragraph cites.
CleanIsProven ==
    case.of = "report" =>
        LET a == case.answer
            r == case.review
            proven == {c \in Claims(a) : \E row \in r.rows[c] :
                          /\ row.support = "supported" /\ row.fit = "matched"
                          /\ row.passages # {}
                          /\ row.passages \subseteq Cited(a, Unit(a, c))}
        IN r.task /\ ~NeedsRepair(a, r) =>
               /\ Texts(a) \cup Heads(a) \subseteq
                      proven \cup UNION {Contexts(a, c) : c \in proven}
               /\ \A i \in Equations(a) : FormulaStatus(a, i) \in
                                              {"source_matched", "calculated"}

\* task_publication_candidate: what is published of an answer to a task has
\* no finding against it and no unknown citation, and no published text has
\* lost a heading above it, which may state its condition.
PublishedIsProven(a, r, out) ==
    /\ out \cap (Disputed(a, r) \cup Unproven(a)) = {}
    /\ Unknown \notin Cited(a, out)
    /\ \A t \in out \cap Texts(a) : Chain(a, Owner(a, t)) \subseteq out
    /\ \A c \in out \cap Claims(a) :
           \/ \E row \in r.rows[c] : row.support = "supported"
           \/ \E t \in out \cap Claims(a) : c \in Contexts(a, t)

\* publication_units: a paragraph, list item or table is published whole or
\* not at all, also when its end lies beyond the claim limit.
UnitsAreWhole(a, out) == \A unit \in Units(a) : unit \cap out \in {{}, unit}

\* safe_partial_answer: no rejected block survives, nor a part of its unit; a
\* unit without a finding survives with every heading above it that has none.
SafePartialIsExact(a, bad, out) ==
    \A unit \in Units(a) :
        IF unit \cap bad # {} THEN unit \cap out = {}
        ELSE unit \subseteq Texts(a) =>
                 /\ unit \subseteq out
                 /\ \A t \in unit \cap Claims(a) :
                        Contexts(a, t) \subseteq out \cup bad

\* What is published of a verified answer.
PublicationIsProven ==
    /\ AttributionIsDeclared /\ CleanIsProven
    /\ case.of = "report" =>
           LET a == case.answer
               r == case.review
               AsTask(out) == PublishedIsProven(a, r, out) /\ UnitsAreWhole(a, out)
           IN IF r.task THEN AsTask(Published(a, r))
              ELSE SafePartialIsExact(a, Actionable(a, r), Survivors(a, r))

(***************************************************************************)
(* The ordinary guard.                                                     *)
(***************************************************************************)

\* What publish_draft lets pass of the last draft.
Passed == /\ case.of = "verdict"
          /\ Accepted(case.packet, case.draft, case.review)

\* assess_answer: an accepted draft is a copy of its sources, or each of its
\* texts was reviewed and found supported, on its target, by passages of a
\* source that the author named for it; its headings stand over such a text.
AcceptedIsDeclared ==
    LET a == case.draft.text
        Declared(row, bound) == /\ row.support = "supported" /\ row.exact
                                /\ row.passages # {} /\ row.passages \subseteq bound
    IN \/ case.draft.copied /\ case.draft.whole
       \/ /\ ~case.review.lost
          /\ \A c \in Claims(a) : Declared(case.review.rows[c], Bound(a, c))

\* Nothing is accepted unseen: without a copy every text is a claim of the
\* review, though a review lists no more than MaxClaims.
AcceptedIsReviewed ==
    \/ case.draft.copied /\ case.draft.whole
    \/ Texts(case.draft.text) \subseteq Claims(case.draft.text)

\* What the question asks for is there: a formula the sources give for it,
\* and for each variant of a family a claim that rests on that variant.
AcceptedIsComplete ==
    LET p == case.packet
        a == case.draft.text
        r == case.review
    IN /\ ~p.limits
       /\ p.requested => \E i \in Equations(a), s \in Source :
             /\ Relation[s][a[i].eq] = "native"
             /\ s \in CitedFor(a, i)
             /\ p.rules # {} => \E rule \in p.rules :
                    \E j \in Equations(a) :
                        rule[1] = a[j].eq /\ rule[2] \in CitedFor(a, j)
       /\ \A m \in DOMAIN p.members : \E c \in Claims(a) :
             /\ r.rows[c].support = "supported"
             /\ r.rows[c].passages \cap p.members[m] # {}

\* What the ordinary guard lets pass.
AcceptanceIsProven ==
    Passed => AcceptedIsDeclared /\ AcceptedIsReviewed /\ AcceptedIsComplete

(***************************************************************************)
(* Candidates.                                                             *)
(***************************************************************************)

\* The order is one of the same candidates, and admission under the same
\* budget keeps all that come first, in their order.
KeepsInFront(before, after, budget, taken) ==
    /\ \A r \in Record : Cardinality({i \in DOMAIN after : after[i] = r})
                             = Cardinality({i \in DOMAIN before : before[i] = r})
    /\ SubSeq(Recs(Admission(after, budget, <<>>).kept), 1, Len(taken)) = taken

\* order_by_query_frontiers: while a record found for the user's own words
\* would still fit, these have had at least half of the slots, and while any
\* record offered would fit, no slot stays empty.
OwnWordsHaveHalf(items, budget, frontiers, slots, taken) ==
    LET Found(f) == UNION {ToSet(f.channels[c]) : c \in DOMAIN f.channels}
        Waiting(fs) == \E f \in fs : \E r \in Found(f) :
            /\ r \in ToSet(items) \ (ToSet(taken) \cup Dead \cup Opaque)
            /\ Total(taken) + Size[r] <= budget
        raw == {f \in ToSet(frontiers) : f.raw}
    IN taken # <<>> =>
           /\ Waiting(raw) =>
                  2 * Cardinality(ToSet(taken) \cap UNION {Found(f) : f \in raw})
                      >= Len(taken)
           /\ Waiting(ToSet(frontiers)) => Len(taken) = slots

\* What the promotion of candidates keeps and whom it serves.
PromotionIsFair ==
    /\ case.of = "frontiers" =>
           LET taken == Chosen(case.items, case.budget, case.frontiers, case.slots)
               after == ByFrontiers(case.items, case.budget, case.frontiers, case.slots)
           IN /\ KeepsInFront(case.items, after, case.budget, taken)
              /\ OwnWordsHaveHalf(case.items, case.budget, case.frontiers,
                                  case.slots, taken)
    /\ case.of = "coverage" =>
           KeepsInFront(case.items, SelectedFirst(case.items, case.chosen), case.budget,
                        [k \in DOMAIN case.chosen |-> case.items[case.chosen[k]]])

(***************************************************************************)
(* Reading.                                                                *)
(***************************************************************************)

\* navigate_sources: whatever was tried and rejected on the way, all that was
\* read fits the budget of the request together, each record once, so that
\* the packer keeps every one of them in front of anything else; and a call
\* whose last page was shown has shown every row it has, though the limits
\* changed between its pages and other calls were paged in between.
NavigationIsWhole ==
    case.of = "navigation" =>
        LET n == case.nav
            Packed(more) == Recs(Admission(n.records \o more, n.budget, <<>>).kept)
        IN /\ Len(n.records) <= MaxReads
           /\ \A more \in Lists : SubSeq(Packed(more), 1, Len(n.records)) = n.records
           /\ \A op \in n.ended : \A row \in ToSet(PageRows(op)) :
                  <<op, row>> \in n.shown

\* validated_writer_payload, selection_preferences: the quotes that guide the
\* packer or the writer are passages of the very evidence they have now, and
\* a card never joins sources.
ReadingIsOfEvidence ==
    case.of = "reading" =>
        LET guide == Guide(case.made, case.now, case.limits)
            hints == Preferences(case.made, case.now, case.limits)
        IN /\ hints \subseteq guide
           /\ guide # {} => ~case.limits
           /\ \A q \in guide : \E n \in ToSet(case.now) :
                  n.eid = q[1][1] /\ n.rec = q[2][1]
           /\ guide # {} => \A card \in ToSet(case.made.cards) :
                  \A g \in ToSet(card.groups) :
                      Cardinality({Revision[q[2][1]] :
                          q \in {x \in guide : x[1] \in g}}) = 1

\* What is read before an answer is written.
ReadingIsNative == NavigationIsWhole /\ ReadingIsOfEvidence

\* The turns that can still be heard when the question is answered.
Recent(before) == {i \in before : Cardinality({j \in before : j > i}) < Window - 1}

\* The subject of turn s, what the turns since then exclude, and no condition
\* that excludes a topic taken in again.
AboutTurn(h, s, since, r) ==
    LET Again(i, t) == \/ t \in h[i].text.only
                       \/ h[i].text.only = {} /\ t \in h[i].text.also
        excluded == {t \in Topic : \E i \in since :
                       /\ t \in h[i].text.without
                       /\ \A j \in since : j > i => ~Again(j, t)}
    IN /\ r.subject = {h[s].text} /\ r.without = excluded
       /\ \A c \in r.constraints : c.without \subseteq excluded

FollowsUp(h, at, recent, r) ==
    LET raised == {i \in recent : ~h[i].text.follow}
        About(s) == AboutTurn(h, s, {i \in recent : i >= s} \cup {at}, r)
    IN IF raised = {} THEN r.mode = "unresolved"
       ELSE r.mode = "follow_up" /\ About(Max(raised))

\* resolve_conversation_context: the subject is the last one the user raised
\* in this chat before the question; a topic is excluded exactly when one of
\* the turns since excluded it and none after that asked for it again; and
\* no condition that is retained excludes a topic taken in again.  It needs
\* that nothing was said in the chat after the question: see the README.
ResolutionIsCurrent ==
    case.of = "conversation" =>
        LET h == case.history
            asked == h[case.at]
            own == {i \in DOMAIN h : /\ h[i].chat = asked.chat
                                     /\ h[i].role = "user" /\ h[i].complete}
        IN (asked.text.follow /\ \A i \in own : i <= case.at) =>
               FollowsUp(h, case.at, Recent(own \ {case.at}),
                         Resolution(h, asked.chat, asked.text))

(***************************************************************************)
(* Ingestion.                                                              *)
(***************************************************************************)

\* build_section_documents drops the formula headings of a section, and what
\* is under them, but for the last one, although its comment promises to keep
\* every formula with its clause.
Superseded(file, i) ==
    LET headings == {h \in DOMAIN file : file[h].kind = "heading"}
        under == {h \in headings : h <= i}
        after == {h \in headings : h > i}
        Formula(h) == file[h].formula /\ h # Min(headings)
    IN /\ \A m \in DOMAIN file : file[m].kind # "marker"
       /\ under # {} /\ Formula(Max(under))
       /\ after # {} /\ Formula(Min(after))

\* ingest, build_section_documents: but for those, every line of a file is in
\* one section document, whatever it is cut by and wherever tables and code
\* stand; a formula is in the document of the clause it belongs to; no two
\* documents have one id, from which those of their table chunks are made;
\* and nothing but a table under a dropped formula stops the ingestion.
SectionsAreWhole ==
    case.of = "file" =>
        LET file == case.file
            documents == case.out.documents
            Holding(i) == {k \in DOMAIN documents : i \in documents[k].lines}
            Clauses(h) == {g \in 1 .. h - 1 : file[g].kind = "heading" /\ ~file[g].formula}
        IN /\ case.out.failed => \E i \in DOMAIN file : Superseded(file, i) /\ file[i].kind = "row"
           /\ \A i \in DOMAIN file : ~Superseded(file, i) /\ file[i].kind # "marker" =>
                  Cardinality(Holding(i)) = 1
           /\ \A h \in DOMAIN file :
                  /\ file[h].kind = "heading" /\ file[h].formula /\ Clauses(h) # {}
                  /\ ~Superseded(file, h)
                  /\ \A m \in DOMAIN file : file[m].kind # "marker"
                  => Holding(h) = Holding(Max(Clauses(h)))
           /\ \A k, l \in DOMAIN documents : documents[k].id = documents[l].id => k = l

\* build_table_units: a table is published whole or not at all.  Every chunk
\* has its size; every character of every cell is shown, and shown together
\* with every character of each heading above it over any of its columns;
\* and a chunk that calls its headings explicit has them all, uncut.
TableIsWhole ==
    case.of = "table" /\ ~case.out.failed =>
        LET units == ToSet(case.out.units)
            heads == {h \in ToSet(Headings(case.rows)) : h.len > 0}
            cells == UNION {ToSet(row.cells) : row \in ToSet(case.rows)}
            Above(c) == {h \in heads :
                           /\ h.row < c.row
                           /\ (h.column .. h.column + h.span - 1)
                                \cap (c.column .. c.column + c.span - 1) # {}}
            Points(c) == IF c.len = 0 THEN {0} ELSE 0 .. c.len - 1
            Has(pieces, c, k) == \E p \in ToSet(pieces) :
                /\ p.cell = c /\ p.from <= k
                /\ k < p.to \/ c.len = 0
        IN /\ \A u \in units : Fits(u)
           /\ \A c \in cells : \A k \in Points(c) :
                  /\ \E u \in units : Has(u.cells, c, k)
                  /\ \A h \in Above(c) : \A l \in Points(h) :
                         \E u \in units : Has(u.cells, c, k) /\ Has(u.headers, h, l)
           /\ \A u \in units : u.status = "explicit" =>
                  \A p \in ToSet(u.cells) : \A h \in Above(p.cell) :
                      Whole(h) \in ToSet(u.headers)

\* What becomes of the text of a file on its way to the chunks.
TextIsWhole == SectionsAreWhole /\ TableIsWhole

===============================================================================
