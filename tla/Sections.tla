------------------------------ MODULE Sections ------------------------------
(***************************************************************************)
(* How the text of a file becomes the section documents that ingest cuts   *)
(* into chunks: Markdown tables are taken out (markdown_tables,            *)
(* protect_table_regions), the rest is cut at its section markers, its     *)
(* headings or its clause numbers (build_section_documents), and a table   *)
(* whose place was lost on the way stops the ingestion                     *)
(* (chunk_documents_with_tables).                                          *)
(*                                                                         *)
(* A file is a sequence of lines, blank ones left out, and a line is what  *)
(* the patterns of the code make of it.  A text is the set of its lines.   *)
(***************************************************************************)
EXTENDS Naturals, Sequences, FiniteSets, SequencesExt

CONSTANTS
    Marker,  \* names in [SECTION: ...] markers
    Level,   \* levels of Markdown headings
    Width    \* cells of a table row

ASSUME SectionsAssumption == Level \cup Width \subseteq Nat \ {0}

\* A heading may be a formula (it starts like one and has "=" or min, max); a
\* row has cells, and a rule is a row of dashes; a fence opens or ends code.
Line == [kind : {"marker"}, name : Marker]
          \cup [kind : {"heading"}, level : Level, formula : BOOLEAN]
          \cup [kind : {"row"}, width : Width, rule : BOOLEAN]
          \cup [kind : {"clause", "text", "fence"}]

\* A block of the text: lines of the file under one kind.
BlockOf(line, i) == [line |-> line, at |-> {i}]

-----------------------------------------------------------------------------
(* Tables are taken out.                                                   *)

\* a heading row and, under it, a rule with as many cells
TableBegins(file, i) ==
    /\ i < Len(file) /\ file[i].kind = "row" /\ file[i].width >= 2
    /\ file[i + 1].kind = "row" /\ file[i + 1].rule /\ file[i + 1].width = file[i].width

\* markdown_tables, line by line: a table lasts while there are rows, and is
\* not looked for in code
Scanned(file, acc, i) ==
    LET line == file[i]
        own == [acc EXCEPT !.blocks = Append(@, BlockOf(line, i)), !.open = FALSE]
    IN IF acc.open /\ line.kind = "row"
       THEN [acc EXCEPT !.blocks[Len(acc.blocks)].at = @ \cup {i}]
       ELSE IF line.kind = "fence" THEN [own EXCEPT !.code = ~@]
       ELSE IF ~acc.code /\ TableBegins(file, i)
       THEN [acc EXCEPT !.blocks = Append(@, BlockOf([kind |-> "table"], i)), !.open = TRUE]
       ELSE own

\* protect_table_regions: every table is one placeholder
Protected(file) ==
    LET scan[n \in 0 .. Len(file)] ==
            IF n = 0 THEN [blocks |-> <<>>, open |-> FALSE, code |-> FALSE]
            ELSE Scanned(file, scan[n - 1], n)
    IN scan[Len(file)].blocks

-----------------------------------------------------------------------------
(* The rest is cut into documents.  blocks is what Protected returns, S the *)
(* places where something begins.                                           *)

Places(blocks, kind) == {b \in DOMAIN blocks : blocks[b].line.kind = kind}
InTurn(S) == [k \in 1 .. Cardinality(S) |->
                CHOOSE s \in S : Cardinality({t \in S : t < s}) = k - 1]
LinesOf(blocks, S) == UNION {blocks[b].at : b \in S}
\* from b to the next place
Stretch(blocks, S, b) == {c \in DOMAIN blocks : b <= c /\ \A s \in S : s > b => c < s}
Preamble(blocks, S) == {c \in DOMAIN blocks : \A s \in S : c < s}

\* a document: its doc_id, the headings of its section_path, its lines
SectionDocument(id, path, lines) == [id |-> id, path |-> path, lines |-> lines]
AfterPreamble(blocks, S, documents) ==
    IF Preamble(blocks, S) = {} THEN documents
    ELSE <<SectionDocument(<<"preamble">>, <<>>, LinesOf(blocks, Preamble(blocks, S)))>> \o documents

\* markers that begin a section: repeated ones go on with it
Opening(blocks) ==
    LET markers == Places(blocks, "marker")
    IN {m \in markers : \A n \in markers :
          (n < m /\ \A k \in markers : ~(n < k /\ k < m)) => blocks[n].line.name # blocks[m].line.name}

\* explicit sections; one without text is left out, and one whose name comes
\* again gets a number
Marked(blocks) ==
    LET opening == Opening(blocks)
        body(m) == Stretch(blocks, opening, m) \ Places(blocks, "marker")
        filled == {m \in opening : body(m) # {}}
        name(m) == blocks[m].line.name
        number(m) == Cardinality({n \in filled : n < m /\ name(n) = name(m)})
        order == InTurn(filled)
    IN AfterPreamble(blocks, opening,
         [k \in DOMAIN order |->
            SectionDocument(<<"section", name(order[k]), number(order[k])>>, <<name(order[k])>>,
                            LinesOf(blocks, body(order[k])))])

\* headings that begin a section: a formula belongs to the one before it
SectionUnits(blocks) ==
    LET headings == Places(blocks, "heading")
    IN {h \in headings : ~blocks[h].line.formula \/ \A g \in headings : h <= g}

\* markdown_stack: the headings over u, and u
Stack(blocks, units, u) ==
    FoldLeft(LAMBDA stack, h :
               Append(SubSeq(stack, 1, (IF blocks[h].line.level <= Len(stack)
                                        THEN blocks[h].line.level - 1 ELSE Len(stack))), h),
             <<>>, InTurn({h \in units : h <= u}))

\* sections by Markdown headings; a formula takes the place of the one that
\* its section had before
Headed(blocks) ==
    LET headings == Places(blocks, "heading")
        units == SectionUnits(blocks)
        formulas(u) == {h \in headings \ units : u < h /\ \A v \in units : ~(u < v /\ v < h)}
        formula(u) == {h \in formulas(u) : \A g \in formulas(u) : g <= h}
        order == InTurn(units)
    IN AfterPreamble(blocks, headings,
         [k \in DOMAIN order |->
            SectionDocument(<<"section", Stack(blocks, units, order[k]), k>>, Stack(blocks, units, order[k]),
                            LinesOf(blocks, UNION {Stretch(blocks, headings, h) :
                                                     h \in {order[k]} \cup formula(order[k])}))])

\* legal text without headings: a section for each numbered clause
Claused(blocks) ==
    LET clauses == Places(blocks, "clause")
        order == InTurn(clauses)
    IN AfterPreamble(blocks, clauses,
         [k \in DOMAIN order |->
            SectionDocument(<<"clause", order[k], k>>, <<order[k]>>,
                            LinesOf(blocks, Stretch(blocks, clauses, order[k])))])

\* build_section_documents
SectionDocuments(blocks) ==
    IF Places(blocks, "marker") # {} THEN Marked(blocks)
    ELSE IF Places(blocks, "heading") # {} THEN Headed(blocks)
    ELSE IF Cardinality(Places(blocks, "clause")) >= 2 THEN Claused(blocks)
    ELSE <<SectionDocument(<<"section">>, <<>>, LinesOf(blocks, DOMAIN blocks))>>

\* chunk_documents_with_tables: every placeholder once, or nothing at all
PlacesOnce(blocks, documents) ==
    \A b \in Places(blocks, "table") :
        Cardinality({k \in DOMAIN documents : blocks[b].at \subseteq documents[k].lines}) = 1
Ingested(file) ==
    LET blocks == Protected(file)
        documents == SectionDocuments(blocks)
    IN [failed |-> ~PlacesOnce(blocks, documents), documents |-> documents]
=============================================================================
