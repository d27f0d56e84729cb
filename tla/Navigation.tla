------------------------------ MODULE Navigation ------------------------------
(***************************************************************************)
(* The bounded reading of documents before evidence is packed: what the    *)
(* snapshot provider answers to a tool call, and what navigate_sources     *)
(* makes of the calls a model proposes.  Handles and cursors are secrets   *)
(* of one provider: a model can name those it was shown in an earlier      *)
(* turn, anything else is a forgery, written here as the number 0.         *)
(***************************************************************************)
EXTENDS Evidence

CONSTANTS
    Native,     \* rows of the snapshot, in order: record and document
    Terms,      \* query -> row -> number of terms it matches
    FirstPage,  \* rows of the pages that open the prompt (12 and 20)
    MaxSteps,   \* completion calls
    MaxActions, \* actions of one decision
    MaxReads    \* records read

ASSUME NavigationAssumption ==
    /\ Native \in Seq([rec : Record, doc : Nat \ {0}])
    /\ \A q \in DOMAIN Terms : Terms[q] \in [DOMAIN Native -> Nat]
    /\ {FirstPage, MaxSteps, MaxActions, MaxReads} \subseteq Nat

(***************************************************************************)
(* DocumentNavigationProvider.                                             *)
(***************************************************************************)

\* __init__: deleted and empty rows get no handle.
Nodes == {i \in DOMAIN Native : Native[i].rec \notin Dead}

\* Rows in turn, given the rows that come before each.
Arranged(S, before) ==
    [k \in 1 .. Cardinality(S) |->
        CHOOSE i \in S : Cardinality(S \cap before[i]) = k - 1]
Earlier == [i \in Nodes |-> {j \in Nodes : j < i}]

\* The documents in order of their first row.
Titles ==
    LET firsts == {i \in Nodes : \A j \in Earlier[i] : Native[j].doc # Native[i].doc}
    IN [k \in 1 .. Cardinality(firsts) |-> Native[Arranged(firsts, Earlier)[k]].doc]

Of(doc) == {i \in Nodes : doc = 0 \/ Native[i].doc = doc}

\* A call that returns a page: of the documents, of the rows of one, or of
\* the rows that match a query, best first and then in native order.
Listing == [tool |-> "list_documents", doc |-> 0, query |-> "none"]
Outline(doc) == [tool |-> "outline", doc |-> doc, query |-> "none"]
Search(query, doc) == [tool |-> "search", doc |-> doc, query |-> query]

Better(terms) ==
    [i \in Nodes |-> {j \in Nodes : \/ terms[j] > terms[i]
                                    \/ terms[j] = terms[i] /\ j < i}]
PageRows(op) ==
    CASE op.tool = "list_documents" -> Titles
      [] op.tool = "outline" -> Arranged(Of(op.doc), Earlier)
      [] op.tool = "search" ->
            Arranged({i \in Of(op.doc) : Terms[op.query][i] > 0}, Better(Terms[op.query]))

\* A cursor: the call whose page it continues, and where.
Cursor(op, offset) == [op |-> op, offset |-> offset]
NoCursor == Cursor(Listing, 0)

\* Mutant: the scope of a cursor is not part of what is signed.
CursorFitsAny(op, cursor) ==
    \/ cursor = NoCursor
    \/ 0 < cursor.offset /\ cursor.offset < Len(PageRows(op))

\* _page: no cursor, or one issued for this very call.
CursorFits(op, cursor) ==
    \/ cursor = NoCursor
    \/ /\ cursor.op = op
       /\ 0 < cursor.offset /\ cursor.offset < Len(PageRows(op))

PageEnd(all, from, limit) ==
    IF from + limit < Len(all) THEN from + limit ELSE Len(all)

(***************************************************************************)
(* navigate_sources.  known: handles and cursors of earlier turns; fresh:  *)
(* those of this turn; shown: the rows of each page (history).             *)
(***************************************************************************)

NothingKnown == [nodes |-> {}, docs |-> {}, cursors |-> {}]
Both(k, l) == [nodes |-> k.nodes \cup l.nodes, docs |-> k.docs \cup l.docs,
                  cursors |-> k.cursors \cup l.cursors]

\* The page as a tool result.
Given(n, op, rows, next) ==
    LET handles ==
            IF op.tool = "list_documents"
            THEN [nodes |-> {}, docs |-> rows, cursors |-> next]
            ELSE [nodes |-> rows, docs |-> {Native[i].doc : i \in rows},
                  cursors |-> next]
    IN [n EXCEPT !.fresh = Both(@, handles),
                 !.shown = @ \cup {<<op, row>> : row \in rows},
                 !.ended = @ \cup (IF next = {} THEN {op} ELSE {})]
PageOf(n, op, all, from, stop) ==
    Given(n, op, ToSet(SubSeq(all, from + 1, stop)),
          IF stop < Len(all) THEN {Cursor(op, stop)} ELSE {})
Paged(n, op, cursor, limit) ==
    LET Page(all) == PageOf(n, op, all, cursor.offset,
                            PageEnd(all, cursor.offset, limit))
    IN Page(PageRows(op))

\* What was found is known from the next call on.
Learned(n) == [n EXCEPT !.known = Both(@, n.fresh), !.fresh = NothingKnown]

\* The pages that open the prompt; without a document or a budget it ends.
Opened(query, budget) ==
    LET blank == [known |-> NothingKnown, fresh |-> NothingKnown, shown |-> {},
                  ended |-> {}, records |-> <<>>, budget |-> budget,
                  step |-> 0, acts |-> 0, stop |-> "none"]
    IN IF Titles = <<>> \/ 0 \in {budget, MaxReads, MaxSteps, MaxActions}
       THEN [blank EXCEPT !.stop = "empty-scope-or-budget"]
       ELSE Learned(Paged(Paged(blank, Listing, NoCursor, FirstPage),
                          Search(query, 0), NoCursor, FirstPage))

\* read: a row of the snapshot with a proven identity not read before, whole
\* or not at all.
MayRead(n, i) ==
    /\ i \in Nodes
    /\ Native[i].rec \notin Opaque
    /\ Native[i].rec \notin ToSet(n.records)
    /\ Len(n.records) < MaxReads
    /\ Total(n.records) + Size[Native[i].rec] <= n.budget

\* A page is given for a known document; all else is a rejected action.
Pageable(op, cursor) ==
    /\ op.tool = "outline" => op.doc \in ToSet(Titles)
    /\ op.tool = "search" => op.doc \in ToSet(Titles) \cup {0}
    /\ CursorFits(op, cursor)

\* What the model can name.
Callable(n, queries) ==
    {Listing} \cup {Outline(d) : d \in n.known.docs}
    \cup {Search(q, d) : q \in queries, d \in n.known.docs \cup {0}}

\* One action of a decision, applied whether or not an earlier one failed.
Acted(n, m) == [m EXCEPT !.acts = n.acts + 1]
Browsed(n, op, cursor, limit) ==
    Acted(n, IF Pageable(op, cursor) THEN Paged(n, op, cursor, limit) ELSE n)
Read(n, i) ==
    Acted(n, IF MayRead(n, i)
             THEN [n EXCEPT !.records = Append(@, Native[i].rec)] ELSE n)
Finished(n) == [n EXCEPT !.stop = "finished"]

\* The results reach the model with its next call, if one is left.
Turned(n) ==
    [Learned(n) EXCEPT
        !.step = @ + 1, !.acts = 0,
        !.stop = IF n.step + 1 = MaxSteps THEN "step-limit" ELSE "none"]

\* The prompt outgrew its budget, or the decision was unusable: what was read
\* so far is kept.
Broken(n) == [n EXCEPT !.stop = "broken"]
===============================================================================
