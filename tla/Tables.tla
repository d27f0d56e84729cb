-------------------------------- MODULE Tables --------------------------------
(***************************************************************************)
(* How a native table becomes chunks of bounded size (build_table_units):  *)
(* a row fits as a whole, or cell by cell, or in pieces of a cell, each    *)
(* under the headings of its columns; or the table is not published.       *)
(* A text is the range of its characters; sizes are what the tokenizer and *)
(* the character limit make of them.                                       *)
(***************************************************************************)
EXTENDS Naturals, Sequences, FiniteSets, SequencesExt

CONSTANTS
    MaxUnit,    \* size of a chunk
    Awkward,    \* sizes below it that the tokenizer counts as too large
    MaxUnits,   \* chunks of one table
    Small,      \* longest cell that is repeated as context (128)
    LeastRoom   \* characters of a cell that headings leave room for (128)

ASSUME TablesAssumption ==
    /\ {MaxUnit, MaxUnits, Small, LeastRoom} \subseteq Nat
    /\ Awkward \subseteq Nat

\* A cell of a row, over columns column .. column + span - 1; a row without a
\* cell is skipped.
Cell == [row : Nat, column : Nat, span : Nat \ {0}, len : Nat]
TableRow == [header : BOOLEAN, cells : Seq(Cell)]

\* _fragment, _header_fragment: a literal range of a cell.
Piece(cell, from, to) == [cell |-> cell, from |-> from, to |-> to]
Fragment == [cell : Cell, from : Nat, to : Nat]
Whole(cell) == Piece(cell, 0, cell.len)
Wholes(cells) == [i \in DOMAIN cells |-> Whole(cells[i])]

Chunk(status, headers, cells, context) ==
    [status |-> status, headers |-> headers, cells |-> cells,
     context |-> context]

\* Headings and what is known of them; the chunks so far.
Banner == [status : {"explicit", "candidate", "unknown"}, headers : Seq(Fragment)]
Emitted == [units : Seq([status : {"explicit", "candidate", "unknown"}, headers : Seq(Fragment),
                         cells : Seq(Fragment), context : Seq(Fragment)]),
            failed : BOOLEAN]

Weight(pieces) == FoldLeft(LAMBDA n, p : n + 1 + p.to - p.from, 0, pieces)
Fits(unit) ==
    Weight(unit.headers \o unit.cells \o unit.context) \in (0 .. MaxUnit) \ Awkward

Lesser(m, n) == IF m < n THEN m ELSE n

\* The binary search for the end of a piece: the last probe that fitted.
Probe(Good(_), low, high, best) ==
    LET probe[l, h, b \in Nat] ==
          LET middle == (l + h) \div 2
          IN IF l > h THEN b
             ELSE IF Good(middle) THEN probe[middle + 1, h, middle]
             ELSE probe[l, middle - 1, b]
    IN probe[low, high, best]

\* append_unit: the units so far, or nothing at all.
Nothing == [units |-> <<>>, failed |-> FALSE]
Failed == [units |-> <<>>, failed |-> TRUE]
Appended(acc, unit) ==
    IF acc.failed \/ Len(acc.units) >= MaxUnits THEN Failed
    ELSE [acc EXCEPT !.units = Append(@, unit)]

\* Mutant: a merged cell is under the heading of its first column only.
CoversStart(header, cell) == header.column = cell.column

\* project_headers: the headings over a cell.
Covers(header, cell) ==
    /\ header.column < cell.column + cell.span
    /\ cell.column < header.column + header.span

Projected(headers, cell) ==
    SelectSeq(headers, LAMBDA h : Covers(h.cell, cell) /\ h.cell.len > 0)

\* A heading that no chunk can hold, cut into literal pieces; an empty group
\* says that not even one character has room.
Slices(h, least, reserved) ==
    LET Under(from, to, piece) == Chunk("unknown", <<Piece(h.cell, from, to)>>, <<piece>>, <<>>)
        slices[from \in 0 .. h.to] ==
          LET reserve == IF Fits(Under(from, from + 1, reserved)) THEN reserved ELSE least
              Good(to) == Fits(Under(from, to, reserve))
              to == Probe(Good, from + 2, h.to, from + 1)
          IN IF from = h.to THEN <<>>
             ELSE IF ~Fits(Under(from, from + 1, least)) THEN <<<<>>>>
             ELSE <<<<Piece(h.cell, from, to)>>>> \o slices[to]
    IN slices[h.from]

\* The headings of a cell in groups that leave room for it.
Groups(headers, least, reserved) ==
    LET Flush(acc) ==
            IF acc.group = <<>> THEN acc
            ELSE [groups |-> Append(acc.groups, acc.group), group |-> <<>>]
        Under(hs, piece) == Fits(Chunk("unknown", hs, <<piece>>, <<>>))
        Add(acc, h) ==
            LET cut == IF Under(Append(acc.group, h), reserved) THEN acc
                       ELSE Flush(acc)
            IN IF Under(<<h>>, least)
               THEN [cut EXCEPT !.group = Append(@, h)]
               ELSE LET done == Flush(cut)
                    IN [done EXCEPT !.groups =
                           @ \o Slices(h, least, reserved)]
    IN Flush(FoldLeft(Add, [groups |-> <<>>, group |-> <<>>], headers)).groups

\* The longest beginning of the context that leaves room for a piece.
Beside(status, headers, least, context) ==
    LET Leaves(k) == Fits(Chunk(status, headers, <<least>>, SubSeq(context, 1, k)))
    IN SubSeq(context, 1, Max({0} \cup {k \in DOMAIN context : Leaves(k)}))

\* emit_cell: the pieces of one cell, from start on, under its headings; all
\* is the row's headings and their status, project says whether they may be
\* narrowed.  Headings that leave room for the reserved text but, to the
\* tokenizer, not for its first character are grouped in the same way again
\* and again: the recursion ends in an error.
EmitCell(out, cell, all, others) ==
    LET emit[acc \in Emitted, now \in Banner, context \in Seq(Fragment),
             start \in Nat, project \in BOOLEAN] ==
          LET least == Piece(cell, start, Lesser(start + 1, cell.len))
              beside == Beside(now.status, now.headers, least, context)
              roomy == Fits(Chunk(now.status, now.headers, <<least>>, beside))
              base == IF roomy \/ ~project THEN now
                      ELSE [all EXCEPT !.headers = Projected(@, cell)]
              Part(to) == Chunk(base.status, base.headers, <<Piece(cell, start, to)>>, beside)
              Good(to) == Fits(Part(to))
              end == Probe(Good, least.to + 1, cell.len, least.to)
              more == Appended(acc, Part(end))
              groups == Groups(base.headers, least,
                               Piece(cell, start, Lesser(start + LeastRoom, cell.len)))
              Split(gs) ==
                  IF gs \in {<<>>, IF project THEN <<>> ELSE <<base.headers>>} \/ <<>> \in ToSet(gs)
                  THEN Failed
                  ELSE FoldLeft(LAMBDA a, g : emit[a, [status |-> "unknown", headers |-> g],
                                                   <<>>, start, FALSE],
                                acc, gs)
          IN IF acc.failed THEN acc
             ELSE IF ~Good(least.to) THEN Split(groups)
             ELSE IF end < cell.len THEN emit[more, base, beside, end, project]
             ELSE more
    IN emit[out, all, others, 0, TRUE]

\* A row: whole, or as many cells together as fit, or cell by cell.
EmitRow(acc, row, all) ==
    LET literal == [all EXCEPT !.headers =
                       SelectSeq(@, LAMBDA h : h.cell.len > 0)]
        Of(pieces) == Chunk(literal.status, literal.headers, pieces, <<>>)
        Flush(s) == IF s.pending = <<>> THEN s
                    ELSE [out |-> Appended(s.out, Of(s.pending)), pending |-> <<>>]
        Others(cell) == SelectSeq(Wholes(row.cells), LAMBDA p :
                            p.cell # cell /\ p.to \in 1 .. Small)
        Add(s, cell) ==
            IF Fits(Of(Append(s.pending, Whole(cell))))
            THEN [s EXCEPT !.pending = Append(@, Whole(cell))]
            ELSE LET done == Flush(s)
                 IN IF Fits(Of(<<Whole(cell)>>))
                    THEN [done EXCEPT !.pending = <<Whole(cell)>>]
                    ELSE [done EXCEPT !.out =
                             EmitCell(@, cell, literal, Others(cell))]
        whole == Chunk(all.status, all.headers, Wholes(row.cells), <<>>)
    IN IF row.cells = <<>> \/ acc.failed THEN acc
       ELSE IF Fits(whole) THEN Appended(acc, whole)
       ELSE Flush(FoldLeft(Add, [out |-> acc, pending |-> <<>>], row.cells)).out

\* The headings: the leading header rows, else the first row is a candidate.
Leading(rows) ==
    {i \in DOMAIN rows : \A j \in 1 .. i : rows[j].header}
Headings(rows) ==
    IF Leading(rows) = {} THEN rows[1].cells
    ELSE FoldLeft(LAMBDA cs, r : cs \o r.cells, <<>>,
                  SubSeq(rows, 1, Cardinality(Leading(rows))))
Status(rows, ambiguous) ==
    IF \/ ambiguous
       \/ ~rows[1].header /\ \E i \in DOMAIN rows : rows[i].header
    THEN "unknown"
    ELSE IF Leading(rows) = {} THEN "candidate" ELSE "explicit"

\* build_table_units: every row under the headings above it.
TableUnits(rows, ambiguous) ==
    LET above(i) == SelectSeq(Wholes(Headings(rows)), LAMBDA h : h.cell.row < i)
    IN FoldLeft(LAMBDA acc, i :
                    EmitRow(acc, rows[i], [status |-> Status(rows, ambiguous),
                                           headers |-> above(i)]),
                Nothing, [i \in DOMAIN rows |-> i])
===============================================================================
