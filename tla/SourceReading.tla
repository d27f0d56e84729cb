----------------------------- MODULE SourceReading -----------------------------
(***************************************************************************)
(* The private reading of the evidence before an answer is written: which  *)
(* responses of the reader are taken over, and when a reading may guide    *)
(* the packer or the writer.  A passage is named by the E-ID of its record *)
(* and a number, so one name means another text when the evidence changes. *)
(***************************************************************************)
EXTENDS Evidence

CONSTANTS
    Revision,   \* record -> file and revision it belongs to
    Parts,      \* record -> number of its passages
    MaxCards,   \* cards of a reading (24)
    MaxQuoted   \* passages quoted by a reading, for their characters

ASSUME SourceReadingAssumption ==
    /\ DOMAIN Revision = Record
    /\ Parts \in [Record -> Nat]
    /\ MaxCards \in Nat /\ MaxQuoted \in Nat

\* A passage of numbered evidence, and the text it stands for.
Offered(items) ==
    UNION {{<<n.eid, p>> : p \in 1 .. Parts[n.rec]} : n \in ToSet(items)}
RecordOf(items, id) == (CHOOSE n \in ToSet(items) : n.eid = id[1]).rec
Quote(items, id) == <<RecordOf(items, id), id[2]>>

\* _prepare: what a reading is made of; deleted evidence is not read.
Snapshot(items, limits) == [items |-> items, limits |-> limits]
CanBeRead(items) == items # <<>> /\ \A n \in ToSet(items) : n.rec \notin Dead

\* _resolve_group: existing passages, all of one source and revision.
GroupFits(items, group) ==
    /\ group # {} /\ group \subseteq Offered(items)
    /\ Cardinality({Revision[RecordOf(items, id)] : id \in group}) = 1

\* _parse: a card quotes one group, a conflict two that share no passage.
CardFits(items, cards, n) ==
    LET card == cards[n] IN
    /\ IF card.kind = "conflict"
       THEN /\ Len(card.groups) = 2
            /\ card.groups[1] \cap card.groups[2] = {}
       ELSE Len(card.groups) = 1
    /\ \A g \in ToSet(card.groups) : GroupFits(items, g)
    /\ card.related \subseteq DOMAIN cards \ {n}

Quoted(cards) == UNION {UNION ToSet(card.groups) : card \in ToSet(cards)}

\* read_sources: the whole response or nothing of it.
NotRead == [assessed |-> FALSE, of |-> Snapshot(<<>>, FALSE), cards |-> <<>>,
            quotes |-> {}]
ReadingOf(items, limits, response) ==
    IF /\ CanBeRead(items)
       /\ response.snapshot = Snapshot(items, limits)
       /\ Len(response.cards) \in 1 .. MaxCards
       /\ \A n \in DOMAIN response.cards : CardFits(items, response.cards, n)
       /\ Cardinality(Quoted(response.cards)) <= MaxQuoted
    THEN [assessed |-> TRUE, of |-> response.snapshot, cards |-> response.cards,
          quotes |-> {<<id, Quote(items, id)>> : id \in Quoted(response.cards)}]
    ELSE NotRead

\* validated_writer_payload: the reading is rebuilt from the evidence given
\* now and must be equal to it.
Stands(reading, items, limits) ==
    /\ reading.assessed
    /\ reading = ReadingOf(items, limits, [snapshot |-> reading.of,
                                           cards |-> reading.cards])

Guide(reading, items, limits) ==
    IF Stands(reading, items, limits) THEN reading.quotes ELSE {}

\* selection_preferences: uncertain cards prefer nothing.
Preferences(reading, items, limits) ==
    LET sure == SelectSeq(reading.cards, LAMBDA c : c.kind # "uncertainty")
    IN IF Stands(reading, items, limits)
       THEN {q \in reading.quotes : q[1] \in Quoted(sure)} ELSE {}
===============================================================================
