------------------------------ MODULE Evidence ------------------------------
(***************************************************************************)
(* Evidence records of one request: how a list of candidates is admitted   *)
(* under a character budget and numbered with request-local E-IDs, and how *)
(* the optional admission callbacks reorder a candidate list before it is  *)
(* read.  Pure operators: records are opaque values, a record's native     *)
(* identity is the record itself, its length an entry of Size.             *)
(***************************************************************************)
EXTENDS Naturals, Sequences, FiniteSets, SequencesExt

CONSTANTS
    Record,   \* native records, one value per native identity
    Size,     \* Record -> length of its text
    Opaque,   \* records whose identity fields prove no equality
    Dead      \* records marked deleted or without text

ASSUME EvidenceAssumption ==
    /\ Size \in [Record -> Nat]
    /\ Opaque \subseteq Record
    /\ Dead \subseteq Record

\* An admitted record and the E-ID it is shown under.
Numbered == [rec : Record, eid : Nat]

Recs(items) == [i \in DOMAIN items |-> items[i].rec]

(***************************************************************************)
(* assign_evidence.  registry is the sequence of identities in the order   *)
(* they were numbered: E-ID n belongs to registry[n].  An opaque record    *)
(* gets a fresh token each time it is admitted.                            *)
(***************************************************************************)

Admitted(acc, rec, eid, registry) ==
    [kept |-> Append(acc.kept, [rec |-> rec, eid |-> eid]),
     used |-> acc.used + Size[rec],
     registry |-> registry]

AdmitOne(acc, rec, budget) ==
    LET known == {n \in DOMAIN acc.registry : acc.registry[n] = rec} IN
    IF \/ rec \in Dead
       \/ rec \notin Opaque /\ rec \in ToSet(Recs(acc.kept))
       \/ acc.used + Size[rec] > budget
    THEN acc
    ELSE IF rec \notin Opaque /\ known # {}
    THEN Admitted(acc, rec, CHOOSE n \in known : TRUE, acc.registry)
    ELSE Admitted(acc, rec, Len(acc.registry) + 1, Append(acc.registry, rec))

\* assign_evidence: keep what fits, skip what does not and go on.
Admission(items, budget, registry) ==
    LET after[n \in 0 .. Len(items)] ==
            IF n = 0 THEN [kept |-> <<>>, used |-> 0, registry |-> registry]
            ELSE AdmitOne(after[n - 1], items[n], budget)
    IN after[Len(items)]

Total(items) ==
    LET upto[n \in 0 .. Len(items)] ==
            IF n = 0 THEN 0 ELSE upto[n - 1] + Size[items[n]]
    IN upto[Len(items)]

(***************************************************************************)
(* What the admission callbacks have in common: records of the pool that   *)
(* have a proven identity are promoted, the rest keeps its order.          *)
(***************************************************************************)

Pool(items) == ToSet(items) \ (Dead \cup Opaque)

FirstAt(items, rec) == CHOOSE i \in DOMAIN items :
                          items[i] = rec /\ \A j \in 1 .. i - 1 : items[j] # rec

SelectedFirst(items, chosen) ==
    LET after[n \in 0 .. Len(items)] ==
            IF n = 0 THEN [k \in DOMAIN chosen |-> items[chosen[k]]]
            ELSE IF n \in ToSet(chosen) THEN after[n - 1]
            ELSE Append(after[n - 1], items[n])
    IN after[Len(items)]

(***************************************************************************)
(* order_by_query_frontiers.  A frontier is [raw, channels]: the result    *)
(* lists of one query; raw marks the user's own words.                     *)
(***************************************************************************)

\* Where a frontier offers a record of the pool, <<channel, place>>, and which.
Offers(f, pool) ==
    UNION {{<<c, i>> : i \in {i \in DOMAIN f.channels[c] : f.channels[c][i] \in pool}} :
               c \in DOMAIN f.channels}
Hit(f, offer) == f.channels[offer[1]][offer[2]]

\* query_frontiers cuts the channels to the pool, whence the depth of an offer;
\* a channel that is found again offers what has been offered already.
Depth(f, offer, pool) ==
    Cardinality({i \in 1 .. offer[2] : f.channels[offer[1]][i] \in pool})

\* The channels of a frontier are merged depth by depth.
Earliest(f, open, pool) ==
    CHOOSE o \in open : \A p \in open :
        \/ Depth(f, o, pool) < Depth(f, p, pool)
        \/ Depth(f, o, pool) = Depth(f, p, pool) /\ o[1] <= p[1]

Open(taken, f, pool, budget) ==
    {o \in Offers(f, pool) : /\ Hit(f, o) \notin ToSet(taken)
                             /\ Total(taken) + Size[Hit(f, o)] <= budget}

\* A frontier has its turn: the first record it offers that is new and fits.
\* Those its queue passes over are taken or too long, and so they stay.
Turn(taken, f, pool, budget, slots) ==
    LET open == Open(taken, f, pool, budget)
    IN IF Len(taken) >= slots \/ open = {} THEN taken
       ELSE Append(taken, Hit(f, Earliest(f, open, pool)))

Asked(frontiers, pool) ==
    {n \in DOMAIN frontiers : Offers(frontiers[n], pool) # {}}
RawOf(frontiers, pool) == {n \in Asked(frontiers, pool) : frontiers[n].raw}

\* Mutant: the user's own words have one turn in a round, as any others.
TakeTurnsEvenly(taken, frontiers, n, pool, budget, slots) ==
    IF n \notin Asked(frontiers, pool) THEN taken
    ELSE Turn(taken, frontiers[n], pool, budget, slots)

\* The user's own words have a turn before each of the others.
TakeTurns(taken, frontiers, n, pool, budget, slots) ==
    LET Take(some, m) == Turn(some, frontiers[m], pool, budget, slots)
        own == RawOf(frontiers, pool)
    IN IF n \notin Asked(frontiers, pool) \ own THEN taken
       ELSE IF own = {} THEN Take(taken, n)
       ELSE Take(Take(taken, Min(own)), n)

Round(taken, frontiers, pool, budget, slots) ==
    LET after[n \in 0 .. Len(frontiers)] ==
            IF n = 0 THEN taken
            ELSE TakeTurns(after[n - 1], frontiers, n, pool, budget, slots)
    IN after[Len(frontiers)]

\* The records chosen; a round that takes none is followed by no other that does.
Chosen(items, budget, frontiers, slots) ==
    LET pool == Pool(items)
        after[k \in 0 .. Len(items)] ==
            IF k = 0 THEN <<>>
            ELSE Round(after[k - 1], frontiers, pool, budget, slots)
    IN IF budget = 0 \/ Cardinality(Asked(frontiers, pool)) < 2 THEN <<>>
       ELSE after[Len(items)]

\* order_by_query_frontiers
ByFrontiers(items, budget, frontiers, slots) ==
    LET taken == Chosen(items, budget, frontiers, slots)
    IN SelectedFirst(items, [k \in DOMAIN taken |-> FirstAt(items, taken[k])])

(***************************************************************************)
(* order_by_query_coverage.  ranks[rec] is the best rank of a record per   *)
(* query group that found it.  A record gains by a group no promoted one   *)
(* covers as well; which of those that gain wins, by weight and length, is *)
(* left open.                                                              *)
(***************************************************************************)

Gains(rec, ranks, earlier) ==
    \E g \in DOMAIN ranks[rec] : \A e \in earlier :
        g \in DOMAIN ranks[e] => ranks[rec][g] < ranks[e][g]

\* A choice of positions order_by_query_coverage may promote, in order.
IsCoverage(items, budget, ranks, chosen) ==
    LET pool == Pool(items)
        CanFollow(i, n) ==
            LET before == [k \in 1 .. n |-> items[chosen[k]]]
            IN /\ items[i] \in pool
               /\ Total(before) + Size[items[i]] <= budget
               /\ Gains(items[i], ranks, ToSet(before))
    IN IF budget = 0 \/ Cardinality(UNION {DOMAIN ranks[r] : r \in pool}) < 2
       THEN chosen = <<>>
       ELSE /\ \A n \in DOMAIN chosen : CanFollow(chosen[n], n - 1)
            /\ \A i \in DOMAIN items : ~CanFollow(i, Len(chosen))
=============================================================================
