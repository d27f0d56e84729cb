----------------------------- MODULE Retrieval -----------------------------
(***************************************************************************)
(* One call of RAGAgent.retrieve_context (rag_agent.py): a dozen lexical   *)
(* channels and the vector store propose chunks, the proposals are merged, *)
(* cut to what the user may see, widened again from the raw docstore,      *)
(* reranked, routed over the business domains, diversified and packed.     *)
(*                                                                         *)
(* The docstore is one snapshot (its replacement under a running request   *)
(* is in OrdinaryAnswer).  Similarity, cross-encoder and heuristic scores  *)
(* are left open: an order by score is any order.  What the code decides   *)
(* by structure (filters, quotas, reservations, caps, what overwrites      *)
(* what) is kept.                                                          *)
(***************************************************************************)
EXTENDS Packing, FiniteSetsExt

CONSTANTS
    Domains,     \* Domains[f]: the business domains of a file
    Equation,    \* the chunks that hold an equation
    Accounting,  \* the chunks of type cost, rate or history
    Related,     \* Related[c]: chunks of the same file a strong hit leads to
    VectorHits,  \* the answers the hybrid retriever may give, sets of chunks
    SeedTop,     \* ranked hits relationship expansion starts from (8)
    Requests     \* the calls, see RequestFields

(* A request: the sources it excludes, may see, names, and the private      *)
(* ones of the chat; the active business domains; the chunks each lexical   *)
(* channel matches (hits), those holding every subject word (direct) and    *)
(* those with the looked-up entity (entity); the sections it is limited to  *)
(* (target), that match as headings (heads) or that another category rules  *)
(* out (unfit); the references between sections it may follow (refs), its   *)
(* subjects, the document families of its topic (topics), the price         *)
(* category it is about ("one", "generic" or "none"), and the kind of       *)
(* question and call; topk passages are asked for and frontiers says that   *)
(* query ranks compete.                                                     *)
RequestFields ==
    {"excluded", "aliases", "named", "private", "domains", "hits", "direct", "entity",
     "target", "heads", "unfit", "refs", "subjects", "topics", "occurrence", "pool",
     "coverage", "formula", "procedure", "reader", "overview", "exceptions",
     "category", "value", "frontiers", "topk"}

Channels == <<"body", "probe", "procedural", "exact", "lexical", "section", "entity",
              "clause", "concept", "occurrence", "category", "scoped", "domain">>

\* active_domains: RRE and OREM are the only domains a question is routed to
ASSUME RequestAssumption ==
    \A q \in Requests : /\ DOMAIN q = RequestFields
                        /\ q.hits \in [ToSet(Channels) -> SUBSET Chunk]
                        /\ q.entity \subseteq Chunk /\ q.direct \subseteq Chunk
                        /\ IsFiniteSet(q.subjects) /\ q.topk \in Nat \ {0}
                        /\ q.topics \in Seq(ToSet(q.topics))
                        /\ q.domains \in Seq({"rre", "orem"}) /\ Len(q.domains) <= 2
ASSUME RetrievalAssumption ==
    /\ VectorHits \subseteq SUBSET Chunk /\ Equation \subseteq Chunk /\ SeedTop \in Nat
    /\ \A c \in Chunk : Related[c] \subseteq Chunk

VARIABLES
    r,        \* the arguments
    pc,       \* the channel or stage reached
    merged,   \* merged: chunk -> the channels that proposed it
    probes,   \* probe_body_items: chunks found by an extra probe
    ranked,   \* ranked: a sequence of chunks
    packed,   \* passages packed so far
    pool,     \* candidates of the coverage packer
    covered,  \* subjects the packed passages cover
    shown     \* what the last step handed outside: to a reranker or reader
              \* model, or to the caller

vars == <<r, pc, merged, probes, ranked, packed, pool, covered, shown>>

Init == /\ r \in Requests
        /\ pc = "body"
        /\ merged = <<>> /\ probes = {} /\ ranked = <<>> /\ packed = <<>>
        /\ pool = {} /\ covered = {} /\ shown = {}

-----------------------------------------------------------------------------
(* The channels: what each may propose, and how many.                      *)

Quota(ch) ==
    CASE ch = "exact" -> 8 [] ch = "lexical" -> 12 [] ch = "entity" -> 24 [] ch = "clause" -> 3
      [] ch = "concept" -> 1 [] ch = "occurrence" -> 100 [] ch = "category" -> 60
      [] OTHER -> Most(3 * r.topk, 24)

\* most chunks of one document, or of one file
PerSource(ch) ==
    CASE ch = "entity" -> 3 [] ch = "category" -> 12 [] ch = "occurrence" -> 1 [] OTHER -> 60

\* _regulation_concept_seed_results: eligibility comes before the quota
ConceptSeeds ==
    {c \in r.hits["concept"] \ Gone :
        /\ Visible(r, File[c]) /\ c \notin Hostile
        /\ r.target = {} \/ Section[c] \in r.target
        /\ Section[c] \notin r.unfit}

\* body_seeds, and the extra probes, which add to what is already merged:
\* the scope comes before the quota
BodySeeds(ch) ==
    {c \in r.hits[ch] \ Gone : Visible(r, File[c]) /\ Section[c] \notin r.unfit}
ProbeSeeds == BodySeeds("probe") \ DOMAIN merged
\* the other channels read the whole docstore; the procedural one keeps even
\* repealed chunks
ProceduralSeeds == r.hits["procedural"]
ExactSeeds == r.hits["exact"] \ Gone
LexicalSeeds == r.hits["lexical"] \ Gone
SectionSeeds == r.hits["section"] \ (Gone \cup Accounting)
EntitySeeds == r.hits["entity"] \ Gone
ClauseSeeds == r.hits["clause"] \ Gone
OccurrenceSeeds == IF r.occurrence THEN r.entity \ Gone ELSE {}
CategorySeeds == r.hits["category"] \ Gone
ScopedSeeds == {c \in r.hits["scoped"] \ Gone : File[c] \in (IF r.named # {} THEN r.named ELSE r.private)}
DomainSeeds == {c \in r.hits["domain"] \ Gone : Domains[File[c]] \cap ToSet(r.domains) # {}}

Proposals(ch) ==
    CASE ch = "body" -> BodySeeds("body") [] ch = "probe" -> ProbeSeeds
      [] ch = "procedural" -> ProceduralSeeds [] ch = "exact" -> ExactSeeds
      [] ch = "lexical" -> LexicalSeeds [] ch = "section" -> SectionSeeds
      [] ch = "entity" -> EntitySeeds [] ch = "clause" -> ClauseSeeds
      [] ch = "concept" -> ConceptSeeds [] ch = "occurrence" -> OccurrenceSeeds
      [] ch = "category" -> CategorySeeds [] ch = "scoped" -> ScopedSeeds
      [] ch = "domain" -> DomainSeeds

SourceOf(ch, c) == IF ch = "occurrence" THEN File[c] ELSE Document[File[c]]

\* the best scored proposals within both quotas, whichever they are
Picks(ch) ==
    LET mine(S, c) == {d \in S : SourceOf(ch, d) = SourceOf(ch, c)}
        full(S, c) == Cardinality(mine(S, c)) >= PerSource(ch)
    IN {S \in SUBSET Proposals(ch) :
          /\ Cardinality(S) <= Quota(ch)
          /\ \A c \in S : Cardinality(mine(S, c)) <= PerSource(ch)
          /\ \A c \in Proposals(ch) \ S : Cardinality(S) = Quota(ch) \/ full(S, c)}

\* a later channel replaces the record of an earlier one; the domain channel
\* adds to it
Overlay(m, S, tag) == [c \in DOMAIN m \cup S |-> IF c \in S THEN {tag} ELSE m[c]]
Extend(m, S, tag) ==
    [c \in DOMAIN m \cup S |-> (IF c \in DOMAIN m THEN m[c] ELSE {}) \cup (IF c \in S THEN {tag} ELSE {})]

\* the seed channels in their order
Following(ch) ==
    IF ch = "domain" THEN "search" ELSE Channels[1 + CHOOSE k \in DOMAIN Channels : Channels[k] = ch]
Seed ==
    /\ pc \in ToSet(Channels)
    /\ \E S \in Picks(pc) :
         /\ merged' = IF pc = "domain" THEN Extend(merged, S, pc) ELSE Overlay(merged, S, pc)
         /\ probes' = IF pc = "probe" THEN S ELSE probes
    /\ pc' = Following(pc)
    /\ UNCHANGED <<r, ranked, packed, pool, covered, shown>>

\* vector and BM25 search: repealed, hidden and hostile chunks included
Search ==
    /\ pc = "search"
    /\ \E S \in VectorHits : merged' = Extend(merged, S, "vector")
    /\ pc' = "siblings"
    /\ UNCHANGED <<r, probes, ranked, packed, pool, covered, shown>>

\* formula_sibling_results: at most six equations of the three best sources
Siblings ==
    /\ pc = "siblings"
    /\ LET sources == {Document[File[c]] : c \in DOMAIN merged}
           equations(D) == {c \in Equation \ Gone : Document[File[c]] \in D}
       IN \E D \in kSubset(Least(3, Cardinality(sources)), sources) :
            LET found == SubSeq(InOrder(equations(D)), 1, Least(6, Cardinality(equations(D))))
                all == IF r.formula THEN Extend(merged, ToSet(found), "sibling") ELSE merged
            IN merged' = [c \in DOMAIN all |->
                            IF c \in probes THEN all[c] \cup {"body"} ELSE all[c]]
    /\ pc' = "scope"
    /\ UNCHANGED <<r, probes, ranked, packed, pool, covered, shown>>

-----------------------------------------------------------------------------
(* Scope, expansion and routing.                                           *)

Allowed(S) == {c \in S : Visible(r, File[c]) /\ c \notin Hostile}
\* scores decide: any order
Ranked(S) == SetToSeqs(S)

\* the first filter: scope and injection, not yet repealed clauses
Scope ==
    /\ pc = "scope"
    /\ \E seq \in Ranked(Allowed(DOMAIN merged)) : ranked' = seq
    /\ pc' = IF r.occurrence /\ ~r.pool THEN "documents" ELSE "expand"
    /\ UNCHANGED <<r, merged, probes, packed, pool, covered, shown>>

First(seq, n) == SubSeq(seq, 1, Least(n, Len(seq)))
\* of the places P, the first of each document, at most n
FirstPerDocument(seq, P, n) ==
    First(Places({i \in P : \A j \in P : j < i => Document[File[seq[j]]] # Document[File[seq[i]]]}), n)

\* a question for the documents an entity occurs in: one passage of each, the
\* repealed ones dropped at the end
Documents ==
    /\ pc = "documents"
    /\ \E seq \in Ranked(ToSet(ranked)) :
         LET places == FirstPerDocument(seq, {i \in DOMAIN seq : seq[i] \in r.entity}, r.topk)
         IN ranked' = Kept(Chunk \ Gone, At(seq, places))
    /\ shown' = ToSet(ranked')
    /\ pc' = "done"
    /\ UNCHANGED <<r, merged, probes, packed, pool, covered>>

\* Mutant: trust in the text is not looked at again.
InScopeTrusting(S) ==
    {c \in S \ Gone : Visible(r, File[c])}
\* filter_scoped_evidence: the boundary, repeated after every expansion
InScope(S) ==
    {c \in S \ Gone : Visible(r, File[c]) /\ c \notin Hostile}
InTarget(S) == {c \in S : r.target = {} \/ Section[c] \in r.target}

\* relationship_expansion_results: at most two neighbours of a strong hit
Expand ==
    /\ pc = "expand"
    /\ LET seeds == ToSet(SubSeq(ranked, 1, Least(SeedTop, Len(ranked))))
           near(c) == Related[c] \ (Gone \cup Hostile \cup ToSet(ranked))
       IN \E S \in SUBSET UNION {near(c) : c \in seeds} :
            /\ \A c \in (UNION {near(d) : d \in seeds}) \ S :
                 \/ Cardinality(S) >= Most(r.topk, 12)
                 \/ \A d \in seeds : c \in near(d) => Cardinality(near(d) \cap S) >= 2
            /\ ranked' = InOrder(InScope(ToSet(ranked) \cup S))
    /\ pc' = "rerank"
    /\ UNCHANGED <<r, merged, probes, packed, pool, covered, shown>>

\* reranker.rerank: the texts go to the cross-encoder service
Rerank ==
    /\ pc = "rerank"
    /\ shown' = ToSet(ranked)
    /\ pc' = "route"
    /\ UNCHANGED <<r, merged, probes, ranked, packed, pool, covered>>

Tags(c) == IF c \in DOMAIN merged THEN merged[c] ELSE {"related"}
Tagged(seq, tag) == {i \in DOMAIN seq : tag \in Tags(seq[i])}

\* one passage of each active domain, then direct category hits, then direct
\* lexical hits, each of a document not yet reserved
Heads(seq) ==
    LET places(d) == {i \in DOMAIN seq : d \in Domains[File[seq[i]]]}
        active == Kept({d \in ToSet(r.domains) : places(d) # {}}, r.domains)
    IN [k \in DOMAIN active |-> Min(places(active[k]))]
Reserved(seq) ==
    LET known(acc) == {Document[File[seq[i]]] : i \in ToSet(acc)}
        more(acc, P, n) ==
            acc \o FirstPerDocument(seq, {i \in P : Document[File[seq[i]]] \notin known(acc)}, n)
        category == more(Heads(seq), Tagged(seq, "category"), Least(6, Most(3, r.topk \div 2)))
    IN more(category, {i \in Tagged(seq, "domain") :
                         r.domains = <<>> \/ Domains[File[seq[i]]] \cap ToSet(r.domains) # {}},
            Least(6, Most(2, r.topk \div 2)))

\* Mutant: the cap is applied to the order by score alone.
RoutedByScore(seq) == First(seq, 3 * r.topk)
\* apply_domain_routing: the reserved passages come before the cap
Routed(seq) ==
    LET first == Reserved(seq)
        ordered == At(seq, first \o Places(DOMAIN seq \ ToSet(first)))
    IN IF r.coverage \/ r.pool \/ r.frontiers THEN ordered ELSE First(ordered, 3 * r.topk)

\* one passage may have been reserved for two domains
Sorted(seq) ==
    At(seq, ByKey(DOMAIN seq, [i \in DOMAIN seq |-> Position[seq[i]] * (Len(seq) + 1) + i]))

Route ==
    /\ pc = "route"
    /\ \E seq \in Ranked(ToSet(ranked)) : ranked' = Sorted(Routed(seq))
    /\ shown' = {}
    /\ pc' = IF r.pool THEN "candidates" ELSE "arrange"
    /\ UNCHANGED <<r, merged, probes, packed, pool, covered>>

Eligible(S) == {c \in InTarget(InScope(S)) : Section[c] \notin r.unfit}

\* candidate_pool_only: the corrective loop packs for itself
Candidates ==
    /\ pc = "candidates"
    /\ ranked' = Kept(Eligible(ToSet(ranked)), ranked)
    /\ shown' = ToSet(ranked')
    /\ pc' = "done"
    /\ UNCHANGED <<r, merged, probes, packed, pool, covered>>

-----------------------------------------------------------------------------
(* Diversification and packing.                                            *)

Lead(seq, places) == At(seq, places \o Places(DOMAIN seq \ ToSet(places)))
Then(head, seq) == head \o Kept(ToSet(seq) \ ToSet(head), seq)

\* reserve_topic_source_coverage: one passage of each family of the topic
TopicFirst(seq) ==
    LET of(doc) == {i \in DOMAIN seq : Document[File[seq[i]]] = doc}
        found == First(Kept({doc \in ToSet(r.topics) : of(doc) # {}}, r.topics), r.topk)
        places == [k \in DOMAIN found |-> Min(of(found[k]))]
    IN IF Len(places) = r.topk THEN At(seq, places) ELSE Lead(seq, places)

\* Mutant: private passages keep the place their score gives them.
PrivateAnywhere(seq) == seq
\* prioritize_scoped_results: a third of the places for the chat's own files
PrivateFirst(seq) == Lead(seq, First(Places(Tagged(seq, "scoped")), Least(3, Most(1, r.topk \div 3))))

\* diversify_context_results: the places of what the question asks for by
\* name; a passage may be named twice
CategoryPlaces(seq, lexical) ==
    LET direct == Tagged(seq, "category")
        elsewhere(one) == {i \in DOMAIN seq :
                             \A j \in ToSet(one) : Document[File[seq[i]]] # Document[File[seq[j]]]}
        beside(one) == one \o Kept(elsewhere(one), FirstPerDocument(seq, direct, r.topk))
    IN CASE r.category = "generic" -> FirstPerDocument(seq, direct, Most(1, Least(r.topk, 6) - Len(lexical)))
         [] r.category = "one" -> beside(First(Places(direct), Least(3, r.topk)))
         [] OTHER -> <<>>
\* further places of P while there is room
Upto(seq, named, P, n) == named \o First(Places(P \ ToSet(named)), Most(0, n - Len(named)))
InForce(seq) == {i \in DOMAIN seq : seq[i] \notin Gone}
WithExact(seq, named) == Upto(seq, named, Tagged(seq, "exact") \cap InForce(seq), r.topk)
WithTerm(seq, exact) ==
    Upto(seq, exact, {i \in InForce(seq) : seq[i] \in r.hits["section"]}, Len(exact) + 1)
Named(seq) ==
    LET lexical == IF r.procedure
                   THEN FirstPerDocument(seq, Tagged(seq, "domain"), Least(r.topk, 4)) ELSE <<>>
    IN WithTerm(seq, WithExact(seq, lexical \o CategoryPlaces(seq, lexical)))

\* then at most two passages of a section until the last places, then anything
Spread(seq, named) ==
    LET inSection(acc, i) == {j \in DOMAIN acc : Section[seq[acc[j]]] = Section[seq[i]]}
        f[n \in 0 .. Len(seq)] ==
          IF n = 0 THEN named
          ELSE IF \/ Len(f[n - 1]) >= r.topk \/ n \in ToSet(f[n - 1]) \/ seq[n] \in Gone
                  \/ Cardinality(inSection(f[n - 1], n)) >= 2 /\ Len(f[n - 1]) + 2 < r.topk
          THEN f[n - 1] ELSE Append(f[n - 1], n)
    IN f[Len(seq)]
Filled(seq, spread) == Upto(seq, spread, DOMAIN seq, r.topk)
Diversified(seq) == At(seq, First(Filled(seq, Spread(seq, Named(seq))), r.topk))

\* select_prism_evidence, concept first, topics again, operation sections
Prism(seq) == Kept(InTarget(Chunk \ Gone) \ (IF r.value THEN Accounting ELSE {}), Diversified(seq))
ConceptFirst(prism) == Then(At(prism, Places(Tagged(prism, "concept"))), prism)
Chosen(first, seq) == IF r.named # {} THEN first ELSE First(TopicFirst(Then(first, seq)), r.topk)
OnlyOperations(chosen) ==
    IF \E c \in ToSet(chosen) : c \in r.hits["procedural"] THEN Kept(r.hits["procedural"], chosen) ELSE chosen
Selected(seq) == OnlyOperations(Chosen(ConceptFirst(Prism(seq)), seq))

\* the pool the packer is offered
Topical(seq) == IF r.named = {} /\ ~r.coverage THEN TopicFirst(seq) ELSE seq
OwnFirst(seq) == IF r.named = {} /\ r.private # {} THEN PrivateFirst(seq) ELSE seq
Evidence(seq) ==
    IF r.frontiers THEN Kept(Eligible(ToSet(seq)), seq)
    ELSE LET own == OwnFirst(Topical(seq))
         IN IF r.coverage THEN own ELSE Then(Selected(own), own)

\* version preference puts the routed passages in their last order by score;
\* a reader model may see the eligible ones before they are packed
Arrange ==
    /\ pc = "arrange"
    /\ \E places \in Ranked(DOMAIN ranked) :
         ranked' = Evidence(Kept({c \in Chunk : Section[c] \notin r.unfit}, At(ranked, places)))
    /\ shown' = IF r.reader /\ r.coverage THEN Eligible(ToSet(ranked)) ELSE {}
    /\ pool' = IF r.coverage THEN CoveragePool(r, ranked') ELSE {}
    /\ pc' = "pack"
    /\ UNCHANGED <<r, merged, probes, packed, covered>>

PackLegacy ==
    /\ pc = "pack" /\ ~r.coverage
    /\ packed' = LegacyPacked(r, ranked)
    /\ pc' = "final"
    /\ shown' = {}
    /\ UNCHANGED <<r, merged, probes, ranked, pool, covered>>

Used == SumOf(DOMAIN packed, [i \in DOMAIN packed |-> Cost(packed[i])])
Full == pool = {} \/ Len(packed) >= CoverageLimit(r)

\* select_v2: the best candidate, whole or as an excerpt, or dropped when no
\* block of it fits
PackNext ==
    /\ pc = "pack" /\ r.coverage /\ ~Full
    /\ \E item \in Best(r, covered, pool) :
         LET room == Share(r, covered, pool, packed, Used, item)
             cuts == IF Cost(item) <= room THEN {item.parts}
                     ELSE {Excerpt(item.parts, room, IF r.reader THEN r.direct ELSE {}, order) :
                             order \in Ranked(item.parts)}
         IN /\ pool' = pool \ {item}
            /\ \E kept \in cuts :
                 IF kept = {} THEN UNCHANGED <<packed, covered>>
                 ELSE /\ packed' = Append(packed, [item EXCEPT !.parts = kept])
                      /\ covered' = covered \cup (r.subjects \cap SubjectsOf([item EXCEPT !.parts = kept]))
    /\ shown' = {}
    /\ UNCHANGED <<r, pc, merged, probes, ranked>>

Packed ==
    /\ pc = "pack" /\ r.coverage /\ Full
    /\ pc' = "final"
    /\ shown' = {}
    /\ UNCHANGED <<r, merged, probes, ranked, packed, pool, covered>>

\* the last filter drops a passage whole, whatever room it took
Final ==
    /\ pc = "final"
    /\ packed' = Kept({item \in ToSet(packed) : InTarget(InScope(item.parts)) = item.parts}, packed)
    /\ shown' = UNION {item.parts : item \in ToSet(packed')}
    /\ pc' = "done"
    /\ UNCHANGED <<r, merged, probes, ranked, pool, covered>>

Done == pc = "done" /\ UNCHANGED vars

Next == \/ Seed \/ Search \/ Siblings \/ Scope \/ Documents \/ Expand \/ Rerank \/ Route
        \/ Candidates \/ Arrange \/ PackLegacy \/ PackNext \/ Packed \/ Final \/ Done

Spec == Init /\ [][Next]_vars

-----------------------------------------------------------------------------
(* Properties.                                                             *)

(* No text leaves the pipeline, to the reranker, to the reader model or to  *)
(* the caller, unless its file is one the user may see and asked for, it is *)
(* in force and carries no injected instruction; this although the vector   *)
(* store, most channels, the expansions and the assembled sections know     *)
(* nothing of the user (retrieve_context, filter_scoped_evidence).          *)
NothingForeignIsShown ==
    \A c \in shown : Visible(r, File[c]) /\ c \notin Gone /\ c \notin Hostile

(* The context kept for an answer stays within its budget and, packed by    *)
(* coverage, holds no section twice and no equation of a cut section        *)
(* without the conditions of that section it is read with, whatever was     *)
(* reserved first and whatever no longer fitted (select, select_v2,         *)
(* _focused_excerpt).                                                       *)
ContextIsWhole ==
    /\ Used <= MaxChars
    /\ r.coverage => \A i \in DOMAIN packed :
         /\ \A j \in DOMAIN packed :
              <<packed[i].file, packed[i].sec>> = <<packed[j].file, packed[j].sec>> => i = j
         /\ \A c \in packed[i].parts :
              Guards[c] \cap Whole(packed[i].file, packed[i].sec).parts \subseteq packed[i].parts

(* A business domain the question is routed to keeps a passage through the  *)
(* candidate cap, however the scores of the channels compare and whatever   *)
(* other channels fill the cap with (apply_domain_routing).                 *)
DomainsAreHeard ==
    pc = "arrange" =>
      \A d \in ToSet(r.domains) :
         (\E c \in InScope(DOMAIN merged) : d \in Domains[File[c]])
           => \E c \in ToSet(ranked) : d \in Domains[File[c]]

\* nothing the question asks for by name competes for the first places
NothingByName ==
    /\ r.topics = <<>> /\ r.target = {} /\ r.category = "none" /\ ~r.procedure /\ ~r.value
    /\ \A ch \in {"exact", "section", "concept", "procedural"} : r.hits[ch] = {}

(* A passage of the chat's own files that matches the question is among the *)
(* first the packer is offered, however large the shared documents are: by  *)
(* coverage always, else unless something is asked for by name              *)
(* (prioritize_scoped_results through diversification).                     *)
PrivateIsHeard ==
    (/\ pc = "pack" /\ r.private # {} /\ r.named = {} /\ ~r.frontiers
     /\ r.coverage \/ NothingByName)
      => \A c \in ToSet(ranked) : "scoped" \in Tags(c)
           => \E k \in 1 .. Least(r.topk, Len(ranked)) : "scoped" \in Tags(ranked[k])

\* the subjects candidates hold, and those the packer turns to first
Holders(s) == {i \in CoveragePool(r, ranked) : s \in SubjectsOf(i)}
Held == {s \in r.subjects : Holders(s) # {}}
Heard == {s \in Held : r.exceptions \/ \E i \in Holders(s) : i.sec \notin Exception}
Longest(s) == Cost(CHOOSE i \in Holders(s) : \A j \in Holders(s) : Cost(i) >= Cost(j))

\* the longest section on each subject, and the family, fit their budgets
SubjectsFit ==
    /\ SumOf(Held, [s \in Held |-> Longest(s)]) <= MaxChars
    /\ Chars(UNION {f.parts : f \in ToSet(Family(r))}) <= FamilyChars
    /\ Cardinality(r.subjects) <= MaxSlots

(* When the longest sections on the question's subjects fit together, and   *)
(* the family of an overview fits its own budget, every subject with a main *)
(* section ends up in the context: neither the slots, nor the even split of *)
(* what is left, nor other sections with better scores starve one           *)
(* (select_v2).                                                             *)
SubjectsAreHeard == (pc = "final" /\ r.coverage /\ SubjectsFit) => Heard \subseteq covered

\* Neither a private passage nor a subject of the question is starved.
NoneIsStarved == PrivateIsHeard /\ SubjectsAreHeard
=============================================================================
