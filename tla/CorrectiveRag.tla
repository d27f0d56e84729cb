---------------------------- MODULE CorrectiveRag ----------------------------
(***************************************************************************)
(* One request of the corrective answer loop (run_corrective and the       *)
(* callbacks _ask_corrective gives it): plan, bounded rounds of retrieval, *)
(* one navigation of the documents, one private reading of the candidates, *)
(* packing, coverage assessment, then one draft, its verification, at most *)
(* one repair and the publication of what was verified.                    *)
(*                                                                         *)
(* What a model call returns is any value the code accepts or rejects.     *)
(* Texts are opaque; a query is a token, a record one of Evidence.         *)
(***************************************************************************)
EXTENDS Evidence

CONSTANTS
    User,        \* the resolved user question, itself a query
    Rewrites,    \* queries a plan may add
    Followups,   \* queries an assessment may ask for
    Results,     \* lists of records a retrieval may return
    Readable,    \* records the navigator reads, if it reads any
    MaxContext,  \* max_context_chars
    MaxRounds    \* max_additional_rounds as configured

ASSUME CorrectiveAssumption ==
    /\ Results \subseteq Seq(Record)
    /\ Readable \subseteq Record \ (Opaque \cup Dead) /\ IsFiniteSet(Readable)
    /\ Total(SetToSeq(Readable)) <= MaxContext
    /\ MaxContext \in Nat
    /\ MaxRounds \in Nat

VARIABLES
    at,          \* the stage the request is in
    options,     \* experiments enabled by the environment
    round,       \* number
    queries,     \* queries offered to the next round
    ran,         \* previous_queries
    recover,     \* recover_task: the plan's hypotheses are revoked
    recovered,   \* recovery_query_used
    registry,    \* id_registry
    pool,        \* numbered candidates
    reserved,    \* navigation_records
    navigated,   \* navigation_attempted
    reading,     \* prepack_reading: the pool it read and the quotes it chose
    preferred,   \* records of the preferences passed to the last selection
    context,     \* numbered evidence of the round
    limits,      \* selection_limits: the packer left something out
    coverage,    \* the assessment in force
    assessments, \* assessments by assessment_key
    calls,       \* completion calls made
    drafts,      \* the reports of the primary draft and of its repair
    published    \* what the request answers with

search == <<round, queries, ran, recover, recovered>>
nav == <<reserved, navigated>>
guide == <<reading, preferred>>
evidence == <<registry, pool, context, limits>>
review == <<coverage, assessments>>
answer == <<drafts, published>>
vars == <<at, options, search, nav, guide, evidence, review, calls, answer>>

NoReading == [of |-> <<>>, quoted |-> {}]

\* A report: must the draft be repaired, how many claims can be published.
Report == [repair : BOOLEAN, claims : 0 .. 1]
NoReport == [repair |-> TRUE, claims |-> 0]

\* What an assessment is keyed by: the numbered evidence, without its
\* order, and the packing limits.
Key(items, lim) == [items |-> ToSet(items), limits |-> lim]

NoCoverage == [of |-> Key(<<>>, FALSE), assessed |-> FALSE,
               complete |-> FALSE, status |-> "unassessed", more |-> <<>>]

Init ==
    /\ at = "plan"
    /\ options \in [navigate : BOOLEAN, reader : {"off", "pool", "context"}]
    /\ round = 0
    /\ queries = <<>>
    /\ ran = {}
    /\ recover = FALSE
    /\ recovered = FALSE
    /\ registry = <<>>
    /\ pool = <<>>
    /\ reserved = <<>>
    /\ navigated = FALSE
    /\ reading = NoReading
    /\ preferred = {}
    /\ context = <<>>
    /\ limits = FALSE
    /\ coverage = NoCoverage
    /\ assessments = {}
    /\ calls = 0
    /\ drafts = <<>>
    /\ published = [kind |-> "none", text |-> 0, under |-> NoReport]

Goto(stage) == at' = stage
Calls(n) == calls' = calls + n

\* An exception no stage catches fails the whole request.
Fails(stage) ==
    /\ at = stage
    /\ Goto("failed")
    /\ UNCHANGED <<options, search, nav, guide, evidence, review, calls,
                   answer>>

(***************************************************************************)
(* Plan and rounds.                                                        *)
(***************************************************************************)

\* make_plan: the user's question first; a failed plan is that question.
MakePlan ==
    /\ at = "plan"
    /\ \E added \in SUBSET Rewrites :
           queries' = <<User>> \o SetToSeq(added)
    /\ Calls(1)
    /\ Goto("round")
    /\ UNCHANGED <<options, round, ran, recover, recovered, nav, guide,
                   evidence, review, answer>>

\* The queries a round runs: every new one at first, then the first new one.
Novel ==
    LET fresh == SelectSeq(queries, LAMBDA q : q \notin ran)
    IN IF round = 0 \/ fresh = <<>> THEN fresh ELSE <<Head(fresh)>>

RoundsLeft == round <= (IF MaxRounds < 2 THEN MaxRounds ELSE 2)

\* One round: the recovery query once, else queries that never ran.
StartRound ==
    /\ at = "round"
    /\ RoundsLeft
    /\ IF recover /\ ~recovered
       THEN /\ recovered' = TRUE
            /\ UNCHANGED ran
       ELSE /\ Novel # <<>>
            /\ ran' = ran \cup ToSet(Novel)
            /\ UNCHANGED recovered
    /\ Goto("retrieve")
    /\ UNCHANGED <<options, round, queries, recover, nav, guide, evidence,
                   review, calls, answer>>

\* After the last round only its evidence, limits and coverage are read.
Leave ==
    /\ Goto(IF context = <<>> THEN "refuse" ELSE "guide")
    /\ queries' = <<>> /\ ran' = {}
    /\ round' = 0 /\ recover' = FALSE /\ recovered' = FALSE
    /\ registry' = <<>> /\ pool' = <<>> /\ reserved' = <<>>
    /\ reading' = NoReading /\ preferred' = {} /\ assessments' = {}
    /\ UNCHANGED <<options, navigated, context, limits, answer>>

\* Mutant: a round without anything new to ask does not end the loop.
EndRoundsAtLimit ==
    /\ at = "round"
    /\ ~RoundsLeft
    /\ Leave
    /\ UNCHANGED <<coverage, calls>>

\* No round left, or nothing new to ask: answer from what is packed.
EndRounds ==
    /\ at = "round"
    /\ \/ ~RoundsLeft
       \/ Novel = <<>> /\ (recover => recovered)
    /\ Leave
    /\ UNCHANGED <<coverage, calls>>

\* navigate: a request reads documents once, whatever came of it.
Navigations ==
    IF options.navigate /\ ~navigated
    THEN {[reads |-> <<>>, n |-> 0], [reads |-> SetToSeq(Readable), n |-> 3]}
    ELSE {[reads |-> reserved, n |-> 0]}

(* Retrieval, navigation, ordering of the candidates (any permutation or   *)
(* the order they came in) and admission to the pool.                      *)
Retrieve ==
    /\ at = "retrieve"
    /\ \E found \in Results, visit \in Navigations :
       \E items \in {visit.reads \o found \o Recs(pool)} :
       \E ordered \in {items, Reverse(items)} :
       \E r \in {Admission(ordered, 2 * MaxContext, registry)} :
           /\ pool' = r.kept
           /\ registry' = r.registry
           /\ reserved' = visit.reads
           /\ Calls(visit.n)
    /\ navigated' = (navigated \/ options.navigate)
    /\ Goto("read")
    /\ UNCHANGED <<options, search, guide, context, limits, review, answer>>

\* Mutant: quotes chosen before the task was recovered still count.
PreferredStale(r) ==
    IF options.reader = "pool" /\ pool = r.of THEN r.quoted ELSE {}

\* The one reading of a request, if there is something to read.
ReadNow == reading = NoReading

\* selection_preferences: of this very pool, none once the task is recovered.
Preferred(r) ==
    IF options.reader = "pool" /\ ~recover /\ pool = r.of THEN r.quoted
    ELSE {}

\* The private reading of the candidates, then the preferences it gives.
ReadPool ==
    /\ at = "read"
    /\ IF options.reader = "pool" /\ pool # <<>> /\ ReadNow
       THEN \E quoted \in {{}, ToSet(Recs(pool))} :
                /\ reading' = [of |-> pool, quoted |-> quoted]
                /\ Calls(1)
       ELSE UNCHANGED <<reading, calls>>
    /\ preferred' = Preferred(reading')
    /\ Goto("select")
    /\ UNCHANGED <<options, search, nav, evidence, review, answer>>

\* Mutant: the evidence is numbered on its own, from E1.
RenumberedFirst(selected) ==
    [Admission(reserved \o selected, MaxContext, <<>>)
        EXCEPT !.registry = registry]

\* The reserved reads go before what the selection packed.
ReservedFirst(selected) ==
    Admission(reserved \o selected, MaxContext, registry)

\* select_v2, then the final admission under the context budget.
Select ==
    /\ at = "select"
    /\ \E chosen \in SUBSET ToSet(Recs(pool)), lim \in BOOLEAN :
       \E r \in {ReservedFirst(SetToSeq(chosen))} :
           /\ context' = r.kept
           /\ registry' = r.registry
           /\ limits' = lim
    /\ Goto("assess")
    /\ UNCHANGED <<options, search, nav, guide, pool, review, calls, answer>>

(***************************************************************************)
(* Assessment.                                                             *)
(***************************************************************************)

\* The assessor failed, found the evidence off the task or unsure, or found
\* it on the task with gaps and queries to fill them.  Limits of the packer
\* are gaps; without a passage nothing can be matched.
Judgements ==
    {NoCoverage, [NoCoverage EXCEPT !.assessed = TRUE, !.status = "mismatch"]}
    \cup [of : {NoCoverage.of}, assessed : {TRUE}, complete : BOOLEAN, status : {"matched"},
          more : {<<>>} \cup {<<f>> : f \in Followups}]

\* assessment_key: the numbered evidence and the limits of the packer.
Reusable(made) == {c \in made : c.of = Key(context, limits)}

\* The queries of the next round.
Following(c) == IF c.status # "matched" THEN <<User>> ELSE c.more

\* A mismatched or uncertain assessment revokes the reserved reads.
Reserved(c) == IF c.status # "matched" THEN <<>> ELSE reserved

\* assess_coverage, unless this very evidence was assessed before.
Judge ==
    IF Reusable(assessments) # {}
    THEN /\ coverage' = CHOOSE c \in Reusable(assessments) : TRUE
         /\ UNCHANGED calls
    ELSE /\ \E c \in Judgements :
                /\ context = <<>> => c.status # "matched"
                /\ limits => ~c.complete
                /\ coverage' = [c EXCEPT !.of = Key(context, limits)]
         /\ Calls(1)

\* The evidence covers the task: the rounds are over.
AssessComplete ==
    /\ at = "assess"
    /\ Judge
    /\ coverage'.complete
    /\ Leave

\* It does not: recover the task, or follow the gaps up.
AssessIncomplete ==
    /\ at = "assess"
    /\ Judge
    /\ ~coverage'.complete
    /\ assessments' = assessments \cup {coverage'}
    /\ round' = round + 1
    /\ queries' = Following(coverage')
    /\ recover' = (recover \/ coverage'.status # "matched")
    /\ reserved' = Reserved(coverage')
    /\ Goto("round")
    /\ UNCHANGED <<options, ran, recovered, navigated, guide, evidence,
                   answer>>

(***************************************************************************)
(* Draft, verification, repair, publication.                               *)
(***************************************************************************)

\* No evidence: a fixed refusal, no draft is asked for.
Refuse ==
    /\ at = "refuse"
    /\ published' = [kind |-> "refusal", text |-> 0, under |-> NoReport]
    /\ Goto("done")
    /\ UNCHANGED <<options, search, nav, guide, evidence, review, calls,
                   drafts>>

\* The reading of the final context, one call unless the pool was read.
ReadContext ==
    /\ at = "guide"
    /\ Calls(IF options.reader = "context" THEN 1 ELSE 0)
    /\ Goto("draft")
    /\ UNCHANGED <<options, search, nav, guide, evidence, review, answer>>

\* A draft and its verification; a broken envelope is not judged.
Draft ==
    /\ at = "draft"
    /\ \E report \in Report, judged \in BOOLEAN :
           /\ ~judged => report = NoReport
           /\ drafts' = <<report>>
           /\ Calls(IF judged THEN 2 ELSE 1)
    /\ Goto(IF drafts'[1].repair THEN "repair" ELSE "publish")
    /\ UNCHANGED <<options, search, nav, guide, evidence, review, published>>

\* One repair: it may fail, then the primary report stands.
Repair ==
    /\ at = "repair"
    /\ \/ /\ Calls(1)
          /\ UNCHANGED drafts
       \/ \E report \in Report, judged \in BOOLEAN :
              /\ ~judged => report = NoReport
              /\ drafts' = Append(drafts, report)
              /\ Calls(IF judged THEN 2 ELSE 1)
    /\ Goto("publish")
    /\ UNCHANGED <<options, search, nav, guide, evidence, review, published>>

\* Mutant: the claims of the primary draft are looked up in the repair.
PartialMixed(latest, primary) ==
    IF latest.claims > 0 THEN [text |-> Len(drafts), under |-> latest]
    ELSE [text |-> Len(drafts), under |-> primary]

\* task_publication_candidate on the repair, then on the primary draft.
Partial(latest, primary) ==
    IF latest.claims > 0 THEN [text |-> Len(drafts), under |-> latest]
    ELSE IF primary.claims > 0 THEN [text |-> 1, under |-> primary]
    ELSE [text |-> 0, under |-> latest]

\* The whole draft if its report asks for nothing, else verified claims.
Publish ==
    /\ at = "publish"
    /\ LET latest == Last(drafts)
           part == Partial(latest, Head(drafts))
       IN published' = IF ~latest.repair
                       THEN [kind |-> "whole", text |-> Len(drafts),
                             under |-> latest]
                       ELSE [kind |-> "partial", text |-> part.text,
                             under |-> part.under]
    /\ Goto("done")
    /\ UNCHANGED <<options, search, nav, guide, evidence, review, calls,
                   drafts>>

RetrieveFails == Fails("retrieve")
SelectFails == Fails("select")
DraftFails == Fails("draft")

Next ==
    \/ MakePlan \/ StartRound \/ EndRounds \/ Retrieve \/ ReadPool \/ Select
    \/ AssessComplete \/ AssessIncomplete \/ Refuse \/ ReadContext
    \/ Draft \/ Repair \/ Publish
    \/ RetrieveFails \/ SelectFails \/ DraftFails

\* The request's thread keeps running.
Fairness == WF_vars(Next)

Spec == Init /\ [][Next]_vars
FairSpec == Spec /\ Fairness

(***************************************************************************)
(* Properties.                                                             *)
(***************************************************************************)

Stages == {"plan", "round", "retrieve", "read", "select", "assess", "refuse",
           "guide", "draft", "repair", "publish", "done", "failed"}

\* Every variable keeps its type.
TypeOK ==
    /\ at \in Stages
    /\ options \in [navigate : BOOLEAN, reader : {"off", "pool", "context"}]
    /\ round \in 0 .. 3
    /\ queries \in Seq({User} \cup Rewrites \cup Followups)
    /\ ran \subseteq {User} \cup Rewrites \cup Followups
    /\ recover \in BOOLEAN /\ recovered \in BOOLEAN /\ navigated \in BOOLEAN
    /\ registry \in Seq(Record)
    /\ pool \in Seq(Numbered) /\ context \in Seq(Numbered)
    /\ reserved \in Seq(Readable)
    /\ preferred \subseteq Record
    /\ limits \in BOOLEAN
    /\ calls \in Nat
    /\ drafts \in Seq(Report) /\ Len(drafts) <= 2

(* An E-ID never names two records and a record with a proven identity     *)
(* never has two E-IDs, in the pool, in the evidence and in the reading    *)
(* made rounds ago (assign_evidence, id_registry).                         *)
StableIds ==
    LET shown == ToSet(pool) \cup ToSet(context) \cup ToSet(reading.of)
    IN \A n, m \in shown :
           /\ n.eid = m.eid => n.rec = m.rec
           /\ n.rec = m.rec /\ n.rec \notin Opaque => n.eid = m.eid

(* The assessment the writer is told, new or reused, is the assessment of  *)
(* the evidence and the packing limits it is given.                        *)
CoverageOfContext ==
    at \in {"guide", "draft", "repair", "publish"} =>
        coverage.of = Key(context, limits)

(* The evidence fits its budget and holds every record the navigator read, *)
(* as long as its priority is not revoked.                                 *)
ReadsAreKept ==
    at \notin {"retrieve", "read", "select"} =>
        /\ Total(Recs(context)) <= MaxContext
        /\ at # "failed" => ToSet(reserved) \subseteq ToSet(Recs(context))

\* What the rounds hand to the writer.
EvidenceIsSound == StableIds /\ CoverageOfContext /\ ReadsAreKept

(* Once an assessment found that the evidence misses the task, nothing the *)
(* drifted hypotheses chose (quotes, document reads) steers a selection.   *)
DriftRevoked ==
    at \in {"select", "assess"} /\ recover => preferred = {} /\ reserved = <<>>

(* What is published as a whole is a draft whose own report asks for no    *)
(* repair; what is published in part is verified claims of one draft under *)
(* that draft's report, and nothing verified is dropped for a neutral      *)
(* answer.  The fixed refusal goes with empty evidence only.               *)
PublishedIsVerified ==
    at = "done" =>
        CASE published.kind = "refusal" -> context = <<>>
          [] published.kind = "whole" ->
                /\ context # <<>>
                /\ drafts[published.text] = published.under
                /\ ~published.under.repair
          [] published.kind = "partial" ->
                /\ context # <<>>
                /\ IF published.text = 0
                   THEN \A n \in DOMAIN drafts : drafts[n].claims = 0
                   ELSE /\ drafts[published.text] = published.under
                        /\ published.under.claims > 0

\* Every request ends, with an answer or with an error, after at most twelve
\* completion calls: the plan, three steps of navigation, one reading, three
\* assessments, two drafts and two verifications.
Finishes == <>(at \in {"done", "failed"} /\ calls <= 12)
=============================================================================
