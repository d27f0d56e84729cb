---------------------------- MODULE OrdinaryAnswer ----------------------------
(***************************************************************************)
(* The ordinary answer path of one API process (QuestionService, RAGAgent. *)
(* ask and _generate_grounded_answer): request threads share the retrieval *)
(* snapshot, the saved provider selection and the Redis answer cache with  *)
(* the ingestion worker that publishes the corpus and clears the cache.    *)
(*                                                                         *)
(* All requests ask the same question. Retrieval returns some records of   *)
(* the snapshot it reads, those of the asking chat among them; a prompt is *)
(* what it is assembled from, an answer what it was made from.             *)
(***************************************************************************)
EXTENDS Naturals, FiniteSets, Sequences

CONSTANTS
    Thread,    \* request threads, each serving one request after another
    Record,    \* evidence records
    Shared,    \* records of the documents every user may read
    Corpora,   \* the corpus published with each docstore revision
    Provider,  \* provider selections that may be saved
    MaxCached  \* bound on the answers cached at a time: Redis evicts the others

ASSUME OrdinaryAssumption ==
    /\ Shared \subseteq Record
    /\ Corpora \in Seq(SUBSET Record)
    /\ Corpora # <<>>

VARIABLES
    disk,      \* revision of the docstore file
    nodes,     \* revision of _all_nodes
    marker,    \* _docstore_mtime_ns
    lock,      \* _index_refresh_lock: free when empty
    unclear,   \* the worker published and has not cleared the cache yet
    selected,  \* saved provider selection
    flow,      \* saved flow mode, and whether a switch of it is under way
    cache,     \* cached answers
    req        \* the request of each thread

vars == <<disk, nodes, marker, lock, unclear, selected, flow, cache, req>>
corpus == <<disk, nodes, marker, lock, unclear>>
saved == <<selected, flow>>

Revision == 1 .. Len(Corpora)
\* Python requests select evidence the legacy way or for coverage; hybrid ones
\* join in candidates of the Rust index and are otherwise legacy.
Modes == {"legacy", "coverage", "hybrid"}
Selection(mode) == IF mode = "coverage" THEN "coverage" ELSE "legacy"
FlowOf(mode) == IF mode = "hybrid" THEN "hybrid" ELSE "python"

\* What an answer is made from. "corpus" is history: the revision retrieved.
Made == [mode : Modes, runtime : SUBSET Provider, evidence : SUBSET Record,
         corpus : Revision, personal : BOOLEAN]
\* An entry: its key's snapshot marker, the answer, what the proof certifies.
Entry == [marker : Revision, made : Made, proven : BOOLEAN]

\* "key" is the marker of the key when the answer may be cached, "caller" who
\* wrote the draft, "got" the answer a cache hit returns.
Idle == [at |-> "idle", mode |-> "legacy", runtime |-> {}, evidence |-> {},
         corpus |-> 1, key |-> {}, caller |-> {}, got |-> {}]

Init ==
    /\ disk = 1
    /\ nodes = 1
    /\ marker = 1
    /\ lock = {}
    /\ unclear = FALSE
    /\ selected \in Provider
    /\ flow = [mode |-> "python", leaving |-> FALSE]
    /\ cache = {}
    /\ req = [t \in Thread |-> Idle]

At(t, stage) == req[t].at = stage

\* The response is sent; the thread takes another request.
Answers(t) == req' = [req EXCEPT ![t] = Idle]

(***************************************************************************)
(* The request: its scope and runtime, a fresh snapshot, the query plan,   *)
(* the evidence.                                                           *)
(***************************************************************************)

\* answer, ask: the mode and the runtime are fixed once.
Ask(t) ==
    /\ At(t, "idle")
    /\ \E mode \in Modes :
           /\ FlowOf(mode) = flow.mode
           /\ req' = [req EXCEPT ![t].at = "stat", ![t].mode = mode,
                                 ![t].runtime = {selected}]
    /\ UNCHANGED <<corpus, saved, cache>>

\* _refresh_docstore_if_changed: the unlocked look at the file.
StatDocstore(t) ==
    /\ At(t, "stat")
    /\ req' = [req EXCEPT ![t].at =
                   IF disk = marker THEN "retrieve" ELSE "refresh"]
    /\ UNCHANGED <<corpus, saved, cache>>

\* Under the lock the file is read again; an unreadable file keeps the snapshot.
LoadSnapshot(t) ==
    /\ At(t, "refresh")
    /\ lock = {}
    /\ IF disk = marker
       THEN UNCHANGED <<nodes, lock>>
       ELSE \/ nodes' = disk /\ lock' = {t}
            \/ UNCHANGED <<nodes, lock>>
    /\ req' = [req EXCEPT ![t].at = IF t \in lock' THEN "record"
                                                   ELSE "retrieve",
                          ![t].corpus = nodes']
    /\ UNCHANGED <<disk, marker, unclear, saved, cache>>

\* The marker follows the nodes, and the lock is released.
RecordMarker(t) ==
    /\ At(t, "record")
    /\ marker' = req[t].corpus
    /\ lock' = {}
    /\ req' = [req EXCEPT ![t].at = "retrieve"]
    /\ UNCHANGED <<disk, nodes, unclear, saved, cache>>

\* understand_query, retrieve_context: a plan of this runtime, cached or not,
\* or the fallback; then records of the nodes of now, in the chat's scope.
Retrieve(t) ==
    /\ At(t, "retrieve")
    /\ Corpora[nodes] # {}
    /\ \E found \in SUBSET Corpora[nodes] :
           req' = [req EXCEPT ![t].at = "compose", ![t].evidence = found,
                              ![t].corpus = nodes]
    /\ UNCHANGED <<corpus, saved, cache>>

\* ask: nothing is indexed, or retrieval raises.
RetrieveFails(t) ==
    /\ At(t, "retrieve")
    /\ Answers(t)
    /\ UNCHANGED <<corpus, saved, cache>>

(***************************************************************************)
(* Answers without a writer, and the cache.                                *)
(***************************************************************************)

\* Mutant: an answer from private evidence is cached.
CacheableAny(r) == r.evidence # {}

\* ask: an answer may be cached when all its evidence is shared, if also the
\* question is asked in its own words under the shared prompt.
Cacheable(r) == r.evidence # {} /\ r.evidence \subseteq Shared

\* What the prompt, and so the generated answer, is made from.
MadeOf(r) == [mode |-> r.mode, runtime |-> r.runtime,
              evidence |-> r.evidence, corpus |-> r.corpus,
              personal |-> r.key = {}]

\* _generate_grounded_answer: an answer quoted by a template, or in coverage
\* mode the quoted sources when the writer's whole input does not fit.
AnswerUnwritten(t) ==
    /\ At(t, "compose")
    /\ Answers(t)
    /\ UNCHANGED <<corpus, saved, cache>>

\* Mutant: the key leaves out the evidence the prompt quotes.
SameKeyAnyEvidence(e, r) ==
    /\ e.marker = marker
    /\ Selection(e.made.mode) = Selection(r.mode)
    /\ e.made.runtime = r.runtime

\* generation_key, _runtime_cache_entry: the marker of now, the selection
\* mode, the runtime and the prompt agree.
SameKey(e, r) ==
    /\ e.marker = marker
    /\ Selection(e.made.mode) = Selection(r.mode)
    /\ e.made.runtime = r.runtime
    /\ e.made.evidence = r.evidence

\* valid_cache_proof: what coverage mode asks of an entry beyond its key.
Valid(e, r) == r.mode = "coverage" => e.proven /\ e.made.evidence = r.evidence

\* An entry answers the request.
Hit(t) ==
    /\ At(t, "compose")
    /\ Cacheable(req[t])
    /\ \E e \in cache :
           /\ SameKey(e, req[t]) /\ Valid(e, req[t])
           /\ req' = [req EXCEPT ![t].at = "hit", ![t].key = {marker},
                                 ![t].got = {e.made}]
    /\ UNCHANGED <<corpus, saved, cache>>

\* No entry, no valid one, or Redis does not answer; nothing is looked up, and
\* nothing will be cached, for an answer that may not be shared.
Miss(t) ==
    /\ At(t, "compose")
    /\ \E key \in {{}} \cup (IF Cacheable(req[t]) THEN {{marker}} ELSE {}) :
           req' = [req EXCEPT ![t].at = "write", ![t].key = key]
    /\ UNCHANGED <<corpus, saved, cache>>

\* The response of a cache hit is sent.
Return(t) ==
    /\ At(t, "hit")
    /\ Answers(t)
    /\ UNCHANGED <<corpus, saved, cache>>

\* Mutant: the writer uses the selection saved at the time of the call.
WriteWithSelected(t) ==
    /\ At(t, "write")
    /\ req' = [req EXCEPT ![t].caller = {selected}, ![t].at = "publish"]
    /\ UNCHANGED <<corpus, saved, cache>>

\* The writer's call, with the request's own runtime.
Write(t) ==
    /\ At(t, "write")
    /\ req' = [req EXCEPT ![t].caller = req[t].runtime, ![t].at = "publish"]
    /\ UNCHANGED <<corpus, saved, cache>>

\* The call raises, or its draft is empty or undecodable.
WriteFails(t) ==
    /\ At(t, "write")
    /\ Answers(t)
    /\ UNCHANGED <<corpus, saved, cache>>

\* A legacy answer, or one publish_draft accepted (OrdinaryGuard), is cached
\* when it may be; an answer it did not accept never is, nor any that Redis
\* does not take.
Publish(t) ==
    /\ At(t, "publish")
    /\ LET r == req[t]
           entries == {[marker |-> m, made |-> MadeOf(r),
                        proven |-> r.mode = "coverage"] : m \in r.key}
       IN \/ UNCHANGED cache
          \/ \E kept \in SUBSET cache :
                 /\ Cardinality(kept \cup entries) <= MaxCached
                 /\ cache' = kept \cup entries
    /\ Answers(t)
    /\ UNCHANGED <<corpus, saved>>

(***************************************************************************)
(* The worker and the administrator.                                       *)
(***************************************************************************)

\* ingest, delete_source in the worker: a new docstore file, then clear_cache.
PublishCorpus ==
    /\ disk < Len(Corpora)
    /\ ~unclear
    /\ disk' = disk + 1
    /\ unclear' = TRUE
    /\ UNCHANGED <<nodes, marker, lock, saved, cache, req>>

\* clear_cache of the worker; Redis may not answer.
ClearCache ==
    /\ unclear
    /\ unclear' = FALSE
    /\ cache' \in SUBSET cache
    /\ UNCHANGED <<disk, nodes, marker, lock, saved, req>>

\* handle_provider_save: another selection is saved for later requests.
SelectProvider ==
    /\ \E p \in Provider \ {selected} : selected' = p
    /\ UNCHANGED <<corpus, flow, cache, req>>

\* handle_flow_mode: the cache is cleared, then the mode is saved.
LeaveFlow ==
    /\ ~flow.leaving
    /\ flow.mode = "python"
    /\ flow' = [flow EXCEPT !.leaving = TRUE]
    /\ cache' \in SUBSET cache
    /\ UNCHANGED <<corpus, selected, req>>

SaveFlow ==
    /\ flow.leaving
    /\ flow' = [mode |-> "hybrid", leaving |-> FALSE]
    /\ UNCHANGED <<corpus, selected, cache, req>>

Request(t) ==
    \/ StatDocstore(t) \/ LoadSnapshot(t) \/ RecordMarker(t)
    \/ Retrieve(t) \/ RetrieveFails(t) \/ AnswerUnwritten(t) \/ Hit(t) \/ Return(t) \/ Miss(t)
    \/ Write(t) \/ WriteFails(t) \/ Publish(t)

Next ==
    \/ \E t \in Thread : Ask(t) \/ Request(t)
    \/ PublishCorpus
    \/ ClearCache
    \/ SelectProvider
    \/ LeaveFlow
    \/ SaveFlow

Spec == Init /\ [][Next]_vars

(***************************************************************************)
(* Properties.                                                             *)
(***************************************************************************)

TypeOK ==
    /\ disk \in Revision /\ nodes \in Revision /\ marker \in Revision
    /\ lock \subseteq Thread /\ Cardinality(lock) <= 1
    /\ unclear \in BOOLEAN
    /\ selected \in Provider
    /\ flow \in [mode : {"python", "hybrid"}, leaving : BOOLEAN]
    /\ cache \subseteq Entry
    /\ \A t \in Thread :
           /\ req[t].runtime \subseteq Provider
           /\ req[t].evidence \subseteq Record
           /\ req[t].got \subseteq Made
           /\ req[t].mode \in Modes
           /\ req[t].corpus \in Revision
           /\ req[t].key \subseteq Revision

\* An answer taken from the cache was made for the same selection mode, by
\* the same runtime and from the very evidence this request retrieved in its
\* own way, whatever was published, switched or cached in between.
HitIsOwn ==
    \A t \in Thread : req[t].at = "hit" =>
        \A m \in req[t].got :
            /\ Selection(m.mode) = Selection(req[t].mode)
            /\ m.runtime = req[t].runtime
            /\ m.evidence = req[t].evidence

\* The answer cache crosses users: it holds nothing that rests on evidence of
\* one chat or project, or on a prompt that carries one.
CacheIsShared ==
    \A e \in cache : e.made.evidence \subseteq Shared /\ ~e.made.personal

\* Every model call of a request goes to the provider selected when it began,
\* although another is saved meanwhile.
OneRuntime == \A t \in Thread : req[t].caller \subseteq req[t].runtime

\* rag_agent.py:4413: a global answer never survives a corpus update: the
\* entry a request hits was generated from the revision its key names.
SnapshotHolds ==
    \A t \in Thread : req[t].at = "hit" =>
        \A m \in req[t].got : req[t].key = {m.corpus}

===============================================================================
