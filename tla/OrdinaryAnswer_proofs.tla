------------------------ MODULE OrdinaryAnswer_proofs ------------------------
(***************************************************************************)
(* Proofs about OrdinaryAnswer for any threads, records, providers and     *)
(* sequence of published corpora: what the answer cache may hold and       *)
(* return, whose runtime writes an answer, and that the lock of the        *)
(* snapshot refresh is exclusive and its marker never ahead of its nodes.  *)
(***************************************************************************)
EXTENDS OrdinaryAnswer, FiniteSetTheorems, SequenceTheorems, TLAPS

Stages == {"idle", "stat", "refresh", "record", "retrieve", "compose", "hit",
           "write", "publish"}

Req == [at : Stages, mode : Modes, runtime : SUBSET Provider,
        evidence : SUBSET Record, corpus : Revision, key : SUBSET Revision,
        caller : SUBSET Provider, got : SUBSET Made]

Types ==
    /\ disk \in Revision /\ nodes \in Revision /\ marker \in Revision
    /\ lock \subseteq Thread
    /\ unclear \in BOOLEAN
    /\ selected \in Provider
    /\ flow \in [mode : {"python", "hybrid"}, leaving : BOOLEAN]
    /\ cache \subseteq Entry
    /\ req \in [Thread -> Req]

\* The thread between the two writes of a refresh holds the lock, and what it
\* is about to record is the revision of the nodes.
LockInv ==
    /\ \A t \in Thread : At(t, "record") <=> t \in lock
    /\ \A s, t \in lock : s = t
    /\ \A t \in lock : req[t].corpus = nodes

\* The marker is the revision of the nodes, or an older one: a stale marker
\* costs a second read of the file, a marker ahead of the nodes would hide a
\* published corpus until the next one.
MarkerTrailsNodes == marker <= nodes /\ nodes <= disk

\* What a request carries to the cache, or from it.
RequestInv(r) ==
    /\ r.at \in {"write", "publish"} /\ r.key # {} => r.evidence \subseteq Shared
    /\ r.at = "hit" =>
          \A m \in r.got :
              /\ Selection(m.mode) = Selection(r.mode)
              /\ m.runtime = r.runtime
              /\ m.evidence = r.evidence
    /\ r.caller \subseteq r.runtime
    /\ r.caller # {} => r.at = "publish"

IInv ==
    /\ Types /\ LockInv /\ MarkerTrailsNodes /\ CacheIsShared
    /\ \A t \in Thread : RequestInv(req[t])

-----------------------------------------------------------------------------
\* Docstore revisions are consecutive.
LEMMA Revisions ==
    /\ Len(Corpora) \in Nat /\ 1 \in Revision
    /\ \A n \in Revision : n \in Nat /\ n >= 1 /\ n <= Len(Corpora)
                           /\ Corpora[n] \subseteq Record
                           /\ (n < Len(Corpora) => n + 1 \in Revision)
  <1>1. Corpora \in Seq(SUBSET Record) /\ Corpora # <<>>
    BY OrdinaryAssumption
  <1>2. Len(Corpora) \in Nat /\ Len(Corpora) # 0
    BY <1>1, EmptySeq
  <1>3. \A n \in 1 .. Len(Corpora) : Corpora[n] \in SUBSET Record
    BY <1>1, ElementOfSeq
  <1> QED  BY <1>2, <1>3 DEF Revision

\* What a step may do to the request of a thread: nothing, or a change that
\* keeps its type and what it carries.
RequestChanges(t) ==
    /\ req' = [req EXCEPT ![t] = req'[t]]
    /\ req'[t] \in Req
    /\ RequestInv(req'[t])

LEMMA IdleRequest == Idle \in Req /\ RequestInv(Idle)
    BY Revisions DEF Idle, Req, Stages, Modes, RequestInv, Made

\* An answer sent leaves the thread idle.
LEMMA AnswersChange ==
    ASSUME Types, NEW t \in Thread, Answers(t)
    PROVE  /\ RequestChanges(t) /\ req'[t].at = "idle"
    BY IdleRequest DEF Types, Answers, RequestChanges, Idle

\* The steps of a request, by what they do to it.
LEMMA RequestStep ==
    ASSUME IInv, NEW t \in Thread, Ask(t) \/ Request(t)
    PROVE  RequestChanges(t)
  <1>0. /\ req[t] \in Req /\ RequestInv(req[t]) /\ req \in [Thread -> Req]
        /\ cache \subseteq Entry /\ marker \in Revision
        /\ selected \in Provider /\ Types
    <2>1. Types /\ RequestInv(req[t])
      BY DEF IInv
    <2> QED  BY <2>1 DEF Types
  <1>1. CASE RetrieveFails(t) \/ AnswerUnwritten(t) \/ Return(t)
               \/ WriteFails(t) \/ Publish(t)
    BY <1>0, <1>1, AnswersChange
    DEF RetrieveFails, AnswerUnwritten, Return, WriteFails, Publish
  <1>2. CASE Ask(t)
    <2>0. At(t, "idle")
      BY <1>2 DEF Ask
    <2>1. PICK mode \in Modes :
              req' = [req EXCEPT ![t].at = "stat", ![t].mode = mode,
                                 ![t].runtime = {selected}]
      BY <1>2 DEF Ask
    <2> QED  BY <1>0, <2>0, <2>1 DEF RequestChanges, RequestInv, Req, Stages, At
  <1>3. CASE StatDocstore(t) \/ RecordMarker(t)
    BY <1>0, <1>3
    DEF StatDocstore, RecordMarker, RequestChanges, RequestInv, Req, Stages,
        At
  <1>8. CASE LoadSnapshot(t)
    <2>1. nodes' \in Revision
      BY <1>0, <1>8 DEF LoadSnapshot, Types
    <2> QED  BY <1>0, <1>8, <2>1
             DEF LoadSnapshot, RequestChanges, RequestInv, Req, Stages, At
  <1>4. CASE Retrieve(t)
    <2>0. At(t, "retrieve")
      BY <1>4 DEF Retrieve
    <2>1. PICK found \in SUBSET Corpora[nodes] :
              req' = [req EXCEPT ![t].at = "compose", ![t].evidence = found,
                                 ![t].corpus = nodes]
      BY <1>4 DEF Retrieve
    <2>2. found \subseteq Record /\ nodes \in Revision
      BY <1>0, <2>1, Revisions DEF Types
    <2> QED  BY <1>0, <2>0, <2>1, <2>2 DEF RequestChanges, RequestInv, Req, Stages, At
  <1>5. CASE Hit(t)
    <2>0. At(t, "compose")
      BY <1>5 DEF Hit
    <2>1. PICK e \in cache :
              /\ SameKey(e, req[t])
              /\ req' = [req EXCEPT ![t].at = "hit", ![t].key = {marker},
                                    ![t].got = {e.made}]
      BY <1>5 DEF Hit
    <2>2. e.made \in Made
      BY <1>0, <2>1 DEF Entry
    <2> QED  BY <1>0, <2>0, <2>1, <2>2
             DEF RequestChanges, RequestInv, Req, Stages, At, SameKey
  <1>6. CASE Miss(t)
    <2>0. At(t, "compose")
      BY <1>6 DEF Miss
    <2>1. PICK key \in {{}} \cup (IF Cacheable(req[t]) THEN {{marker}} ELSE {}) :
              req' = [req EXCEPT ![t].at = "write", ![t].key = key]
      BY <1>6 DEF Miss
    <2>2. key \subseteq Revision
          /\ (key # {} => req[t].evidence \subseteq Shared)
      BY <1>0, <2>1 DEF Cacheable
    <2> QED  BY <1>0, <2>0, <2>1, <2>2 DEF RequestChanges, RequestInv, Req, Stages, At
  <1>7. CASE Write(t)
    BY <1>0, <1>7 DEF Write, At, RequestChanges, RequestInv, Req, Stages
  <1> QED  BY <1>1, <1>2, <1>3, <1>4, <1>5, <1>6, <1>7,
              <1>8 DEF Request

\* What the steps of a request do to the rest: the cache takes the answer of
\* the request, the refresh of the snapshot goes through the lock.
LEMMA RequestCache ==
    ASSUME IInv, NEW t \in Thread, Ask(t) \/ Request(t)
    PROVE  cache' \subseteq Entry /\ CacheIsShared'
  <1>0. Types /\ RequestInv(req[t]) /\ CacheIsShared
    BY DEF IInv
  <1>1. CASE ~Publish(t)
    <2>1. UNCHANGED cache
      BY <1>1 DEF Ask, Request, StatDocstore, LoadSnapshot, RecordMarker,
          Retrieve, RetrieveFails, AnswerUnwritten, Hit, Return, Miss, Write,
          WriteFails
    <2> QED  BY <1>0, <2>1 DEF Types, CacheIsShared
  <1>2. CASE Publish(t)
    <2> DEFINE r == req[t]
               entries == {[marker |-> m, made |-> MadeOf(r),
                            proven |-> r.mode = "coverage"] : m \in r.key}
    <2>1. r \in Req /\ r.at = "publish" /\ cache' \subseteq cache \cup entries
      BY <1>0, <1>2 DEF Publish, At, Types
    <2>2. /\ MadeOf(r) \in Made
          /\ MadeOf(r).evidence = r.evidence
          /\ MadeOf(r).personal <=> r.key = {}
      BY <2>1 DEF MadeOf, Made, Req
    <2>3. entries \subseteq Entry
      <3> SUFFICES ASSUME NEW m \in r.key
                   PROVE  [marker |-> m, made |-> MadeOf(r),
                           proven |-> r.mode = "coverage"] \in Entry
        OBVIOUS
      <3>1. m \in Revision
        BY <2>1 DEF Req
      <3>2. (r.mode = "coverage") \in BOOLEAN
        OBVIOUS
      <3> QED  BY <2>2, <3>1, <3>2 DEF Entry
    <2>4. \A e \in entries : e.made.evidence \subseteq Shared /\ ~e.made.personal
      BY <1>0, <2>1, <2>2 DEF RequestInv
    <2> QED  BY <1>0, <2>1, <2>3, <2>4 DEF Types, CacheIsShared
  <1> QED  BY <1>1, <1>2

LEMMA RequestCorpus ==
    ASSUME IInv, NEW t \in Thread, Ask(t) \/ Request(t)
    PROVE  /\ nodes' \in Revision /\ marker' \in Revision
           /\ lock' \subseteq Thread /\ LockInv' /\ MarkerTrailsNodes'
           /\ UNCHANGED <<disk, unclear, selected, flow>>
  <1>0. /\ Types /\ LockInv /\ MarkerTrailsNodes /\ RequestChanges(t)
        /\ disk \in Nat /\ nodes \in Nat /\ marker \in Nat
        /\ \A x \in Thread \ {t} : req'[x] = req[x]
    <2>1. Types /\ LockInv /\ MarkerTrailsNodes /\ RequestChanges(t)
      BY RequestStep DEF IInv
    <2> QED  BY <2>1, Revisions DEF Types, RequestChanges
  <1>1. UNCHANGED <<disk, unclear, selected, flow>>
    BY DEF Ask, Request, StatDocstore, LoadSnapshot, RecordMarker, Retrieve,
        RetrieveFails, AnswerUnwritten, Hit, Return, Miss, Write, WriteFails,
        Publish, corpus, saved
  <1>2. CASE LoadSnapshot(t)
    <2>1. /\ req[t].at = "refresh" /\ lock = {} /\ marker' = marker
          /\ \/ nodes' = nodes /\ lock' = {} /\ req'[t].at = "retrieve"
             \/ /\ nodes' = disk /\ lock' = {t} /\ req'[t].at = "record"
                /\ req'[t].corpus = nodes'
      BY <1>0, <1>2 DEF LoadSnapshot, At, Types, Req
    <2> QED  BY <1>0, <1>1, <2>1 DEF LockInv, MarkerTrailsNodes, At, Types
  <1>3. CASE RecordMarker(t)
    <2>1. /\ t \in lock /\ lock' = {} /\ marker' = req[t].corpus
          /\ nodes' = nodes /\ req'[t].at = "retrieve"
      BY <1>0, <1>3 DEF RecordMarker, At, Types, Req, LockInv
    <2> QED  BY <1>0, <1>1, <2>1 DEF LockInv, MarkerTrailsNodes, At, Types
  <1>4. CASE ~LoadSnapshot(t) /\ ~RecordMarker(t)
    <2>1. UNCHANGED <<nodes, marker, lock>>
      BY <1>4 DEF Ask, Request, StatDocstore, Retrieve, RetrieveFails,
          AnswerUnwritten, Hit, Return, Miss, Write, WriteFails, Publish, corpus
    <2>2. CASE Ask(t) \/ StatDocstore(t) \/ Retrieve(t) \/ Hit(t) \/ Miss(t)
               \/ Write(t)
      <3>1. req[t].at # "record" /\ req'[t].at # "record"
        <4>1. CASE Ask(t) \/ StatDocstore(t) \/ Write(t)
          BY <1>0, <4>1 DEF Ask, StatDocstore, Write, At, Types, Req
        <4>2. CASE Retrieve(t)
          BY <1>0, <4>2 DEF Retrieve, At, Types, Req
        <4>3. CASE Hit(t)
          BY <1>0, <4>3 DEF Hit, At, Types, Req
        <4>4. CASE Miss(t)
          BY <1>0, <4>4 DEF Miss, At, Types, Req
        <4> QED  BY <2>2, <4>1, <4>2, <4>3, <4>4
      <3> QED  BY <1>0, <1>1, <2>1, <3>1
               DEF LockInv, MarkerTrailsNodes, At, Types
    <2>3. CASE RetrieveFails(t) \/ AnswerUnwritten(t) \/ Return(t)
               \/ WriteFails(t) \/ Publish(t)
      <3>1. req[t].at # "record" /\ req'[t].at # "record"
        BY <1>0, <2>3, AnswersChange
        DEF RetrieveFails, AnswerUnwritten, Return, WriteFails, Publish, At
      <3> QED  BY <1>0, <1>1, <2>1, <3>1
               DEF LockInv, MarkerTrailsNodes, At, Types
    <2> QED  BY <1>4, <2>2, <2>3 DEF Request
  <1> QED  BY <1>1, <1>2, <1>3, <1>4

\* The invariant holds throughout.
LEMMA InvStep == IInv /\ [Next]_vars => IInv'
  <1> SUFFICES ASSUME IInv, [Next]_vars
               PROVE  IInv'
    OBVIOUS
  <1>1. ASSUME NEW t \in Thread, Ask(t) \/ Request(t)
        PROVE  IInv'
    <2>1. /\ RequestChanges(t)
          /\ cache' \subseteq Entry /\ CacheIsShared'
          /\ nodes' \in Revision /\ marker' \in Revision
          /\ lock' \subseteq Thread /\ LockInv' /\ MarkerTrailsNodes'
          /\ UNCHANGED <<disk, unclear, selected, flow>>
      BY <1>1, RequestStep, RequestCache, RequestCorpus
    <2>2. Types'
      BY <2>1 DEF IInv, Types, RequestChanges
    <2>3. \A x \in Thread : RequestInv(req'[x])
      BY <2>1 DEF IInv, Types, RequestChanges
    <2> QED  BY <2>1, <2>2, <2>3 DEF IInv
  <1>2. CASE PublishCorpus
    <2>1. /\ disk' = disk + 1 /\ disk < Len(Corpora) /\ unclear' = TRUE
          /\ UNCHANGED <<nodes, marker, lock, selected, flow, cache, req>>
      BY <1>2 DEF PublishCorpus, saved
    <2>2. disk' \in Revision /\ nodes <= disk'
      <3>1. disk \in Revision /\ nodes \in Revision /\ nodes <= disk
        BY DEF IInv, Types, MarkerTrailsNodes
      <3> QED  BY <2>1, <3>1, Revisions
    <2> QED  BY <2>1, <2>2
             DEF IInv, Types, LockInv, MarkerTrailsNodes, CacheIsShared, At
  <1>3. CASE ClearCache \/ LeaveFlow
    <2>1. /\ cache' \subseteq cache /\ unclear' \in BOOLEAN
          /\ flow' \in [mode : {"python", "hybrid"}, leaving : BOOLEAN]
          /\ UNCHANGED <<disk, nodes, marker, lock, selected, req>>
      BY <1>3 DEF ClearCache, LeaveFlow, corpus, saved, IInv, Types
    <2> QED  BY <2>1
             DEF IInv, Types, LockInv, MarkerTrailsNodes, CacheIsShared, At
  <1>4. CASE SelectProvider \/ SaveFlow \/ UNCHANGED vars
    <2>1. /\ selected' \in Provider
          /\ flow' \in [mode : {"python", "hybrid"}, leaving : BOOLEAN]
          /\ UNCHANGED <<disk, nodes, marker, lock, unclear, cache, req>>
      <3>1. CASE SelectProvider
        BY <3>1 DEF SelectProvider, corpus, IInv, Types
      <3>2. CASE SaveFlow
        <4>1. [mode |-> "hybrid", leaving |-> FALSE]
                  \in [mode : {"python", "hybrid"}, leaving : BOOLEAN]
          OBVIOUS
        <4> QED  BY <3>2, <4>1 DEF SaveFlow, corpus, IInv, Types
      <3>3. CASE UNCHANGED vars
        BY <3>3 DEF vars, corpus, saved, IInv, Types
      <3> QED  BY <1>4, <3>1, <3>2, <3>3
    <2> QED  BY <2>1
             DEF IInv, Types, LockInv, MarkerTrailsNodes, CacheIsShared, At
  <1> QED  BY <1>1, <1>2, <1>3, <1>4 DEF Next

LEMMA InvInit == Init => IInv
  <1> SUFFICES ASSUME Init
               PROVE  IInv
    OBVIOUS
  <1>1. Types /\ MarkerTrailsNodes /\ CacheIsShared
    BY IdleRequest, Revisions DEF Init, Types, MarkerTrailsNodes, CacheIsShared
  <1>2. LockInv /\ \A t \in Thread : RequestInv(req[t])
    <2>1. \A t \in Thread : req[t] = Idle /\ Idle.at = "idle"
      BY DEF Init, Idle
    <2> QED  BY <2>1, IdleRequest DEF Init, LockInv, At
  <1> QED  BY <1>1, <1>2 DEF IInv

THEOREM Invariance == Spec => []IInv
    BY InvInit, InvStep, PTL DEF Spec

\* Types hold, and at most one thread is in a refresh of the snapshot.
THEOREM OrdinaryTypeCorrect == Spec => []TypeOK
  <1>1. IInv => TypeOK
    <2> SUFFICES ASSUME IInv
                 PROVE  TypeOK
      OBVIOUS
    <2>1. Cardinality(lock) <= 1
      <3>1. CASE lock = {}
        BY <3>1, FS_EmptySet
      <3>2. CASE lock # {}
        <4>0. PICK t \in lock : TRUE
          BY <3>2
        <4>1. \A x \in lock : x = t
          BY DEF IInv, LockInv
        <4>2. lock = {t}
          BY <4>0, <4>1
        <4>3. Cardinality({t}) = 1
          BY FS_Singleton
        <4> QED  BY <4>2, <4>3
      <3> QED  BY <3>1, <3>2
    <2>2. \A t \in Thread : req[t] \in Req
      BY DEF IInv, Types
    <2> QED  BY <2>1, <2>2 DEF IInv, Types, TypeOK, Req
  <1> QED  BY <1>1, Invariance, PTL

\* The marker of the snapshot never runs ahead of its nodes, however the
\* threads race to refresh it (_refresh_docstore_if_changed).
THEOREM MarkerNeverAhead == Spec => []MarkerTrailsNodes
    BY Invariance, PTL DEF IInv

\* The answer cache crosses users: it never holds an answer that rests on
\* evidence of one chat or project, or on a prompt that carries one.
THEOREM CacheStaysShared == Spec => []CacheIsShared
    BY Invariance, PTL DEF IInv

\* A cache hit returns what this request would have been answered from.
THEOREM HitsAreOwn == Spec => []HitIsOwn
  <1>1. IInv => HitIsOwn
    BY DEF IInv, HitIsOwn, RequestInv
  <1> QED  BY <1>1, Invariance, PTL

\* The writer of a request is the provider selected when it began.
THEOREM RuntimeIsFixed == Spec => []OneRuntime
  <1>1. IInv => OneRuntime
    BY DEF IInv, OneRuntime, RequestInv
  <1> QED  BY <1>1, Invariance, PTL

=============================================================================
