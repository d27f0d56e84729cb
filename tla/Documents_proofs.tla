-------------------------- MODULE Documents_proofs --------------------------
(***************************************************************************)
(* Proofs about Documents for any set of uploads and any bounds: types;    *)
(* and, for the worker as it is shipped (one job at a time), that what the *)
(* registry offers is in both stores, that a closed cancellation holds,    *)
(* and that Documents implements DocumentLife.                             *)
(*                                                                         *)
(* The results about the stores are those of IndexStore_proofs, whose      *)
(* subprocesses are here the jobs.                                         *)
(***************************************************************************)
EXTENDS Documents, FiniteSetTheorems, TLAPS

Store == INSTANCE IndexStore_proofs
    WITH Slots <- Jobs, Readers <- {}, MaxRuns <- MaxTries,
         MaxErases <- MaxTries, Warm <- TRUE

(***************************************************************************)
(* What the position of a request or a job says of the rows.               *)
(***************************************************************************)
UploadInv(d) ==
    LET i == Ingestion(d)
    IN  /\ up[d] \in {"idle", "written"} => row[d].status = "absent"
        /\ up[d] = "written" => d \in file
        /\ up[d] \in {"failWrite", "registered", "stored", "undelivered",
                      "delivered"} => row[d].status # "absent"
        /\ up[d] \in {"idle", "written", "registered", "stored"} =>
              arq[i] = "none"
        /\ up[d] = "stored" => job[i].status # "absent"
        /\ up[d] = "undelivered" => job[i].status # "absent"

DeleteInv(d) ==
    LET j == Deletion(d)
    IN  /\ del[d] \in {"idle", "read"} => ~row[d].deleted
        /\ del[d] = "read" => row[d].status # "absent"
        /\ del[d] \in {"hidden", "stored", "undelivered"} => row[d].deleted
        /\ del[d] \in {"idle", "read", "hidden", "stored"} => arq[j] = "none"
        /\ del[d] \in {"stored", "undelivered"} => job[j].status # "absent"
        /\ job[j].status # "absent" => row[d].deleted
        /\ row[d].deleted => row[d].status # "absent"

JobInv(j) ==
    LET d == DocOf(j)
    IN  /\ job[j].status # "absent" => row[d].status # "absent"
        /\ arq[j] # "none" => job[j].status # "absent"
        /\ pc[j] # "idle" => arq[j] = "running"
        /\ orphan[j] # {} => job[j].status # "absent"
        /\ can[j] # "idle" => job[j].status # "absent"
        /\ can[j] \in {"markJob", "markDoc", "writeDoc", "closed"} =>
              arq[j] = "done"
        /\ pc[j] \in DocWrites \/ orphan[j] \cap DocWrites # {} =>
              Kind(j) = "ingest"
        /\ pc[j] = "unlink" => Kind(j) = "erase"
        /\ agent[j].stage # "off" =>
              /\ agent[j].op = Kind(j) /\ agent[j].doc = d
              /\ pc[j] \in {"poll", "failJob", "failDoc", "finish"}
        /\ pc[j] = "poll" /\ Kind(j) = "ingest" => runs[d] >= 1

RowsInv ==
    /\ \A d \in Docs : UploadInv(d) /\ DeleteInv(d)
    /\ \A j \in Jobs : JobInv(j)

(***************************************************************************)
(* The worker runs one job at a time.                                      *)
(***************************************************************************)
OneJob == \A j, k \in Jobs : pc[j] = "idle" \/ pc[k] = "idle" \/ j = k

\* All chunks of one ingestion are in both stores.
Stored(d) ==
    \E r \in 1 .. MaxTries :
        Store!ChunksOf(d, r) \subseteq vectors \cap disk.nodes

\* Nothing of the document is left, and nobody is about to bring it back.
Purged(d) ==
    /\ d \notin file
    /\ disk.nodes \cap Store!NodesOf(d) = {}
    /\ agent[Ingestion(d)].stage \notin {"chunked", "inserted"}

\* A document is offered, or about to be.
Offering(d) ==
    \/ pc[Ingestion(d)] \in {"complete", "ready"}
    \/ "ready" \in orphan[Ingestion(d)]
    \/ row[d].status = "ready"

\* Its deletion is reported, or about to be.
Reporting(d) ==
    \/ pc[Deletion(d)] = "complete"
    \/ "complete" \in orphan[Deletion(d)]
    \/ job[Deletion(d)].status = "completed"

\* A subprocess that is seen to have succeeded did what its job is about.
Succeeded(j) ==
    pc[j] = "poll" /\ agent[j].stage = "off" /\ exit[j] = "ok" =>
        last[DocOf(j)] = Kind(j)

\* What an exit code, a position, a thread left over and a row say of the
\* stores.
ContentInv(d) ==
    /\ Succeeded(Ingestion(d)) /\ Succeeded(Deletion(d))
    /\ Offering(d) => Stored(d) \/ row[d].deleted
    /\ pc[Deletion(d)] = "unlink" => disk.nodes \cap Store!NodesOf(d) = {}
    /\ Reporting(d) => Purged(d)
    /\ row[d].status = "absent" => disk.nodes \cap Store!NodesOf(d) = {}

DInv ==
    /\ Store!StoresInv
    /\ RowsInv /\ OneJob
    /\ \A d \in Docs : ContentInv(d)

-----------------------------------------------------------------------------
(***************************************************************************)
(* The two instances are one: Documents takes the index from IndexStore,   *)
(* the lemmas about it are those of IndexStore_proofs.                     *)
(***************************************************************************)

\* The assumption of IndexStore, about jobs in place of slots.
LEMMA StoreAssumption == Store!IndexAssumption
    BY DocumentsAssumption DEF Store!IndexAssumption

LEMMA SameSets ==
    /\ Index!TypeOK <=> Store!TypeOK
    /\ Index!Init <=> Store!Init
    /\ Index!Fault <=> Store!Fault
    /\ \A d : Index!NodesOf(d) = Store!NodesOf(d)
    /\ \A d, r : Index!ChunksOf(d, r) = Store!ChunksOf(d, r)
    BY DEF Index!TypeOK, Store!TypeOK, Index!Init, Store!Init, Index!Fault,
        Store!Fault, Index!NodesOf, Store!NodesOf, Index!ChunksOf,
        Store!ChunksOf, Index!Agents, Store!Agents, Index!Agent, Store!Agent,
        Index!Node, Store!Node, Index!Off, Store!Off

LEMMA SameEnds ==
    /\ \A s, code : Index!Ends(s, code) <=> Store!Ends(s, code)
    /\ \A S : Index!Terminate(S) <=> Store!Terminate(S)
    /\ \A s, d : Index!StartIngest(s, d) <=> Store!StartIngest(s, d)
    /\ \A s, d : Index!StartErase(s, d) <=> Store!StartErase(s, d)
    BY DEF Index!Ends, Store!Ends, Index!Terminate, Store!Terminate,
        Index!StartIngest, Store!StartIngest, Index!StartErase,
        Store!StartErase, Index!Goes, Store!Goes, Index!Off,
        Store!Off, Index!Agents, Store!Agents, Index!stores,
        Store!stores, Index!counters, Store!counters

LEMMA SameRun ==
    \A a : (Index!Run(a) <=> Store!Run(a))
           /\ (Index!Failure(a) <=> Store!Failure(a))
    BY DEF Index!Run, Store!Run, Index!Failure, Store!Failure,
        Index!LoadStore, Store!LoadStore, Index!RecordMtime,
        Store!RecordMtime, Index!RefreshStat, Store!RefreshStat,
        Index!Reload, Store!Reload, Index!Chunk, Store!Chunk,
        Index!InsertVectors, Store!InsertVectors, Index!Publish,
        Store!Publish, Index!Complete, Store!Complete,
        Index!Scan, Store!Scan, Index!DeleteVectors,
        Store!DeleteVectors, Index!ReloadFails,
        Store!ReloadFails, Index!ChunkFails, Store!ChunkFails,
        Index!InsertFails, Store!InsertFails,
        Index!PublishFails, Store!PublishFails,
        Index!DeleteFails, Store!DeleteFails, Index!Refreshed,
        Store!Refreshed, Index!Ends, Store!Ends, Index!Fault,
        Store!Fault, Index!Goes, Store!Goes, Index!Off,
        Store!Off, Index!NodesOf, Store!NodesOf, Index!ChunksOf,
        Store!ChunksOf, Index!stores, Store!stores,
        Index!counters, Store!counters, Index!history,
        Store!history

-----------------------------------------------------------------------------
(***************************************************************************)
(* The steps, by what they do to the index.                                *)
(***************************************************************************)
DocStep(d) ==
    WriteFile(d) \/ FindDocument(d) \/ HandlerStep(d) \/ HandlerFault(d)

JobStep(j) ==
    \/ ArqStep(j) \/ WorkerStep(j) \/ Subprocess(j) \/ OrphanCommits(j)
    \/ CancelRead(j) \/ CancelStep(j) \/ InterruptTask(j) \/ WorkerFault(j)
    \/ SubprocessFails(j)

LEMMA NextCases ==
    ASSUME [Next]_vars
    PROVE  \/ \E d \in Docs : DocStep(d)
           \/ \E j \in Jobs : JobStep(j)
           \/ WorkerCrash \/ ApiCrash \/ UNCHANGED vars
    BY DEF Next, DocStep, JobStep, Rest

FaultOrNot == faults' = faults \/ Store!Fault

\* The subprocess of an ingestion whose file is gone.
MissesFile(j) ==
    /\ agent[j].stage = "ready" /\ Store!Ends(j, "error")
    /\ UNCHANGED <<vectors, disk, runs, erases, faults, last, torn>>

\* The start of a subprocess.
Spawns(j) ==
    /\ pc[j] = "spawn"
    /\ \/ Kind(j) = "ingest" /\ Store!StartIngest(j, DocOf(j))
       \/ Kind(j) = "erase" /\ Store!StartErase(j, DocOf(j))

LEMMA DocStepIndex ==
    ASSUME NEW d \in Docs, DocStep(d)
    PROVE  UNCHANGED <<index, worker>> /\ FaultOrNot
    BY SameSets
    DEF DocStep, WriteFile, FindDocument, HandlerStep, HandlerFault,
        CreateDocument, SubmitIngestion, DeliverIngestion,
        IngestionUndelivered, UploadFails, UploadReturns, TombstoneDocument,
        SubmitDeletion, DeliverDeletion, DeletionUndelivered, UploadAborts,
        DeliverIngestionRaises, UploadDbFault, DeliverDeletionRaises,
        DeleteDbFault, UploadGoes, DeleteGoes, Fault, FaultOrNot

LEMMA JobStepIndex ==
    ASSUME NEW j \in Jobs, JobStep(j)
    PROVE  \/ UNCHANGED index /\ FaultOrNot
           \/ Store!Terminate({j}) /\ FaultOrNot
           \/ Store!AgentStep(j)
           \/ Spawns(j)
           \/ MissesFile(j)
  <1> USE SameSets, SameEnds, SameRun DEF Fault, FaultOrNot
  <1>1. CASE ArqStep(j)
    BY <1>1 DEF ArqStep, Deliver, EndUnrun, AbortTask, Cut
  <1>2. CASE WorkerStep(j)
    BY <1>2 DEF WorkerStep, ReadJob, WriteJob, LookAtRow, WriteRow, Spawn,
                PollExit, PollCancel, UnlinkFile, Finish, Reraise, Spawns
  <1>3. CASE Subprocess(j)
    BY <1>3 DEF Subprocess, SubprocessRuns, SubprocessMissesFile, MissesFile,
                Store!AgentStep
  <1>4. CASE OrphanCommits(j)
    BY <1>4 DEF OrphanCommits
  <1>5. CASE CancelRead(j) \/ CancelStep(j)
    BY <1>5 DEF CancelRead, CancelStep, CancelFlag, CancelAbort, AbortReturns,
                AbortRaises, CancelMarkJob, CancelMarkDocument, CancelGoes
  <1>6. CASE InterruptTask(j) \/ WorkerFault(j)
    BY <1>6 DEF InterruptTask, WorkerFault, Cut
  <1>7. CASE SubprocessFails(j)
    BY <1>7 DEF SubprocessFails, Store!AgentStep
  <1> QED  BY <1>1, <1>2, <1>3, <1>4, <1>5, <1>6, <1>7 DEF JobStep

LEMMA CrashIndex ==
    ASSUME WorkerCrash \/ ApiCrash
    PROVE  FaultOrNot /\ (Store!Terminate(Jobs) \/ UNCHANGED index)
    BY SameSets, SameEnds DEF WorkerCrash, ApiCrash, Fault, FaultOrNot

\* A step keeps the index in its types.
LEMMA StoreTyped ==
    ASSUME Store!Typed, [Next]_vars
    PROVE  Store!Typed'
  <1>2. FaultOrNot => faults' \in 0 .. MaxFaults
    BY StoreAssumption, Store!FaultType DEF FaultOrNot, Store!Typed, Store!TypeOK
  <1>3. UNCHANGED index /\ FaultOrNot => Store!Typed'
    BY <1>2 DEF index, Store!Typed, Store!TypeOK, Store!Shape
  <1>4. ASSUME NEW S \in SUBSET Jobs, Store!Terminate(S), FaultOrNot
        PROVE  Store!Typed'
    BY <1>2, <1>4, StoreAssumption, Store!TerminateType
  <1>5. ASSUME NEW j \in Jobs, JobStep(j)
        PROVE  Store!Typed'
    <2>1. j \in Store!Agents /\ DocOf(j) \in Docs
      BY DEF Store!Agents, Jobs, DocOf
    <2>2. CASE Store!AgentStep(j)
      BY <2>1, <2>2, StoreAssumption, Store!AgentType
    <2>3. CASE Spawns(j)
      BY <2>1, <2>3, StoreAssumption, Store!StartType DEF Spawns
    <2>4. CASE MissesFile(j)
      <3>1. /\ agent' \in [Store!Agents -> Store!Agent]
            /\ Store!Shape(j)'
            /\ exit' \in [Jobs -> {"none", "ok", "error", "killed"}]
            /\ \A b \in Store!Agents \ {j} : agent'[b] = agent[b]
        BY <2>4, StoreAssumption, Store!EndsType DEF MissesFile, Store!Typed
      <3> QED  BY <2>4, <3>1
               DEF MissesFile, Store!Typed, Store!TypeOK, Store!Shape
    <2> QED  BY <1>3, <1>4, <1>5, <2>2, <2>3, <2>4, JobStepIndex
  <1>6. CASE UNCHANGED vars
    BY <1>3, <1>6 DEF vars, FaultOrNot
  <1> QED  BY <1>3, <1>4, <1>5, <1>6, NextCases, DocStepIndex, CrashIndex

\* One job at a time means one subprocess at a time.
LEMMA OneJobOneWriter ==
    ASSUME OneJob, RowsInv
    PROVE  Store!OneWriter
    BY DEF OneJob, RowsInv, JobInv, Store!OneWriter

\* A step keeps the invariant of the stores.
LEMMA StoreStep ==
    ASSUME Store!Typed, Store!StoresInv, OneJob, RowsInv, [Next]_vars
    PROVE  Store!StoresInv'
  <1>0. Store!OneWriter
    BY OneJobOneWriter
  <1>1. UNCHANGED index => Store!StoresInv'
    BY StoreAssumption, Store!StoresFrame
    DEF index, Store!stores, Store!history
  <1>2. ASSUME NEW S \in SUBSET Jobs, Store!Terminate(S)
        PROVE  Store!StoresInv'
    BY <1>0, <1>2, StoreAssumption, Store!TerminateStores
  <1>3. ASSUME NEW j \in Jobs, JobStep(j)
        PROVE  Store!StoresInv'
    <2>1. DocOf(j) \in Docs
      BY DEF Jobs, DocOf
    <2>2. CASE Store!AgentStep(j)
      BY <1>0, <2>2, StoreAssumption, Store!WriterStep
    <2>3. CASE Spawns(j)
      <3>1. \A k \in Jobs \ {j} : agent[k].stage = "off"
        BY <2>3 DEF Spawns, OneJob, RowsInv, JobInv
      <3> QED  BY <2>1, <2>3, <3>1, StoreAssumption, Store!StartStores
               DEF Spawns
    <2>4. CASE MissesFile(j)
      BY <2>4, StoreAssumption, Store!EndsStores
      DEF MissesFile, Store!stores, Store!history
    <2> QED  BY <1>1, <1>2, <1>3, <2>2, <2>3, <2>4, JobStepIndex
  <1>4. CASE UNCHANGED vars
    BY <1>1, <1>4 DEF vars
  <1> QED  BY <1>1, <1>2, <1>3, <1>4, NextCases, DocStepIndex, CrashIndex

-----------------------------------------------------------------------------
(***************************************************************************)
(* Types of the registry, the queue, the worker and the handlers.          *)
(***************************************************************************)
RowTypes ==
    /\ row \in [Docs -> Row]
    /\ file \subseteq Docs
    /\ job \in [Jobs -> JobRow]
    /\ arq \in [Jobs -> {"none", "queued", "running", "done"}]
    /\ aborts \subseteq Jobs
    /\ tries \in [Jobs -> Nat]
    /\ pc \in [Jobs -> Active \cup {"idle", "finish", "reraise"}]
    /\ held \in [Jobs -> BOOLEAN]
    /\ cause \in [Jobs -> {"none", "abort", "timeout", "shutdown", "db"}]
    /\ orphan \in [Jobs -> SUBSET (JobWrites \cup DocWrites)]
    /\ up \in [Docs -> {"idle", "written", "registered", "stored",
                        "undelivered", "delivered", "failing", "failWrite",
                        "done", "refused", "dead"}]
    /\ del \in [Docs -> {"idle", "read", "hidden", "stored", "undelivered",
                         "done", "dead"}]
    /\ can \in [Jobs -> {"idle", "flag", "abort", "await", "markJob",
                         "markDoc", "writeDoc", "closed"}]

\* Only a coroutine that updates a document holds what it read of the row.
HeldShape == \A j \in Jobs : held[j] => pc[j] \in DocWrites

\* Every document has its two jobs, and no other job exists.
LEMMA JobsOf ==
    /\ \A d \in Docs : /\ Ingestion(d) \in Jobs /\ Deletion(d) \in Jobs
                       /\ Ingestion(d) # Deletion(d)
                       /\ DocOf(Ingestion(d)) = d /\ DocOf(Deletion(d)) = d
                       /\ Kind(Ingestion(d)) = "ingest"
                       /\ Kind(Deletion(d)) = "erase"
    /\ \A j \in Jobs : /\ DocOf(j) \in Docs
                       /\ Kind(j) \in {"ingest", "erase"}
                       /\ Kind(j) = "ingest" <=> j = Ingestion(DocOf(j))
                       /\ Kind(j) = "erase" <=> j = Deletion(DocOf(j))
    BY DEF Jobs, Ingestion, Deletion, DocOf, Kind

\* A write of one column keeps the rest of its row, and every other row.
LEMMA SetJobEffect ==
    ASSUME RowTypes, NEW j \in Jobs,
           NEW st \in {"queued", "running"} \cup Terminal, SetJob(j, st)
    PROVE  /\ job' \in [Jobs -> JobRow]
           /\ job'[j].status = st /\ job'[j].cancel = job[j].cancel
           /\ \A k \in Jobs \ {j} : job'[k] = job[k]
  <1>1. [job[j] EXCEPT !.status = st] \in JobRow
    BY DEF RowTypes, JobRow
  <1> QED  BY <1>1 DEF RowTypes, SetJob, JobRow

LEMMA FlagEffect ==
    ASSUME RowTypes, NEW j \in Jobs, CancelFlag(j)
    PROVE  /\ job' \in [Jobs -> JobRow]
           /\ job'[j].status = job[j].status /\ job'[j].cancel
           /\ \A k \in Jobs \ {j} : job'[k] = job[k]
  <1>1. job[j] \in JobRow
    BY DEF RowTypes
  <1>2. [job[j] EXCEPT !.cancel = TRUE] \in JobRow
    BY <1>1 DEF JobRow
  <1>3. job' = [job EXCEPT ![j] = [job[j] EXCEPT !.cancel = TRUE]]
    BY DEF CancelFlag
  <1>4. /\ job'[j] = [job[j] EXCEPT !.cancel = TRUE]
        /\ job' \in [Jobs -> JobRow]
        /\ \A k \in Jobs \ {j} : job'[k] = job[k]
    BY <1>2, <1>3 DEF RowTypes
  <1>5. job'[j].status = job[j].status /\ job'[j].cancel = TRUE
    BY <1>1, <1>4 DEF JobRow
  <1> QED  BY <1>4, <1>5

LEMMA SetRowEffect ==
    ASSUME RowTypes, NEW d \in Docs,
           NEW st \in {"queued", "processing", "ready", "failed", "cancelled"},
           SetRow(d, st)
    PROVE  /\ row' \in [Docs -> Row]
           /\ row'[d].status = st /\ row'[d].deleted = row[d].deleted
           /\ \A e \in Docs \ {d} : row'[e] = row[e]
  <1>1. [row[d] EXCEPT !.status = st] \in Row
    BY DEF RowTypes, Row
  <1> QED  BY <1>1 DEF RowTypes, SetRow, Row

\* A write of the worker is one of the two.
LEMMA CommitEffect ==
    ASSUME RowTypes, NEW j \in Jobs, NEW w \in JobWrites \cup DocWrites,
           Commit(j, w)
    PROVE  /\ row' \in [Docs -> Row] /\ job' \in [Jobs -> JobRow]
           /\ \/ /\ w \in JobWrites /\ row' = row
                 /\ job'[j].status = JobStatusOf(w)
                 /\ job'[j].status \in {"running"} \cup Terminal
                 /\ job'[j].cancel = job[j].cancel
                 /\ \A k \in Jobs \ {j} : job'[k] = job[k]
              \/ /\ w \in DocWrites /\ job' = job
                 /\ row'[DocOf(j)].status = RowStatusOf(w)
                 /\ row'[DocOf(j)].status \in
                        {"processing", "ready", "failed", "cancelled"}
                 /\ row'[DocOf(j)].deleted = row[DocOf(j)].deleted
                 /\ \A e \in Docs \ {DocOf(j)} : row'[e] = row[e]
  <1>1. /\ JobStatusOf(w) \in {"running"} \cup Terminal
        /\ RowStatusOf(w) \in {"processing", "ready", "failed", "cancelled"}
    BY DEF JobStatusOf, RowStatusOf, Terminal
  <1>2. CASE w \in JobWrites /\ SetJob(j, JobStatusOf(w)) /\ UNCHANGED row
    <2>1. JobStatusOf(w) \in {"queued", "running"} \cup Terminal
      BY <1>1
    <2>2. /\ job' \in [Jobs -> JobRow]
          /\ job'[j].status = JobStatusOf(w) /\ job'[j].cancel = job[j].cancel
          /\ \A k \in Jobs \ {j} : job'[k] = job[k]
      BY <1>2, <2>1, SetJobEffect
    <2>3. row' \in [Docs -> Row]
      BY <1>2 DEF RowTypes
    <2> QED  BY <1>1, <1>2, <2>2, <2>3
  <1>3. CASE w \in DocWrites /\ SetRow(DocOf(j), RowStatusOf(w))
             /\ UNCHANGED job
    BY <1>1, <1>3, SetRowEffect, JobsOf DEF RowTypes
  <1> QED  BY <1>2, <1>3 DEF Commit

\* After a write the coroutine stands at a known point.
LEMMA AfterType ==
    ASSUME NEW j \in Jobs, NEW w \in JobWrites \cup DocWrites
    PROVE  After(j, w) \in {"dropDoc", "finish", "processing", "spawn",
                            "ready", "cancelDoc", "reraise", "failDoc"}
    BY DEF After, JobWrites, DocWrites

LEMMA DocStepTypes ==
    ASSUME RowTypes, NEW d \in Docs, DocStep(d)
    PROVE  RowTypes'
  <1>0. /\ UNCHANGED <<pc, held, cause, orphan>>
        /\ Ingestion(d) \in Jobs /\ Deletion(d) \in Jobs
    BY DocStepIndex, JobsOf DEF worker
  <1> USE <1>0
  <1>1. CASE WriteFile(d) \/ FindDocument(d) \/ UploadReturns(d)
    BY <1>1 DEF WriteFile, FindDocument, UploadReturns, UploadGoes, DeleteGoes,
                RowTypes, registry, delivery
  <1>2. CASE CreateDocument(d) \/ UploadFails(d)
    BY <1>2, SetRowEffect
    DEF CreateDocument, UploadFails, UploadGoes, RowTypes, registry, delivery
  <1>3. CASE SubmitIngestion(d) \/ IngestionUndelivered(d)
    BY <1>3, SetJobEffect
    DEF SubmitIngestion, IngestionUndelivered, UploadGoes, RowTypes, registry,
        delivery, Terminal
  <1>4. CASE SubmitDeletion(d) \/ DeletionUndelivered(d)
    BY <1>4, SetJobEffect
    DEF SubmitDeletion, DeletionUndelivered, DeleteGoes, RowTypes, registry,
        delivery, Terminal
  <1>5. CASE DeliverIngestion(d) \/ DeliverDeletion(d)
             \/ DeliverIngestionRaises(d) \/ DeliverDeletionRaises(d)
    BY <1>5
    DEF DeliverIngestion, DeliverDeletion, DeliverIngestionRaises,
        DeliverDeletionRaises, Enqueue, RowTypes, registry
  <1>6. CASE TombstoneDocument(d)
    BY <1>6 DEF TombstoneDocument, DeleteGoes, RowTypes, delivery, Row
  <1>7. CASE UploadAborts(d) \/ UploadDbFault(d) \/ DeleteDbFault(d)
    BY <1>7 DEF UploadAborts, UploadDbFault, DeleteDbFault, UploadGoes,
                DeleteGoes, RowTypes, registry, delivery
  <1> QED
    BY <1>1, <1>2, <1>3, <1>4, <1>5, <1>6, <1>7
    DEF DocStep, HandlerStep, HandlerFault

LEMMA JobStepTypes ==
    ASSUME RowTypes, HeldShape, NEW j \in Jobs, JobStep(j)
    PROVE  RowTypes'
  <1> USE DEF RowTypes, registry, delivery, handlers, worker
  <1>1. CASE Deliver(j)
    BY <1>1 DEF Deliver, Goes, Active
  <1>2. CASE EndUnrun(j)
    BY <1>2 DEF EndUnrun
  <1>3. CASE \E why \in {"abort", "timeout", "shutdown"} :
                Cut(j, why) /\ aborts' \subseteq aborts
    <2>1. PICK why \in {"abort", "timeout", "shutdown"} :
               Cut(j, why) /\ aborts' \subseteq aborts
      BY <1>3
    <2>2. cause' \in [Jobs -> {"none", "abort", "timeout", "shutdown", "db"}]
          /\ pc' \in [Jobs -> Active \cup {"idle", "finish", "reraise"}]
      BY <2>1 DEF Cut, Goes, Active, JobWrites
    <2>3. held' \in [Jobs -> BOOLEAN]
      BY <2>1 DEF Cut
    <2>4. orphan' \in [Jobs -> SUBSET (JobWrites \cup DocWrites)]
      <3>1. \/ UNCHANGED orphan
            \/ /\ pc[j] \in JobWrites \cup DocWrites
               /\ orphan' = [orphan EXCEPT ![j] = @ \cup {pc[j]}]
        BY <2>1 DEF Cut, HeldShape
      <3> QED  BY <3>1
    <2> QED  BY <2>1, <2>2, <2>3, <2>4 DEF Cut
  <1>4. CASE ReadJob(j)
    BY <1>4 DEF ReadJob, Goes, Active, JobWrites
  <1>5. CASE WriteJob(j)
    BY <1>5, CommitEffect, AfterType
    DEF WriteJob, Goes, Active, JobWrites, DocWrites
  <1>6. CASE WriteRow(j)
    BY <1>6, CommitEffect, AfterType
    DEF WriteRow, Goes, Active, JobWrites, DocWrites
  <1>7. CASE LookAtRow(j)
    <2>1. pc' \in [Jobs -> Active \cup {"idle", "finish", "reraise"}]
      BY <1>7, AfterType DEF LookAtRow, Goes, Active, JobWrites, DocWrites
    <2>2. held' \in [Jobs -> BOOLEAN]
      BY <1>7 DEF LookAtRow
    <2> QED  BY <1>7, <2>1, <2>2 DEF LookAtRow
  <1>8. CASE Spawn(j) \/ PollExit(j) \/ PollCancel(j)
    BY <1>8 DEF Spawn, PollExit, PollCancel, Goes, Active, JobWrites
  <1>9. CASE UnlinkFile(j)
    BY <1>9 DEF UnlinkFile, Goes, Active, JobWrites
  <1>10. CASE Finish(j) \/ Reraise(j)
    BY <1>10 DEF Finish, Reraise, Goes
  <1>11. CASE Subprocess(j) \/ SubprocessFails(j)
    BY <1>11 DEF Subprocess, SubprocessRuns, SubprocessMissesFile,
                 SubprocessFails
  <1>12. CASE OrphanCommits(j)
    BY <1>12, CommitEffect DEF OrphanCommits
  <1>13. CASE CancelRead(j)
    BY <1>13 DEF CancelRead
  <1>14. CASE CancelFlag(j)
    <2>2. job' \in [Jobs -> JobRow]
      BY <1>14, FlagEffect
    <2>3. can' \in [Jobs -> {"idle", "flag", "abort", "await", "markJob",
                             "markDoc", "writeDoc", "closed"}]
      BY <1>14 DEF CancelFlag, CancelGoes
    <2>4. UNCHANGED <<row, file, arq, aborts, tries, pc, held, cause, orphan,
                      up, del>>
      BY <1>14 DEF CancelFlag, CancelGoes
    <2> QED  BY <2>2, <2>3, <2>4
  <1>15. CASE CancelAbort(j) \/ AbortReturns(j) \/ AbortRaises(j)
    BY <1>15 DEF CancelAbort, AbortReturns, AbortRaises, CancelGoes
  <1>16. CASE CancelMarkJob(j)
    BY <1>16, SetJobEffect DEF CancelMarkJob, CancelGoes, Terminal
  <1>17. CASE CancelMarkDocument(j)
    BY <1>17, SetRowEffect, JobsOf DEF CancelMarkDocument, CancelGoes
  <1>18. CASE WorkerFault(j)
    BY <1>18 DEF WorkerFault, Goes, Active, JobWrites
  <1>19. AbortTask(j) \/ InterruptTask(j) =>
            \E why \in {"abort", "timeout", "shutdown"} :
                Cut(j, why) /\ aborts' \subseteq aborts
    BY DEF AbortTask, InterruptTask
  <1> QED
    BY <1>1, <1>2, <1>3, <1>4, <1>5, <1>6, <1>7, <1>8, <1>9, <1>10, <1>11,
       <1>12, <1>13, <1>14, <1>15, <1>16, <1>17, <1>18, <1>19
    DEF JobStep, ArqStep, WorkerStep, CancelStep

LEMMA CrashTypes ==
    ASSUME RowTypes, WorkerCrash \/ ApiCrash
    PROVE  RowTypes'
  <1>1. CASE WorkerCrash
    BY <1>1 DEF WorkerCrash, RowTypes, registry, handlers
  <1>2. CASE ApiCrash
    BY <1>2 DEF ApiCrash, RowTypes, registry, delivery, worker
  <1> QED  BY <1>1, <1>2

LEMMA HeldStep ==
    ASSUME RowTypes, HeldShape, RowsInv, [Next]_vars
    PROVE  HeldShape'
  <1>1. UNCHANGED <<pc, held>> => HeldShape'
    BY DEF HeldShape
  <1>2. ASSUME NEW j \in Jobs, JobStep(j)
        PROVE  \/ UNCHANGED <<pc, held>>
               \/ /\ \A k \in Jobs \ {j} : pc'[k] = pc[k] /\ held'[k] = held[k]
                  /\ held'[j] => pc'[j] \in DocWrites
    <2> USE DEF Goes, RowTypes, HeldShape
    <2>1. CASE ArqStep(j)
      <3>1. CASE Deliver(j)
        <4>1. ~held[j]
          BY <3>1 DEF Deliver, RowsInv, JobInv, DocWrites
        <4> QED  BY <3>1, <4>1 DEF Deliver
      <3> QED  BY <2>1, <3>1 DEF ArqStep, EndUnrun, AbortTask, Cut, worker
    <2>2. CASE ReadJob(j) \/ WriteJob(j) \/ Spawn(j) \/ PollExit(j)
               \/ PollCancel(j) \/ UnlinkFile(j) \/ Finish(j) \/ Reraise(j)
      BY <1>2, <2>2 DEF ReadJob, WriteJob, Spawn, PollExit, PollCancel,
                  UnlinkFile, Finish, Reraise, DocWrites, JobWrites
    <2>3. CASE LookAtRow(j) \/ WriteRow(j)
      BY <1>2, <2>3 DEF LookAtRow, WriteRow
    <2>4. CASE OrphanCommits(j) \/ CancelRead(j) \/ CancelStep(j)
               \/ Subprocess(j) \/ SubprocessFails(j)
      BY <1>2, <2>4 DEF OrphanCommits, CancelRead, CancelStep, CancelFlag,
                  CancelAbort, AbortReturns, AbortRaises, CancelMarkJob,
                  CancelMarkDocument, CancelGoes, Subprocess, SubprocessRuns,
                  SubprocessMissesFile, SubprocessFails, worker
    <2>5. CASE InterruptTask(j) \/ WorkerFault(j)
      BY <1>2, <2>5 DEF InterruptTask, WorkerFault, Cut
    <2> QED  BY <1>2, <2>1, <2>2, <2>3, <2>4, <2>5 DEF JobStep, WorkerStep
  <1>3. CASE WorkerCrash
    BY <1>3 DEF WorkerCrash, HeldShape
  <1>4. CASE ApiCrash \/ UNCHANGED vars \/ \E d \in Docs : DocStep(d)
    <2>1. UNCHANGED <<pc, held>>
      BY <1>4, DocStepIndex DEF ApiCrash, vars, worker
    <2> QED  BY <1>1, <2>1
  <1>5. ASSUME NEW j \in Jobs, JobStep(j)
        PROVE  HeldShape'
    BY <1>1, <1>2, <1>5 DEF HeldShape
  <1> QED  BY <1>3, <1>4, <1>5, NextCases

Typed == RowTypes /\ HeldShape /\ Store!Typed

LEMMA TypedStep == ASSUME Typed, RowsInv, [Next]_vars PROVE Typed'
  <1>1. UNCHANGED vars /\ RowTypes => RowTypes'
    BY DEF vars, RowTypes, registry, delivery, worker, handlers
  <1> QED  BY <1>1, NextCases, DocStepTypes, JobStepTypes, CrashTypes,
              HeldStep, StoreTyped DEF Typed

LEMMA InitTyped == Init => Typed
  <1>1. ASSUME Init
        PROVE  Store!Typed
    BY <1>1, SameSets, StoreAssumption, Store!TypedInit DEF Init
  <1> QED  BY <1>1 DEF Init, Typed, RowTypes, HeldShape, Row, JobRow

-----------------------------------------------------------------------------
(***************************************************************************)
(* What a step of one job does, in its own row and in the others'.         *)
(***************************************************************************)

\* A subprocess starts on what its job is about.
LEMMA SpawnEffect ==
    ASSUME Store!Typed, NEW j \in Jobs, Spawns(j)
    PROVE  /\ agent'[j].stage = "boot" /\ agent'[j].op = Kind(j)
           /\ agent'[j].doc = DocOf(j)
           /\ \A k \in Jobs \ {j} : agent'[k] = agent[k] /\ exit'[k] = exit[k]
           /\ \A d \in Docs : runs'[d] >= runs[d]
           /\ Kind(j) = "ingest" => runs'[DocOf(j)] >= 1
           /\ last' = [last EXCEPT ![DocOf(j)] = "none"]
           /\ UNCHANGED <<vectors, disk>>
  <1>0. /\ agent \in [Jobs -> Store!Agent]
        /\ exit \in [Jobs -> {"none", "ok", "error", "killed"}]
        /\ runs \in [Docs -> 0 .. MaxTries] /\ DocOf(j) \in Docs
    BY JobsOf DEF Store!Typed, Store!TypeOK, Store!Agents
  <1>1. /\ agent' = [agent EXCEPT ![j] = [Store!Off EXCEPT
                        !.stage = "boot", !.op = Kind(j), !.doc = DocOf(j)]]
        /\ exit' = [exit EXCEPT ![j] = "none"]
        /\ \/ runs' = [runs EXCEPT ![DocOf(j)] = @ + 1]
           \/ Kind(j) # "ingest" /\ runs' = runs
        /\ last' = [last EXCEPT ![DocOf(j)] = "none"]
        /\ UNCHANGED <<vectors, disk>>
    <2>1. CASE Kind(j) = "ingest" /\ Store!StartIngest(j, DocOf(j))
      BY <2>1 DEF Store!StartIngest, Store!Goes, Store!Off, Store!stores
    <2>2. CASE Kind(j) = "erase" /\ Store!StartErase(j, DocOf(j))
      BY <2>2 DEF Store!StartErase, Store!Goes, Store!Off, Store!stores
    <2> QED  BY <2>1, <2>2 DEF Spawns
  <1>2. /\ agent'[j].stage = "boot" /\ agent'[j].op = Kind(j)
        /\ agent'[j].doc = DocOf(j)
        /\ \A k \in Jobs \ {j} : agent'[k] = agent[k] /\ exit'[k] = exit[k]
    BY <1>0, <1>1 DEF Store!Off
  <1> QED  BY <1>0, <1>1, <1>2

\* The subprocess of a job works on what the job is about.
LEMMA SlotEffect ==
    ASSUME Typed, NEW j \in Jobs, JobStep(j)
    PROVE  /\ \A k \in Jobs \ {j} : agent'[k] = agent[k] /\ exit'[k] = exit[k]
           /\ \A d \in Docs : runs'[d] >= runs[d]
           /\ \/ agent'[j].stage = "off"
              \/ agent'[j] = agent[j] /\ UNCHANGED index
              \/ /\ agent[j].stage # "off" /\ Store!GoesOn(j)
                 /\ Store!AgentStep(j) /\ UNCHANGED runs
              \/ /\ Spawns(j) /\ agent'[j].stage = "boot"
                 /\ agent'[j].op = Kind(j) /\ agent'[j].doc = DocOf(j)
                 /\ Kind(j) = "ingest" => runs'[DocOf(j)] >= 1
  <1>0. /\ Store!Agents = Jobs /\ agent \in [Jobs -> Store!Agent]
        /\ exit \in [Jobs -> {"none", "ok", "error", "killed"}]
        /\ runs \in [Docs -> 0 .. MaxTries] /\ DocOf(j) \in Docs
    BY JobsOf DEF Typed, Store!Typed, Store!TypeOK, Store!Agents
  <1>1. CASE UNCHANGED index
    BY <1>0, <1>1 DEF index
  <1>2. CASE Store!Terminate({j})
    BY <1>0, <1>2 DEF Store!Terminate, Store!counters, Store!Off
  <1>3. CASE Store!AgentStep(j)
    <2>1. /\ UNCHANGED <<runs, erases>> /\ agent[j].stage # "off"
          /\ \A t \in Jobs \ {j} : agent'[t] = agent[t]
          /\ Store!GoesOn(j) \/ Store!Stops(j)
      BY <1>0, <1>3, StoreAssumption, Store!AgentEffect
      DEF Typed, Store!counters
    <2> QED  BY <1>0, <1>3, <2>1 DEF Store!GoesOn, Store!Stops
  <1>4. CASE Spawns(j)
    BY <1>0, <1>4, SpawnEffect DEF Typed
  <1>5. CASE MissesFile(j)
    BY <1>0, <1>5 DEF MissesFile, Store!Ends, Store!Goes, Store!Off
  <1> QED  BY <1>1, <1>2, <1>3, <1>4, <1>5, JobStepIndex

\* Which rows a step of a job writes, and why.
LEMMA RegistryEffect ==
    ASSUME RowTypes, HeldShape, NEW j \in Jobs, JobStep(j)
    PROVE  /\ UNCHANGED <<up, del>>
           /\ \A k \in Jobs \ {j} : job'[k] = job[k]
           /\ \A d \in Docs \ {DocOf(j)} : row'[d] = row[d]
           /\ row'[DocOf(j)].deleted = row[DocOf(j)].deleted
           /\ \/ job'[j].status = job[j].status
              \/ can[j] = "markJob" /\ job'[j].status = "cancelled"
              \/ \E w \in ({pc[j]} \cup orphan[j]) \cap JobWrites :
                    job'[j].status = JobStatusOf(w)
           /\ \/ row'[DocOf(j)] = row[DocOf(j)]
              \/ can[j] = "writeDoc" /\ row'[DocOf(j)].status = "cancelled"
              \/ \E w \in ({pc[j]} \cup orphan[j]) \cap DocWrites :
                    row'[DocOf(j)].status = RowStatusOf(w)
           /\ \/ file' = file
              \/ pc[j] = "unlink" /\ file' = file \ {DocOf(j)}
  <1>0. DocOf(j) \in Docs
    BY JobsOf
  <1>1. CASE UNCHANGED <<registry, job, up, del>>
    BY <1>1 DEF registry
  <1>2. CASE ArqStep(j) \/ InterruptTask(j) \/ WorkerFault(j)
             \/ Subprocess(j) \/ SubprocessFails(j) \/ CancelRead(j)
    <2>1. UNCHANGED <<registry, job, up, del>>
      BY <1>2 DEF ArqStep, Deliver, EndUnrun, AbortTask, Cut, InterruptTask,
            WorkerFault, Subprocess, SubprocessRuns, SubprocessMissesFile,
            SubprocessFails, CancelRead, registry, handlers
    <2> QED  BY <1>1, <2>1
  <1>3. CASE ReadJob(j) \/ LookAtRow(j) \/ Spawn(j) \/ PollExit(j)
             \/ PollCancel(j) \/ Finish(j) \/ Reraise(j)
    <2>1. UNCHANGED <<registry, job, up, del>>
      BY <1>3 DEF ReadJob, LookAtRow, Spawn, PollExit, PollCancel, Finish,
                  Reraise, registry, handlers
    <2> QED  BY <1>1, <2>1
  <1>4. CASE WriteJob(j) \/ WriteRow(j) \/ OrphanCommits(j)
    <2>1. /\ UNCHANGED <<up, del, file>>
          /\ \E w \in ({pc[j]} \cup orphan[j]) \cap (JobWrites \cup DocWrites) :
                Commit(j, w)
      BY <1>4 DEF WriteJob, WriteRow, OrphanCommits, handlers, RowTypes
    <2>2. PICK w \in ({pc[j]} \cup orphan[j]) \cap (JobWrites \cup DocWrites) :
               Commit(j, w)
      BY <2>1
    <2>3. \/ /\ w \in JobWrites /\ row' = row
             /\ job'[j].status = JobStatusOf(w)
             /\ \A k \in Jobs \ {j} : job'[k] = job[k]
          \/ /\ w \in DocWrites /\ job' = job
             /\ row'[DocOf(j)].status = RowStatusOf(w)
             /\ row'[DocOf(j)].deleted = row[DocOf(j)].deleted
             /\ \A e \in Docs \ {DocOf(j)} : row'[e] = row[e]
      BY <2>2, CommitEffect
    <2> QED  BY <2>1, <2>2, <2>3
  <1>5. CASE UnlinkFile(j)
    BY <1>5 DEF UnlinkFile, handlers
  <1>6. CASE CancelFlag(j)
    BY <1>6, FlagEffect DEF CancelFlag, CancelGoes
  <1>7. CASE CancelAbort(j) \/ AbortReturns(j) \/ AbortRaises(j)
    BY <1>7 DEF CancelAbort, AbortReturns, AbortRaises, CancelGoes
  <1>8. CASE CancelMarkJob(j)
    BY <1>8, SetJobEffect DEF CancelMarkJob, CancelGoes, Terminal
  <1>9. CASE CancelMarkDocument(j)
    BY <1>0, <1>9, SetRowEffect DEF CancelMarkDocument, CancelGoes
  <1> QED  BY <1>2, <1>3, <1>4, <1>5, <1>6, <1>7, <1>8, <1>9
           DEF JobStep, WorkerStep, CancelStep

\* A step of a job leaves the positions of the others alone.
LEMMA PositionFrame ==
    ASSUME RowTypes, NEW j \in Jobs, JobStep(j), NEW k \in Jobs \ {j}
    PROVE  /\ arq'[k] = arq[k] /\ pc'[k] = pc[k] /\ orphan'[k] = orphan[k]
           /\ can'[k] = can[k] /\ held'[k] = held[k]
  <1> USE DEF RowTypes, Goes
  <1>1. CASE ArqStep(j) \/ InterruptTask(j) \/ WorkerFault(j)
    BY <1>1 DEF ArqStep, Deliver, EndUnrun, AbortTask, Cut, InterruptTask,
                WorkerFault, delivery, worker, handlers
  <1>2. CASE ReadJob(j) \/ WriteJob(j) \/ LookAtRow(j) \/ WriteRow(j)
             \/ Spawn(j) \/ PollExit(j) \/ PollCancel(j) \/ UnlinkFile(j)
    BY <1>2 DEF ReadJob, WriteJob, LookAtRow, WriteRow, Spawn, PollExit,
                PollCancel, UnlinkFile, delivery, handlers
  <1>3. CASE Finish(j) \/ Reraise(j) \/ OrphanCommits(j)
    BY <1>3 DEF Finish, Reraise, OrphanCommits, delivery, handlers
  <1>4. CASE Subprocess(j) \/ SubprocessFails(j)
    BY <1>4 DEF Subprocess, SubprocessRuns, SubprocessMissesFile,
                SubprocessFails, delivery, worker, handlers
  <1>5. CASE CancelRead(j) \/ CancelStep(j)
    BY <1>5 DEF CancelRead, CancelStep, CancelFlag, CancelAbort, AbortReturns,
                AbortRaises, CancelMarkJob, CancelMarkDocument, CancelGoes,
                worker
  <1> QED  BY <1>1, <1>2, <1>3, <1>4, <1>5 DEF JobStep, WorkerStep

\* Where a step leaves its own job: on the queue while it runs, at a write
\* its kind of job makes, and with a subprocess only where it looks after one.
Placed(j) ==
    /\ pc[j] # "idle" => arq[j] = "running"
    /\ can[j] \in {"markJob", "markDoc", "writeDoc", "closed"} =>
          arq[j] = "done"
    /\ pc[j] \in DocWrites \/ orphan[j] \cap DocWrites # {} =>
          Kind(j) = "ingest"
    /\ pc[j] = "unlink" => Kind(j) = "erase"

Tended(j) ==
    /\ agent[j].stage # "off" =>
          /\ agent[j].op = Kind(j) /\ agent[j].doc = DocOf(j)
          /\ pc[j] \in {"poll", "failJob", "failDoc", "finish"}
    /\ pc[j] = "poll" /\ Kind(j) = "ingest" => runs[DocOf(j)] >= 1

\* What holds of a position is known by its row.
Known(j) ==
    arq[j] # "none" \/ orphan[j] # {} \/ can[j] # "idle" =>
        job[j].status # "absent"

LEMMA JobInvParts ==
    ASSUME NEW j
    PROVE  JobInv(j) <=> /\ Placed(j) /\ Tended(j) /\ Known(j)
                         /\ job[j].status # "absent" =>
                               row[DocOf(j)].status # "absent"
    BY DEF JobInv, Placed, Tended, Known

LEMMA PlacedStep ==
    ASSUME RowTypes, HeldShape, NEW j \in Jobs, Placed(j), JobStep(j)
    PROVE  Placed(j)'
  <1> USE DEF RowTypes, Goes, DocWrites, JobWrites
  <1>1. CASE Deliver(j) \/ EndUnrun(j)
    BY <1>1 DEF Deliver, EndUnrun, Placed, worker, handlers
  <1>2. CASE \E why \in {"abort", "timeout", "shutdown"} : Cut(j, why)
    <2>1. /\ pc[j] \in Active /\ pc'[j] \in {"cancelJob", "reraise"}
          /\ UNCHANGED <<arq, can>>
          /\ \/ orphan'[j] = orphan[j]
             \/ orphan'[j] = orphan[j] \cup {pc[j]}
      BY <1>2 DEF Cut, handlers
    <2> QED  BY <2>1 DEF Placed, Active
  <1>3. CASE ReadJob(j) \/ WriteJob(j) \/ LookAtRow(j) \/ WriteRow(j)
    BY <1>3, JobsOf DEF ReadJob, WriteJob, LookAtRow, WriteRow, After, Placed,
                delivery, handlers
  <1>4. CASE Spawn(j) \/ PollExit(j) \/ PollCancel(j) \/ UnlinkFile(j)
    BY <1>4, JobsOf DEF Spawn, PollExit, PollCancel, UnlinkFile, Placed,
                delivery, handlers
  <1>5. CASE Finish(j) \/ Reraise(j)
    BY <1>5 DEF Finish, Reraise, Placed, handlers
  <1>6. CASE OrphanCommits(j)
    BY <1>6 DEF OrphanCommits, Placed, delivery, handlers
  <1>7. CASE Subprocess(j) \/ SubprocessFails(j)
    BY <1>7 DEF Subprocess, SubprocessRuns, SubprocessMissesFile,
                SubprocessFails, Placed, delivery, worker, handlers
  <1>8. CASE CancelRead(j) \/ CancelStep(j)
    BY <1>8 DEF CancelRead, CancelStep, CancelFlag, CancelAbort, AbortReturns,
                AbortRaises, CancelMarkJob, CancelMarkDocument, CancelGoes,
                Placed, worker
  <1>9. CASE WorkerFault(j)
    BY <1>9 DEF WorkerFault, Placed, delivery, handlers
  <1> QED  BY <1>1, <1>2, <1>3, <1>4, <1>5, <1>6, <1>7, <1>8, <1>9
           DEF JobStep, ArqStep, AbortTask, InterruptTask, WorkerStep

LEMMA SubprocessOn ==
    ASSUME Typed, NEW j \in Jobs, Subprocess(j) \/ SubprocessFails(j)
    PROVE  agent[j].stage # "off"
  <1>1. Store!AgentStep(j) \/ MissesFile(j)
    BY SameRun, SameEnds
    DEF Subprocess, SubprocessRuns, SubprocessFails, SubprocessMissesFile,
        MissesFile, Store!AgentStep
  <1> QED  BY <1>1, StoreAssumption, Store!AgentEffect DEF MissesFile, Typed

LEMMA TendedStep ==
    ASSUME Typed, Typed', NEW j \in Jobs, JobInv(j), JobStep(j)
    PROVE  Tended(j)'
  <1>0. /\ RowTypes /\ Store!Typed /\ DocOf(j) \in Docs /\ Tended(j)
        /\ runs[DocOf(j)] \in Nat /\ runs'[DocOf(j)] \in Nat
        /\ runs'[DocOf(j)] >= runs[DocOf(j)]
    BY JobsOf, SlotEffect, DocumentsAssumption, JobInvParts
    DEF Typed, Store!Typed, Store!TypeOK
  <1>1. CASE Spawns(j) /\ pc'[j] = "poll"
    BY <1>0, <1>1, SpawnEffect DEF Tended
  <1>2. ASSUME agent'[j].stage = "off", pc'[j] = "poll" => pc[j] = "poll"
        PROVE  Tended(j)'
    BY <1>0, <1>2 DEF Tended
  <1>3. ASSUME agent'[j].stage = agent[j].stage, agent'[j].op = agent[j].op,
               agent'[j].doc = agent[j].doc,
               pc'[j] = "poll" => pc[j] = "poll",
               agent[j].stage # "off" =>
                  pc'[j] \in {"poll", "failJob", "failDoc", "finish"}
        PROVE  Tended(j)'
    BY <1>0, <1>3 DEF Tended
  <1>4. ASSUME Store!Terminate({j})
        PROVE  agent'[j].stage = "off"
    BY <1>4 DEF Store!Terminate, Store!Off, Store!Agents
  <1>5. ASSUME UNCHANGED index
        PROVE  agent'[j] = agent[j]
    BY <1>5 DEF index
  <1> USE SameEnds DEF RowTypes, Goes
  <1>6. CASE Deliver(j) \/ EndUnrun(j)
    <2>1. UNCHANGED index /\ (pc'[j] = "poll" => pc[j] = "poll")
          /\ (pc'[j] # pc[j] => arq[j] # "running")
      BY <1>0, <1>6 DEF Deliver, EndUnrun, worker
    <2> QED  BY <1>0, <1>3, <1>5, <2>1 DEF JobInv
  <1>7. CASE AbortTask(j) \/ InterruptTask(j)
    <2>1. Store!Terminate({j}) /\ (pc'[j] = "poll" => pc[j] = "poll")
      BY <1>0, <1>7 DEF AbortTask, InterruptTask, Cut
    <2> QED  BY <1>2, <1>4, <2>1
  <1>8. CASE ReadJob(j) \/ WriteJob(j) \/ LookAtRow(j) \/ WriteRow(j)
             \/ UnlinkFile(j) \/ Reraise(j) \/ WorkerFault(j)
    <2>1. UNCHANGED index \/ UNCHANGED <<vectors, disk, agent, exit, runs, last>>
      BY <1>8 DEF ReadJob, WriteJob, LookAtRow, WriteRow, UnlinkFile, Reraise,
                  WorkerFault, index
    <2>2. pc'[j] # "poll" \/ pc'[j] = pc[j]
      BY <1>0, <1>8
      DEF ReadJob, WriteJob, LookAtRow, WriteRow, UnlinkFile, Reraise,
          WorkerFault, After
    <2>3. pc[j] \in {"poll", "failJob", "failDoc", "finish"} =>
            pc'[j] \in {"poll", "failJob", "failDoc", "finish"}
      BY <1>0, <1>8
      DEF ReadJob, WriteJob, LookAtRow, WriteRow, UnlinkFile, Reraise,
          WorkerFault, After, DocWrites, JobWrites, Guarded
    <2> QED  BY <1>0, <1>3, <1>5, <2>1, <2>2, <2>3 DEF Tended
  <1>9. CASE PollExit(j) \/ PollCancel(j)
    <2>1. agent'[j].stage = "off" /\ pc'[j] # "poll"
      BY <1>0, <1>4, <1>5, <1>9 DEF PollExit, PollCancel, Exited
    <2> QED  BY <1>2, <2>1
  <1>10. CASE Finish(j)
    BY <1>0, <1>2, <1>4, <1>10 DEF Finish
  <1>11. CASE Spawn(j)
    BY <1>0, <1>1, <1>11 DEF Spawn, Spawns
  <1>12. CASE Subprocess(j) \/ SubprocessFails(j)
    <2>1. UNCHANGED pc
      BY <1>12 DEF Subprocess, SubprocessRuns, SubprocessMissesFile,
                   SubprocessFails, worker
    <2>2. \/ agent'[j].stage = "off"
          \/ agent'[j] = agent[j]
          \/ agent[j].stage # "off" /\ Store!GoesOn(j)
          \/ Spawns(j)
      BY SlotEffect
    <2>3. agent[j].stage # "off"
      BY <1>12, SubprocessOn
    <2>4. CASE agent[j].stage # "off" /\ Store!GoesOn(j)
      BY <1>0, <2>1, <2>4 DEF Store!GoesOn, Tended
    <2>5. ~Spawns(j)
      BY <1>0, <2>3 DEF Spawns, Tended
    <2> QED  BY <1>0, <1>2, <1>3, <2>1, <2>2, <2>4, <2>5 DEF Tended
  <1>13. CASE OrphanCommits(j) \/ CancelRead(j) \/ CancelStep(j)
    <2>1. UNCHANGED <<pc, index>>
      BY <1>13 DEF OrphanCommits, CancelRead, CancelStep, CancelFlag,
                   CancelAbort, AbortReturns, AbortRaises, CancelMarkJob,
                   CancelMarkDocument, CancelGoes, worker
    <2> QED  BY <1>0, <1>3, <1>5, <2>1 DEF Tended
  <1> QED  BY <1>6, <1>7, <1>8, <1>9, <1>10, <1>11, <1>12, <1>13
           DEF JobStep, ArqStep, WorkerStep

\* A job that was never submitted does nothing.
LEMMA Unsubmitted ==
    ASSUME Typed, NEW j \in Jobs, JobInv(j), JobStep(j)
    PROVE  job[j].status # "absent"
  <1> SUFFICES ASSUME job[j].status = "absent"
               PROVE  FALSE
    OBVIOUS
  <1>1. /\ arq[j] = "none" /\ orphan[j] = {} /\ can[j] = "idle"
        /\ pc[j] = "idle" /\ agent[j].stage = "off"
    BY DEF JobInv
  <1>2. ~CancelRead(j) /\ ~CancelStep(j)
    BY <1>1 DEF CancelRead, CancelStep, CancelFlag, CancelAbort, AbortReturns,
          AbortRaises, CancelMarkJob, CancelMarkDocument
  <1>3. ~ArqStep(j) /\ ~WorkerStep(j) /\ ~InterruptTask(j) /\ ~WorkerFault(j)
        /\ ~OrphanCommits(j)
    BY <1>1 DEF ArqStep, Deliver, EndUnrun, AbortTask, Cut, InterruptTask,
          WorkerFault, WorkerStep, ReadJob, WriteJob, LookAtRow, WriteRow,
          Spawn, PollExit, PollCancel, UnlinkFile, Finish, Reraise,
          OrphanCommits, Active, DocWrites, JobWrites
  <1>4. ~Subprocess(j) /\ ~SubprocessFails(j)
    BY <1>1, SubprocessOn DEF Subprocess
  <1> QED  BY <1>2, <1>3, <1>4 DEF JobStep

\* Whether a job is on the queue at all is not for its own steps to say.
LEMMA QueueStep ==
    ASSUME RowTypes, NEW j \in Jobs, Placed(j), JobStep(j), arq[j] = "none"
    PROVE  arq'[j] = "none"
  <1>1. pc[j] = "idle"
    BY DEF Placed
  <1>2. ~Deliver(j) /\ ~EndUnrun(j) /\ ~Finish(j) /\ ~Reraise(j)
    BY <1>1 DEF Deliver, EndUnrun, Finish, Reraise
  <1>3. UNCHANGED arq
    BY <1>2
    DEF JobStep, ArqStep, AbortTask, Cut, InterruptTask, WorkerFault,
        WorkerStep, ReadJob, WriteJob, LookAtRow, WriteRow, Spawn, PollExit,
        PollCancel, UnlinkFile, OrphanCommits, CancelRead, CancelStep,
        CancelFlag, CancelAbort, AbortReturns, AbortRaises, CancelMarkJob,
        CancelMarkDocument, CancelGoes, Subprocess, SubprocessRuns,
        SubprocessMissesFile, SubprocessFails, delivery
  <1> QED  BY <1>3

\* A step of a job keeps what the rows say of each other.
LEMMA JobStepRows ==
    ASSUME Typed, Typed', RowsInv, NEW j \in Jobs, JobStep(j)
    PROVE  RowsInv'
  <1>0. /\ RowTypes /\ HeldShape /\ JobInv(j) /\ DocOf(j) \in Docs
        /\ RowTypes' /\ Placed(j) /\ job[j].status # "absent"
        /\ row[DocOf(j)].status # "absent"
    BY JobsOf, JobInvParts, Unsubmitted DEF Typed, RowsInv, JobInv
  <1>1. \A d \in Docs : /\ row'[d].deleted = row[d].deleted
                        /\ row[d].status # "absent" => row'[d].status # "absent"
    BY <1>0, RegistryEffect DEF RowStatusOf
  <1>2. job'[j].status # "absent"
    BY <1>0, RegistryEffect DEF JobStatusOf
  <1>3. ASSUME NEW k \in Jobs
        PROVE  JobInv(k)'
    <2>1. CASE k = j
      <3>1. Placed(j)' /\ Tended(j)'
        BY <1>0, PlacedStep, TendedStep
      <3>2. row'[DocOf(j)].status # "absent"
        BY <1>0, <1>1
      <3> QED  BY <1>2, <2>1, <3>1, <3>2 DEF JobInv, Placed, Tended
    <2>2. CASE k # j
      <3>1. /\ job'[k] = job[k] /\ arq'[k] = arq[k] /\ pc'[k] = pc[k]
            /\ orphan'[k] = orphan[k] /\ can'[k] = can[k]
            /\ agent'[k] = agent[k] /\ DocOf(k) \in Docs
            /\ runs'[DocOf(k)] >= runs[DocOf(k)]
            /\ runs[DocOf(k)] \in Nat /\ runs'[DocOf(k)] \in Nat
        BY <1>0, <2>2, RegistryEffect, PositionFrame, SlotEffect, JobsOf,
           DocumentsAssumption
        DEF Typed, Store!Typed, Store!TypeOK
      <3>2. JobInv(k)
        BY DEF RowsInv
      <3> QED  BY <1>1, <3>1, <3>2 DEF JobInv
    <2> QED  BY <2>1, <2>2
  <1>4. \A k \in Jobs : /\ arq[k] = "none" => arq'[k] = "none"
                        /\ job'[k].status # "absent" <=>
                              job[k].status # "absent"
    BY <1>0, <1>2, RegistryEffect, PositionFrame, QueueStep
  <1>5. ASSUME NEW d \in Docs
        PROVE  UploadInv(d)' /\ DeleteInv(d)'
    <2>1. UploadInv(d) /\ DeleteInv(d) /\ Ingestion(d) \in Jobs
          /\ Deletion(d) \in Jobs /\ up'[d] = up[d] /\ del'[d] = del[d]
      BY <1>0, RegistryEffect, JobsOf DEF RowsInv
    <2>2. row[d].status = "absent" => row'[d].status = "absent"
      BY <1>0, RegistryEffect
    <2>3. up[d] = "written" => d \in file'
      BY <1>0, <2>1, RegistryEffect, JobsOf
      DEF UploadInv, DeleteInv, JobInv, Placed
    <2> QED  BY <1>1, <1>4, <2>1, <2>2, <2>3 DEF UploadInv, DeleteInv
  <1> QED  BY <1>3, <1>5 DEF RowsInv

\* A step of a request is about its own document.
LEMMA DocFrame ==
    ASSUME RowTypes, NEW d \in Docs, DocStep(d)
    PROVE  /\ \A x \in Docs \ {d} :
                  /\ row'[x] = row[x] /\ up'[x] = up[x] /\ del'[x] = del[x]
                  /\ x \in file' <=> x \in file
           /\ \A k \in Jobs \ {Ingestion(d), Deletion(d)} :
                  job'[k] = job[k] /\ arq'[k] = arq[k]
           /\ UNCHANGED <<can, pc, orphan, agent, runs>>
  <1>0. UNCHANGED <<pc, orphan, agent, runs>>
    BY DocStepIndex DEF worker, index
  <1> USE DEF RowTypes, registry, delivery
  <1>1. CASE WriteFile(d) \/ FindDocument(d) \/ UploadReturns(d)
             \/ UploadAborts(d) \/ UploadDbFault(d) \/ DeleteDbFault(d)
    BY <1>0, <1>1
    DEF WriteFile, FindDocument, UploadReturns, UploadAborts, UploadDbFault,
        DeleteDbFault, UploadGoes, DeleteGoes
  <1>2. CASE CreateDocument(d) \/ UploadFails(d) \/ TombstoneDocument(d)
    BY <1>0, <1>2
    DEF CreateDocument, UploadFails, TombstoneDocument, UploadGoes,
        DeleteGoes, SetRow
  <1>3. CASE SubmitIngestion(d) \/ IngestionUndelivered(d)
             \/ SubmitDeletion(d) \/ DeletionUndelivered(d)
    BY <1>0, <1>3
    DEF SubmitIngestion, IngestionUndelivered, SubmitDeletion,
        DeletionUndelivered, UploadGoes, DeleteGoes, SetJob
  <1>4. CASE DeliverIngestion(d) \/ DeliverDeletion(d)
             \/ DeliverIngestionRaises(d) \/ DeliverDeletionRaises(d)
    BY <1>0, <1>4
    DEF DeliverIngestion, DeliverDeletion, DeliverIngestionRaises,
        DeliverDeletionRaises, Enqueue
  <1> QED  BY <1>1, <1>2, <1>3, <1>4 DEF DocStep, HandlerStep, HandlerFault

\* And keeps what its rows say of each other.
LEMMA DocStepRows ==
    ASSUME Typed, RowsInv, NEW d \in Docs, DocStep(d)
    PROVE  RowsInv'
  <1> DEFINE i == Ingestion(d)
             e == Deletion(d)
             Own == UploadInv(d) /\ DeleteInv(d) /\ JobInv(i) /\ JobInv(e)
  <1>0. /\ i \in Jobs /\ e \in Jobs /\ i # e /\ DocOf(i) = d /\ DocOf(e) = d
        /\ Kind(i) = "ingest" /\ Kind(e) = "erase"
        /\ RowTypes /\ Own /\ UNCHANGED <<can, pc, orphan, agent, runs>>
    BY JobsOf, DocFrame DEF Typed, RowsInv
  <1>1. UploadInv(d)' /\ DeleteInv(d)' /\ JobInv(i)' /\ JobInv(e)'
    <2> USE DEF UploadInv, DeleteInv, JobInv, registry, delivery
    <2>1. CASE WriteFile(d) \/ FindDocument(d) \/ UploadReturns(d)
      BY <1>0, <2>1
      DEF WriteFile, FindDocument, UploadReturns, UploadGoes, DeleteGoes,
          RowTypes, Live
    <2>2. CASE UploadAborts(d) \/ UploadDbFault(d) \/ DeleteDbFault(d)
      BY <1>0, <2>2
      DEF UploadAborts, UploadDbFault, DeleteDbFault, UploadGoes, DeleteGoes,
          RowTypes
    <2>3. CASE CreateDocument(d) \/ UploadFails(d)
      <3>1. /\ UNCHANGED <<job, arq, del>>
            /\ up' = [up EXCEPT ![d] = up'[d]] /\ up'[d] # "written"
            /\ up'[d] # "idle"
            /\ row'[d].deleted = row[d].deleted
            /\ row'[d] = row[d] \/ row'[d].status # "absent"
            /\ \/ /\ up[d] = "written" /\ up'[d] = "registered"
                  /\ row'[d].status # "absent"
               \/ /\ up[d] \in {"failing", "failWrite"}
                  /\ up'[d] \in {"failWrite", "refused"}
                  /\ up'[d] = "failWrite" => row'[d].status # "absent"
        BY <1>0, <2>3, SetRowEffect
        DEF CreateDocument, UploadFails, UploadGoes, RowTypes, Live
      <3> QED  BY <1>0, <3>1
    <2>4. CASE SubmitIngestion(d) \/ IngestionUndelivered(d)
      <3>1. /\ UNCHANGED <<row, file, arq, del>>
            /\ \/ up[d] = "registered" /\ up'[d] = "stored"
               \/ up[d] = "undelivered" /\ up'[d] = "failing"
            /\ job'[i].status # "absent" /\ job'[e] = job[e]
        BY <1>0, <2>4, SetJobEffect
        DEF SubmitIngestion, IngestionUndelivered, UploadGoes, RowTypes,
            Terminal
      <3> QED  BY <1>0, <3>1
    <2>5. CASE SubmitDeletion(d) \/ DeletionUndelivered(d)
      <3>1. /\ UNCHANGED <<row, file, arq, up>>
            /\ \/ del[d] = "hidden" /\ del'[d] = "stored"
               \/ del[d] = "undelivered" /\ del'[d] = "done"
            /\ job'[e].status # "absent" /\ job'[i] = job[i]
        BY <1>0, <2>5, SetJobEffect
        DEF SubmitDeletion, DeletionUndelivered, DeleteGoes, RowTypes,
            Terminal
      <3> QED  BY <1>0, <3>1
    <2>6. CASE DeliverIngestion(d) \/ DeliverIngestionRaises(d)
      BY <1>0, <2>6
      DEF DeliverIngestion, DeliverIngestionRaises, Enqueue, RowTypes
    <2>7. CASE DeliverDeletion(d) \/ DeliverDeletionRaises(d)
      BY <1>0, <2>7
      DEF DeliverDeletion, DeliverDeletionRaises, Enqueue, RowTypes
    <2>8. CASE TombstoneDocument(d)
      BY <1>0, <2>8 DEF TombstoneDocument, DeleteGoes, RowTypes
    <2> QED
      BY <2>1, <2>2, <2>3, <2>4, <2>5, <2>6, <2>7, <2>8
      DEF DocStep, HandlerStep, HandlerFault
  <1>2. ASSUME NEW x \in Docs \ {d}
        PROVE  UploadInv(x)' /\ DeleteInv(x)'
    <2>1. /\ Ingestion(x) \in Jobs \ {i, e} /\ Deletion(x) \in Jobs \ {i, e}
          /\ UploadInv(x) /\ DeleteInv(x)
      BY <1>0, <1>2, JobsOf DEF RowsInv
    <2>2. /\ row'[x] = row[x] /\ up'[x] = up[x] /\ del'[x] = del[x]
          /\ x \in file' <=> x \in file
      <3>1. RowTypes
        BY <1>0
      <3> QED  BY <3>1, <1>2, DocFrame
    <2>3. /\ job'[Ingestion(x)] = job[Ingestion(x)]
          /\ arq'[Ingestion(x)] = arq[Ingestion(x)]
          /\ job'[Deletion(x)] = job[Deletion(x)]
          /\ arq'[Deletion(x)] = arq[Deletion(x)]
      BY <1>0, <2>1, DocFrame
    <2> QED  BY <2>1, <2>2, <2>3 DEF UploadInv, DeleteInv
  <1>3. ASSUME NEW k \in Jobs \ {i, e}
        PROVE  JobInv(k)'
    <2>1. DocOf(k) \in Docs \ {d} /\ JobInv(k)
      BY <1>0, <1>3, JobsOf DEF RowsInv
    <2>2. job'[k] = job[k] /\ arq'[k] = arq[k]
          /\ row'[DocOf(k)] = row[DocOf(k)]
      <3>1. RowTypes
        BY <1>0
      <3> QED  BY <3>1, <1>3, <2>1, DocFrame
    <2> QED  BY <1>0, <2>1, <2>2 DEF JobInv
  <1> QED  BY <1>1, <1>2, <1>3 DEF RowsInv

LEMMA CrashRows ==
    ASSUME Typed, RowsInv, WorkerCrash \/ ApiCrash
    PROVE  RowsInv'
  <1>0. RowTypes
    BY DEF Typed
  <1>1. CASE WorkerCrash
    <2>1. /\ UNCHANGED <<row, file, job, up, del, can, runs>>
          /\ \A j \in Jobs : /\ pc'[j] = "idle" /\ orphan'[j] = {}
                            /\ agent'[j].stage = "off"
                            /\ arq'[j] = IF arq[j] = "running" THEN "queued"
                                         ELSE arq[j]
      BY <1>1, SameEnds
      DEF WorkerCrash, registry, handlers, Store!Terminate, Store!Off,
          Store!Agents, Store!counters
    <2>2. \A d \in Docs : UploadInv(d)' /\ DeleteInv(d)'
      BY <2>1, JobsOf DEF RowsInv, UploadInv, DeleteInv
    <2>3. \A j \in Jobs : JobInv(j)'
      BY <2>1 DEF RowsInv, JobInv, DocWrites
    <2> QED  BY <2>2, <2>3 DEF RowsInv
  <1>2. CASE ApiCrash
    <2>1. /\ UNCHANGED <<row, file, job, arq, pc, orphan, agent, runs>>
          /\ \A d \in Docs : /\ up'[d] \in {up[d], "dead"}
                            /\ del'[d] \in {del[d], "dead"}
          /\ \A j \in Jobs : can'[j] \in {can[j], "idle"}
      BY <1>2 DEF ApiCrash, registry, delivery, worker, index
    <2>2. \A d \in Docs : UploadInv(d)' /\ DeleteInv(d)'
      BY <2>1 DEF RowsInv, UploadInv, DeleteInv
    <2>3. \A j \in Jobs : JobInv(j)'
      BY <2>1 DEF RowsInv, JobInv
    <2> QED  BY <2>2, <2>3 DEF RowsInv
  <1> QED  BY <1>1, <1>2

LEMMA RowsStep ==
    ASSUME Typed, RowsInv, [Next]_vars
    PROVE  RowsInv'
  <1>1. CASE UNCHANGED vars
    BY <1>1
    DEF vars, registry, delivery, worker, handlers, index, RowsInv, UploadInv,
        DeleteInv, JobInv
  <1> QED  BY <1>1, NextCases, TypedStep, JobStepRows, DocStepRows, CrashRows

LEMMA InitRows == Init => RowsInv
    BY JobsOf, StoreAssumption
    DEF Init, RowsInv, UploadInv, DeleteInv, JobInv, DocWrites, Index!Init,
        Index!Agents, Index!Off

\* Rows, files, queue entries, positions and stores stay in their types.
THEOREM DocumentsTypeCorrect == Spec => []TypeOK
  <1>1. Typed => TypeOK
    BY SameSets DEF Typed, RowTypes, TypeOK, Store!Typed
  <1> QED  BY <1>1, InitTyped, InitRows, TypedStep, RowsStep, PTL DEF Spec

-----------------------------------------------------------------------------
(***************************************************************************)
(* The contents, when the worker runs one job at a time.                   *)
(***************************************************************************)

\* How a job comes to the positions ContentInv speaks of.
Passed(j) ==
    /\ pc[j] = "poll" /\ agent[j].stage = "off" /\ exit[j] = "ok"
    /\ UNCHANGED <<registry, job, orphan, index>>

LEMMA Entry ==
    ASSUME RowTypes, HeldShape, NEW j \in Jobs, JobStep(j)
    PROVE  /\ pc'[j] # "idle" => pc[j] # "idle" \/ Deliver(j)
           /\ pc'[j] = "poll" => pc[j] = "poll" \/ Spawns(j)
           /\ pc'[j] = "unlink" =>
                 pc[j] = "unlink" \/ (Passed(j) /\ Kind(j) = "erase")
           /\ pc'[j] = "complete" =>
                 \/ pc[j] = "complete"
                 \/ Passed(j) /\ Kind(j) = "ingest"
                 \/ UnlinkFile(j)
           /\ pc'[j] = "ready" => pc[j] \in {"ready", "complete"}
           /\ orphan'[j] \subseteq orphan[j] \cup {pc[j]}
  <1> USE DEF RowTypes, Goes
  <1>0. CASE pc'[j] = pc[j] /\ orphan'[j] \subseteq orphan[j]
    BY <1>0
  <1>1. CASE Deliver(j) \/ EndUnrun(j)
    <2>1. orphan' = orphan /\ (pc' = pc \/ pc'[j] = "read")
      BY <1>1 DEF Deliver, EndUnrun, worker
    <2> QED  BY <1>0, <1>1, <2>1 DEF EndUnrun, worker
  <1>2. CASE AbortTask(j) \/ InterruptTask(j)
    BY <1>2 DEF AbortTask, InterruptTask, Cut, Active, JobWrites, DocWrites
  <1>3. CASE ReadJob(j) \/ WriteJob(j) \/ LookAtRow(j) \/ WriteRow(j)
    BY <1>3 DEF ReadJob, WriteJob, LookAtRow, WriteRow, After, JobWrites,
                DocWrites
  <1>4. CASE Spawn(j)
    BY <1>4, SameEnds DEF Spawn, Spawns
  <1>5. CASE PollExit(j)
    BY <1>5, JobsOf DEF PollExit, Passed, Exited
  <1>6. CASE PollCancel(j) \/ UnlinkFile(j) \/ Finish(j) \/ Reraise(j)
             \/ WorkerFault(j)
    <2>1. /\ pc'[j] \notin {"poll", "unlink", "ready"}
          /\ pc'[j] = "complete" => UnlinkFile(j)
          /\ pc'[j] # "idle" => pc[j] # "idle"
          /\ orphan' = orphan
      BY <1>6 DEF PollCancel, UnlinkFile, Finish, Reraise, WorkerFault,
                  JobWrites, DocWrites
    <2> QED  BY <2>1
  <1>7. CASE OrphanCommits(j)
    <2>1. pc' = pc /\ orphan'[j] \subseteq orphan[j]
      BY <1>7 DEF OrphanCommits
    <2> QED  BY <1>0, <2>1
  <1>8. CASE Subprocess(j) \/ SubprocessFails(j)
    <2>1. UNCHANGED <<pc, orphan>>
      BY <1>8 DEF Subprocess, SubprocessRuns, SubprocessMissesFile,
                  SubprocessFails, worker
    <2> QED  BY <1>0, <2>1
  <1>9. CASE CancelRead(j) \/ CancelStep(j)
    <2>1. UNCHANGED <<pc, orphan>>
      BY <1>9 DEF CancelRead, CancelStep, CancelFlag, CancelAbort,
                  AbortReturns, AbortRaises, CancelMarkJob,
                  CancelMarkDocument, CancelGoes, worker
    <2> QED  BY <1>0, <2>1
  <1> QED  BY <1>1, <1>2, <1>3, <1>4, <1>5, <1>6, <1>7, <1>8, <1>9
           DEF JobStep, ArqStep, WorkerStep

\* The worker takes the next job when the last one has ended.
LEMMA OneJobStep ==
    ASSUME MaxRunning = 1, Typed, OneJob, [Next]_vars
    PROVE  OneJob'
  <1>0. RowTypes /\ HeldShape
    BY DEF Typed
  <1>1. ASSUME NEW j \in Jobs, Deliver(j), NEW m \in Jobs
        PROVE  pc[m] = "idle"
    <2> DEFINE Busy == {k \in Jobs : pc[k] # "idle"}
    <2> SUFFICES ASSUME pc[m] # "idle"
                 PROVE  FALSE
      OBVIOUS
    <2>1. Busy = {m}
      BY DEF OneJob
    <2>2. Cardinality(Busy) < 1
      BY <1>1 DEF Deliver
    <2> QED  BY <2>1, <2>2, FS_Singleton
  <1>2. ASSUME NEW j \in Jobs, JobStep(j)
        PROVE  OneJob'
    <2>1. \A k \in Jobs \ {j} : pc'[k] = pc[k]
      BY <1>0, <1>2, PositionFrame
    <2>2. pc'[j] # "idle" => pc[j] # "idle" \/ Deliver(j)
      BY <1>0, <1>2, Entry
    <2> QED  BY <1>1, <2>1, <2>2 DEF OneJob
  <1>3. CASE WorkerCrash
    BY <1>3 DEF WorkerCrash, OneJob
  <1>4. CASE ApiCrash \/ UNCHANGED vars \/ \E d \in Docs : DocStep(d)
    <2>1. UNCHANGED pc
      BY <1>4, DocStepIndex DEF ApiCrash, vars, worker
    <2> QED  BY <2>1 DEF OneJob
  <1> QED  BY <1>2, <1>3, <1>4, NextCases

\* A job touches the stores for its own document, while it is running.
LEMMA ContentFrame ==
    ASSUME Typed, Store!StoresInv, NEW j \in Jobs, JobInv(j), JobStep(j)
    PROVE  /\ Store!OthersKeep(DocOf(j))
           /\ \A x \in Docs \ {DocOf(j)} : last'[x] = last[x]
           /\ Kind(j) = "ingest" =>
                 vectors \subseteq vectors' /\ disk.nodes \subseteq disk'.nodes
           /\ Kind(j) = "erase" => disk'.nodes \subseteq disk.nodes
           /\ disk'.nodes # disk.nodes =>
                 agent[j].stage \in {"inserted", "unvectored"}
           /\ pc[j] = "idle" => UNCHANGED <<disk, last>>
  <1>0. /\ Store!Typed /\ Store!Writer(j) /\ DocOf(j) \in Docs /\ j \in Store!Agents
        /\ agent[j].stage # "off" =>
              /\ agent[j].op = Kind(j) /\ agent[j].doc = DocOf(j)
              /\ pc[j] # "idle"
        /\ last \in [Docs -> {"none", "ingest", "erase"}]
    BY JobsOf
    DEF Typed, Store!Typed, Store!TypeOK, Store!StoresInv, JobInv, Store!Agents
  <1>1. CASE UNCHANGED <<vectors, disk, last>>
    BY <1>1 DEF Store!OthersKeep
  <1>2. CASE Store!Terminate({j})
    <2>1. UNCHANGED <<disk, last>> /\ vectors \subseteq vectors'
      BY <1>2 DEF Store!Terminate
    <2>2. agent[j].stage = "chunked" =>
              agent[j].chunks \subseteq Store!NodesOf(DocOf(j))
      BY <1>0, StoreAssumption, Store!ChunksOfRun
    <2>3. vectors' \subseteq vectors \cup
              (IF agent[j].stage = "chunked" THEN agent[j].chunks ELSE {})
      BY <1>2 DEF Store!Terminate
    <2>4. \A x \in Docs \ {DocOf(j)} :
              Store!NodesOf(x) \cap Store!NodesOf(DocOf(j)) = {}
      BY DEF Store!NodesOf
    <2> QED  BY <2>1, <2>2, <2>3, <2>4 DEF Store!OthersKeep
  <1>3. CASE Store!AgentStep(j)
    <2>1. /\ Store!OthersKeep(DocOf(j)) /\ agent[j].stage # "off"
          /\ Kind(j) = "ingest" =>
                vectors \subseteq vectors' /\ disk.nodes \subseteq disk'.nodes
          /\ Kind(j) = "erase" => disk'.nodes \subseteq disk.nodes
          /\ disk'.nodes # disk.nodes =>
                agent[j].stage \in {"inserted", "unvectored"}
      BY <1>0, <1>3, StoreAssumption, Store!WriterEffect, Store!AgentEffect
    <2>2. UNCHANGED last \/ last' = [last EXCEPT ![DocOf(j)] = Kind(j)]
      BY <1>0, <1>3, <2>1, StoreAssumption, Store!AgentEffect
      DEF Store!GoesOn, Store!Stops
    <2> QED  BY <1>0, <2>1, <2>2
  <1>4. CASE Spawns(j)
    <2>1. /\ UNCHANGED <<vectors, disk>> /\ pc[j] # "idle"
          /\ last' = [last EXCEPT ![DocOf(j)] = "none"]
      BY <1>0, <1>4, SpawnEffect DEF Spawns
    <2> QED  BY <1>0, <2>1 DEF Store!OthersKeep
  <1>5. CASE MissesFile(j)
    BY <1>1, <1>5 DEF MissesFile
  <1> QED  BY <1>1, <1>2, <1>3, <1>4, <1>5, JobStepIndex DEF index

\* What is stored stays while the document's nodes do.
LEMMA StoredFrame ==
    ASSUME NEW d \in Docs, Stored(d),
           vectors \cap Store!NodesOf(d) \subseteq vectors',
           disk.nodes \cap Store!NodesOf(d) \subseteq disk'.nodes
    PROVE  Stored(d)'
  <1>1. \A r \in 1 .. MaxTries : Store!ChunksOf(d, r) \subseteq Store!NodesOf(d)
    BY StoreAssumption, Store!NodeOwner
  <1> QED  BY <1>1 DEF Stored, Store!ChunksOf

\* A step of a job changes nothing of what is known of another document.
LEMMA ContentOther ==
    ASSUME Typed, Store!StoresInv, RowsInv, NEW j \in Jobs, JobStep(j),
           NEW d \in Docs \ {DocOf(j)}, ContentInv(d)
    PROVE  ContentInv(d)'
  <1> DEFINE i == Ingestion(d)
             e == Deletion(d)
  <1>0. /\ RowTypes /\ HeldShape /\ JobInv(j)
        /\ i \in Jobs \ {j} /\ e \in Jobs \ {j}
        /\ DocOf(i) = d /\ DocOf(e) = d
    BY JobsOf DEF Typed, RowsInv
  <1>1. \A k \in {i, e} : /\ pc'[k] = pc[k] /\ orphan'[k] = orphan[k]
                          /\ job'[k] = job[k]
                          /\ agent'[k] = agent[k] /\ exit'[k] = exit[k]
    BY <1>0, PositionFrame, RegistryEffect, SlotEffect
  <1>2. row'[d] = row[d] /\ (d \in file' <=> d \in file) /\ last'[d] = last[d]
    BY <1>0, RegistryEffect, ContentFrame
  <1>3. /\ disk'.nodes \cap Store!NodesOf(d) = disk.nodes \cap Store!NodesOf(d)
        /\ vectors' \cap Store!NodesOf(d) = vectors \cap Store!NodesOf(d)
    BY <1>0, ContentFrame DEF Store!OthersKeep
  <1>4. Stored(d) => Stored(d)'
    BY <1>3, StoredFrame
  <1>5. Succeeded(i)' /\ Succeeded(e)'
    BY <1>0, <1>1, <1>2 DEF ContentInv, Succeeded
  <1>6. Offering(d)' => Stored(d)' \/ row'[d].deleted
    BY <1>1, <1>2, <1>4 DEF ContentInv, Offering
  <1>7. pc'[e] = "unlink" => disk'.nodes \cap Store!NodesOf(d) = {}
    BY <1>1, <1>3 DEF ContentInv
  <1>8. Reporting(d)' => Purged(d)'
    BY <1>1, <1>2, <1>3 DEF ContentInv, Reporting, Purged, Store!NodesOf
  <1>9. row'[d].status = "absent" => disk'.nodes \cap Store!NodesOf(d) = {}
    BY <1>2, <1>3 DEF ContentInv
  <1> QED  BY <1>5, <1>6, <1>7, <1>8, <1>9 DEF ContentInv, Store!NodesOf

\* Nor does it of the other job of its document, which is not running.
LEMMA SucceededStep ==
    ASSUME Typed, Store!StoresInv, RowsInv, OneJob, NEW j \in Jobs, JobStep(j),
           NEW k \in Jobs, Succeeded(k), DocOf(k) = DocOf(j)
    PROVE  Succeeded(k)'
  <1>0. /\ RowTypes /\ HeldShape /\ JobInv(j) /\ Store!Typed
        /\ last \in [Docs -> {"none", "ingest", "erase"}] /\ DocOf(j) \in Docs
        /\ j \in Store!Agents /\ agent \in [Jobs -> Store!Agent]
        /\ exit \in [Jobs -> {"none", "ok", "error", "killed"}]
    BY JobsOf DEF Typed, RowsInv, Store!Typed, Store!TypeOK, Store!Agents
  <1>1. CASE k # j
    <2>1. pc'[k] = pc[k] /\ agent'[k] = agent[k] /\ exit'[k] = exit[k]
      BY <1>0, <1>1, PositionFrame, SlotEffect
    <2>2. pc[k] = "poll" => last' = last
      BY <1>0, <1>1, ContentFrame DEF OneJob
    <2> QED  BY <2>1, <2>2 DEF Succeeded
  <1>2. CASE k = j
    <2> SUFFICES ASSUME pc'[j] = "poll", agent'[j].stage = "off",
                        exit'[j] = "ok"
                 PROVE  last'[DocOf(j)] = Kind(j)
      BY <1>2 DEF Succeeded
    <2>1. pc[j] = "poll" \/ Spawns(j)
      BY <1>0, Entry
    <2>2. ~Spawns(j)
      BY <1>0, SpawnEffect
    <2>3. CASE UNCHANGED index
      BY <1>2, <2>1, <2>2, <2>3 DEF index, Succeeded
    <2>4. CASE Store!Terminate({j})
      <3>1. /\ exit'[j] = IF agent[j].stage # "off" THEN "killed" ELSE exit[j]
            /\ last' = last
        BY <2>4 DEF Store!Terminate
      <3> QED  BY <1>2, <2>1, <2>2, <3>1 DEF Succeeded
    <2>5. CASE Store!AgentStep(j)
      <3>1. Store!Stops(j) /\ agent[j].stage # "off"
        BY <1>0, <2>5, StoreAssumption, Store!AgentEffect DEF Store!GoesOn
      <3>2. agent[j].doc = DocOf(j) /\ agent[j].op = Kind(j)
        BY <1>0, <3>1 DEF JobInv
      <3> QED  BY <1>0, <3>1, <3>2 DEF Store!Stops
    <2>6. ~MissesFile(j)
      BY <1>0 DEF MissesFile, Store!Ends
    <2> QED  BY <2>2, <2>3, <2>4, <2>5, <2>6, JobStepIndex
  <1> QED  BY <1>1, <1>2

\* A subprocess makes chunks of a file that is there.
LEMMA ChunksNeedFile ==
    ASSUME Typed, NEW j \in Jobs, JobStep(j),
           agent[j].stage = "ready", agent'[j].stage = "chunked"
    PROVE  DocOf(j) \in file
  <1>0. Store!Agents = Jobs /\ agent \in [Jobs -> Store!Agent] /\ Store!Typed
    BY DEF Typed, Store!Typed, Store!TypeOK, Store!Agents
  <1>1. \A S \in SUBSET Jobs : Store!Terminate(S) => agent'[j].stage # "chunked"
    BY <1>0 DEF Store!Terminate, Store!Off
  <1>2. ~UNCHANGED index
    BY DEF index
  <1>3. \A code : ~Store!Ends(j, code)
    BY <1>0 DEF Store!Ends, Store!Goes, Store!Off
  <1>4. ~Spawns(j)
    BY <1>0, SpawnEffect
  <1>5. ~SubprocessFails(j)
    BY <1>3, SameRun
    DEF SubprocessFails, Store!Failure, Store!ReloadFails, Store!ChunkFails,
        Store!InsertFails, Store!PublishFails, Store!DeleteFails
  <1>6. ~SubprocessMissesFile(j)
    BY <1>3, SameEnds DEF SubprocessMissesFile
  <1>7. SubprocessRuns(j)
    <2>1. ~ArqStep(j) /\ ~InterruptTask(j) /\ ~WorkerFault(j) /\ ~OrphanCommits(j)
      BY <1>1, <1>2, SameEnds
      DEF ArqStep, Deliver, EndUnrun, AbortTask, Cut, InterruptTask,
          WorkerFault, OrphanCommits
    <2>2. ~WorkerStep(j)
      BY <1>1, <1>2, <1>4, SameEnds
      DEF WorkerStep, ReadJob, WriteJob, LookAtRow, WriteRow, Spawn, PollExit,
          PollCancel, UnlinkFile, Finish, Reraise, Spawns
    <2>3. ~CancelRead(j) /\ ~CancelStep(j)
      BY <1>2
      DEF CancelRead, CancelStep, CancelFlag, CancelAbort, AbortReturns,
          AbortRaises, CancelMarkJob, CancelMarkDocument, CancelGoes, index
    <2> QED  BY <1>5, <1>6, <2>1, <2>2, <2>3 DEF JobStep, Subprocess
  <1> QED  BY <1>7 DEF SubprocessRuns

\* A step of one of its two jobs keeps what is known of a document.
LEMMA ContentOwn ==
    ASSUME Typed, Typed', Store!StoresInv, RowsInv, OneJob,
           NEW j \in Jobs, JobStep(j), ContentInv(DocOf(j))
    PROVE  ContentInv(DocOf(j))'
  <1> DEFINE d == DocOf(j)
             i == Ingestion(d)
             e == Deletion(d)
  <1>0. /\ RowTypes /\ HeldShape /\ d \in Docs /\ i \in Jobs /\ e \in Jobs
        /\ i # e /\ DocOf(i) = d /\ DocOf(e) = d
        /\ Kind(i) = "ingest" /\ Kind(e) = "erase" /\ j \in {i, e}
        /\ JobInv(i) /\ JobInv(e) /\ DeleteInv(d) /\ Store!Typed
    BY JobsOf DEF Typed, RowsInv
  <1>1. \A k \in {i, e} \ {j} :
            /\ pc'[k] = pc[k] /\ orphan'[k] = orphan[k] /\ job'[k] = job[k]
            /\ agent'[k] = agent[k]
            /\ pc[k] # "idle" => UNCHANGED <<disk, last>>
    BY <1>0, PositionFrame, RegistryEffect, SlotEffect, ContentFrame DEF OneJob
  <1>2. Succeeded(i)' /\ Succeeded(e)'
    BY <1>0, SucceededStep DEF ContentInv
  <1>3. (pc[e] = "unlink" => disk.nodes \cap Store!NodesOf(d) = {})'
    <2> SUFFICES ASSUME pc'[e] = "unlink"
                 PROVE  disk'.nodes \cap Store!NodesOf(d) = {}
      BY DEF Store!NodesOf
    <2>1. CASE pc[e] = "unlink"
      <3>1. disk'.nodes = disk.nodes
        BY <1>0, <1>1, <2>1, ContentFrame DEF JobInv
      <3> QED  BY <2>1, <3>1 DEF ContentInv
    <2>2. CASE pc[e] # "unlink"
      <3>1. j = e /\ Passed(e)
        BY <1>0, <1>1, <2>2, Entry
      <3>2. last[d] = "erase" /\ disk' = disk
        BY <1>0, <3>1 DEF Passed, ContentInv, Succeeded, index
      <3> QED  BY <1>0, <3>2
               DEF Store!StoresInv, Store!FinishedRunHolds, Store!ErasedIsGone
    <2> QED  BY <2>1, <2>2
  <1>4. (Offering(d) => Stored(d) \/ row[d].deleted)'
    <2> SUFFICES ASSUME Offering(d)', ~row'[d].deleted
                 PROVE  Stored(d)'
      OBVIOUS
    <2>1. ~row[d].deleted
      BY <1>0, RegistryEffect
    <2>2. j = i
      BY <1>0, <2>1, Unsubmitted DEF DeleteInv
    <2>3. Offering(d) \/ Passed(i)
      BY <1>0, <2>2, Entry, RegistryEffect
      DEF Offering, RowStatusOf, JobInv, UnlinkFile
    <2>4. Stored(d)
      <3>1. CASE Passed(i)
        <4>1. last[d] = "ingest" /\ runs[d] \in 1 .. MaxTries
          BY <1>0, <3>1, DocumentsAssumption
          DEF Passed, ContentInv, Succeeded, JobInv, Store!Typed, Store!TypeOK
        <4> QED  BY <1>0, <4>1
                 DEF Store!StoresInv, Store!FinishedRunHolds,
                     Store!IndexedIsSearchable, Stored
      <3> QED  BY <2>1, <2>3, <3>1 DEF ContentInv
    <2> QED  BY <1>0, <2>2, <2>4, ContentFrame, StoredFrame
  <1>5. (Reporting(d) => Purged(d))'
    <2> SUFFICES ASSUME Reporting(d)'
                 PROVE  Purged(d)'
      OBVIOUS
    <2>1. Reporting(d) \/ (j = e /\ UnlinkFile(e))
      BY <1>0, <1>1, Entry, RegistryEffect DEF Reporting, JobStatusOf
    <2>2. CASE j = e /\ UnlinkFile(e)
      <3>1. /\ d \notin file' /\ pc[e] = "unlink" /\ UNCHANGED index
            /\ agent[i].stage = "off"
        BY <1>0, <2>2 DEF UnlinkFile, OneJob, JobInv
      <3> QED  BY <3>1 DEF ContentInv, Purged, index, Store!NodesOf
    <2>3. CASE Reporting(d)
      <3>0. Purged(d) /\ d \notin file'
        BY <1>0, <2>3, RegistryEffect DEF ContentInv, Purged
      <3>1. disk'.nodes \subseteq disk.nodes
        <4>1. CASE j = i
          <5>1. agent[i].stage \notin {"inserted", "unvectored"}
            BY <1>0, <3>0 DEF Purged, JobInv, Store!Typed, Store!Shape,
                              Store!Agents
          <5> QED  BY <1>0, <4>1, <5>1, ContentFrame
        <4>2. CASE j = e
          BY <1>0, <4>2, ContentFrame
        <4> QED  BY <1>0, <4>1, <4>2
      <3>2. agent'[i].stage \notin {"chunked", "inserted"}
        <4>1. CASE j = i
          <5>1. agent'[i].stage \in {"chunked", "inserted"} =>
                    \/ agent'[i] = agent[i]
                    \/ Store!GoesOn(i)
            BY <1>0, <4>1, SlotEffect
          <5>2. agent'[i].stage # "inserted"
            BY <3>0, <5>1 DEF Store!GoesOn, Purged
          <5>3. agent'[i].stage = "chunked" => agent[i].stage = "ready"
            BY <3>0, <5>1 DEF Store!GoesOn, Purged
          <5> QED  BY <1>0, <3>0, <4>1, <5>2, <5>3, ChunksNeedFile DEF Purged
        <4> QED  BY <1>0, <1>1, <3>0, <4>1 DEF Purged
      <3> QED  BY <3>0, <3>1, <3>2 DEF Purged, Store!NodesOf
    <2> QED  BY <2>1, <2>2, <2>3
  <1>6. row'[d].status # "absent"
    <2>1. row[d].status # "absent"
      BY <1>0, Unsubmitted DEF JobInv
    <2> QED  BY <1>0, <2>1, RegistryEffect DEF RowStatusOf
  <1> QED  BY <1>2, <1>3, <1>4, <1>5, <1>6 DEF ContentInv

\* A step of a request writes no row that offers or reports.
LEMMA RequestRows ==
    ASSUME RowTypes, NEW d \in Docs, DocStep(d)
    PROVE  /\ row'[d].status = "ready" => row[d].status = "ready"
           /\ row'[d].status = "absent" => row[d].status = "absent"
           /\ row[d].deleted => row'[d].deleted
           /\ job'[Deletion(d)].status = "completed" =>
                 job[Deletion(d)].status = "completed"
           /\ d \in file' => d \in file \/ up[d] = "idle"
  <1>0. Ingestion(d) \in Jobs /\ Deletion(d) \in Jobs
    BY JobsOf
  <1>1. CASE CreateDocument(d) \/ UploadFails(d)
    <2>1. /\ UNCHANGED <<file, job>>
          /\ \/ UNCHANGED row
             \/ /\ row'[d].status \in {"queued", "failed"}
                /\ row'[d].deleted = row[d].deleted
      BY <1>1, SetRowEffect DEF CreateDocument, UploadFails, registry
    <2> QED  BY <2>1
  <1>2. CASE SubmitIngestion(d) \/ IngestionUndelivered(d)
             \/ SubmitDeletion(d) \/ DeletionUndelivered(d)
    BY <1>0, <1>2, SetJobEffect
    DEF SubmitIngestion, IngestionUndelivered, SubmitDeletion,
        DeletionUndelivered, DeleteGoes, Terminal, registry
  <1>3. CASE TombstoneDocument(d)
    BY <1>3 DEF TombstoneDocument, DeleteGoes, RowTypes
  <1>4. CASE WriteFile(d) \/ FindDocument(d) \/ UploadReturns(d)
             \/ UploadAborts(d) \/ UploadDbFault(d) \/ DeleteDbFault(d)
    BY <1>4 DEF WriteFile, FindDocument, UploadReturns, UploadAborts,
                UploadDbFault, DeleteDbFault, DeleteGoes, registry
  <1>5. CASE DeliverIngestion(d) \/ DeliverDeletion(d)
             \/ DeliverIngestionRaises(d) \/ DeliverDeletionRaises(d)
    BY <1>5 DEF DeliverIngestion, DeliverDeletion, DeliverIngestionRaises,
                DeliverDeletionRaises, registry
  <1> QED  BY <1>1, <1>2, <1>3, <1>4, <1>5 DEF DocStep, HandlerStep, HandlerFault

LEMMA ContentRequest ==
    ASSUME Typed, RowsInv, NEW d \in Docs, DocStep(d), NEW x \in Docs,
           ContentInv(x)
    PROVE  ContentInv(x)'
  <1>0. /\ RowTypes /\ UploadInv(x) /\ DeleteInv(x) /\ JobInv(Deletion(x))
        /\ Ingestion(x) \in Jobs /\ Deletion(x) \in Jobs
        /\ UNCHANGED <<index, worker>>
    BY JobsOf, DocStepIndex DEF Typed, RowsInv
  <1>1. /\ row'[x].status = "ready" => row[x].status = "ready"
        /\ row'[x].status = "absent" => row[x].status = "absent"
        /\ row[x].deleted => row'[x].deleted
        /\ job'[Deletion(x)].status = "completed" =>
              job[Deletion(x)].status = "completed"
        /\ x \in file' => x \in file \/ up[x] = "idle"
    <2>1. CASE x = d
      BY <1>0, <2>1, RequestRows
    <2>2. CASE x # d
      <3>1. Deletion(x) \in Jobs \ {Ingestion(d), Deletion(d)}
        BY <1>0, <2>2, JobsOf
      <3> QED  BY <1>0, <2>2, <3>1, DocFrame
    <2> QED  BY <2>1, <2>2
  <1>2. Offering(x)' => Stored(x)' \/ row'[x].deleted
    BY <1>0, <1>1 DEF ContentInv, Offering, Stored, index, worker, Store!ChunksOf
  <1>3. Reporting(x)' => Purged(x)'
    <2> SUFFICES ASSUME Reporting(x)'
                 PROVE  Purged(x)'
      OBVIOUS
    <2>1. Reporting(x)
      BY <1>0, <1>1 DEF Reporting, worker
    <2>2. row[x].status # "absent"
      BY <1>0, <2>1 DEF Reporting, JobInv, DeleteInv
    <2> QED  BY <1>0, <1>1, <2>1, <2>2
             DEF ContentInv, Purged, UploadInv, index, Store!NodesOf
  <1> QED  BY <1>0, <1>1, <1>2, <1>3
           DEF ContentInv, Succeeded, index, worker, Store!NodesOf

LEMMA ContentCrash ==
    ASSUME Typed, NEW d \in Docs, ContentInv(d), WorkerCrash \/ ApiCrash
    PROVE  ContentInv(d)'
  <1>0. Ingestion(d) \in Jobs /\ Deletion(d) \in Jobs
    BY JobsOf
  <1>1. CASE WorkerCrash
    <2>1. /\ UNCHANGED <<row, file, job, disk>> /\ vectors \subseteq vectors'
          /\ \A k \in Jobs : /\ pc'[k] = "idle" /\ orphan'[k] = {}
                            /\ agent'[k].stage = "off"
      BY <1>1, SameEnds
      DEF WorkerCrash, registry, Store!Terminate, Store!Off, Store!Agents
    <2>2. Offering(d)' => Stored(d)' \/ row'[d].deleted
      BY <1>0, <2>1, StoredFrame DEF ContentInv, Offering
    <2> QED  BY <1>0, <2>1, <2>2
             DEF ContentInv, Succeeded, Reporting, Purged, Store!NodesOf
  <1>2. CASE ApiCrash
    <2>1. UNCHANGED <<registry, job, worker, index>>
      BY <1>2 DEF ApiCrash
    <2> QED  BY <2>1
             DEF registry, worker, index, ContentInv, Succeeded, Offering,
                 Stored, Reporting, Purged, Store!NodesOf, Store!ChunksOf
  <1> QED  BY <1>1, <1>2

\* The invariant holds throughout.
LEMMA DInvStep ==
    ASSUME MaxRunning = 1, Typed, DInv, [Next]_vars
    PROVE  Typed' /\ DInv'
  <1>1. Typed' /\ RowsInv' /\ OneJob' /\ Store!StoresInv'
    <2>1. Store!Typed /\ Store!StoresInv /\ RowsInv /\ OneJob
      BY DEF DInv, Typed
    <2> QED  BY <2>1, TypedStep, RowsStep, OneJobStep, StoreStep
  <1>2. ASSUME NEW d \in Docs
        PROVE  ContentInv(d)'
    <2>1. ContentInv(d)
      BY DEF DInv
    <2>2. ASSUME NEW j \in Jobs, JobStep(j)
          PROVE  ContentInv(d)'
      <3>1. CASE DocOf(j) = d
        BY <1>1, <2>1, <2>2, <3>1, ContentOwn DEF DInv
      <3>2. CASE DocOf(j) # d
        BY <2>1, <2>2, <3>2, ContentOther DEF DInv
      <3> QED  BY <3>1, <3>2
    <2>3. CASE UNCHANGED vars
      BY <2>1, <2>3
      DEF vars, registry, worker, index, ContentInv, Succeeded, Offering,
          Stored, Reporting, Purged, Store!NodesOf, Store!ChunksOf
    <2> QED  BY <2>1, <2>2, <2>3, ContentRequest, ContentCrash, NextCases
             DEF DInv
  <1> QED  BY <1>1, <1>2 DEF DInv, Typed

LEMMA InitDInv == Init => Typed /\ DInv
  <1>1. Init => Typed /\ RowsInv
    BY InitTyped, InitRows
  <1>2. Init => OneJob
    BY DEF Init, OneJob
  <1>3. Init => Store!StoresInv
    BY SameSets, StoreAssumption
    DEF Init, Store!Init, Store!Off, Store!StoresInv, Store!Writer,
        Store!Explained, Store!FinishedRunHolds, Store!IndexedIsSearchable,
        Store!ErasedIsGone, Store!Agents
  <1>4. ASSUME Init, NEW d \in Docs
        PROVE  ContentInv(d)
    <2>1. /\ \A j \in {Ingestion(d), Deletion(d)} :
                pc[j] = "idle" /\ orphan[j] = {} /\ job[j].status = "absent"
          /\ row[d].status = "absent" /\ disk.nodes = {}
      BY <1>4, JobsOf DEF Init, Index!Init
    <2> QED  BY <2>1 DEF ContentInv, Succeeded, Offering, Reporting
  <1> QED  BY <1>1, <1>2, <1>3, <1>4 DEF DInv, Typed

\* With one job at a time, what the registry offers for retrieval has all
\* chunks of one ingestion in both stores.
THEOREM ReadyDocumentsAreIndexed ==
    ASSUME MaxRunning = 1
    PROVE  Spec => []ReadyIsIndexed
  <1>1. Typed /\ DInv /\ [Next]_vars => (Typed /\ DInv)'
    BY DInvStep
  <1>2. DInv => ReadyIsIndexed
    BY SameSets
    DEF DInv, ContentInv, Offering, Stored, ReadyIsIndexed, Searchable
  <1> QED  BY <1>1, <1>2, InitDInv, PTL DEF Spec

\* A document becomes searchable by a write of its ingestion alone.
LEMMA BecomesSearchable ==
    ASSUME Typed, RowsInv, [Next]_vars, NEW d \in Docs,
           ~Searchable(d), Searchable(d)'
    PROVE  /\ ~row[d].deleted
           /\ \/ pc[Ingestion(d)] = "ready"
              \/ "ready" \in orphan[Ingestion(d)]
  <1>0. RowTypes /\ HeldShape
    BY DEF Typed
  <1>1. ~UNCHANGED vars /\ ~WorkerCrash /\ ~ApiCrash
    BY DEF vars, registry, WorkerCrash, ApiCrash, Searchable
  <1>2. ASSUME NEW x \in Docs, DocStep(x)
        PROVE  FALSE
    BY <1>0, <1>2, RequestRows, DocFrame DEF Searchable
  <1>3. PICK j \in Jobs : JobStep(j)
    BY <1>1, <1>2, NextCases
  <1>4. /\ DocOf(j) = d /\ row'[d].deleted = row[d].deleted
        /\ \E w \in ({pc[j]} \cup orphan[j]) \cap DocWrites :
              RowStatusOf(w) = "ready"
    BY <1>0, <1>3, RegistryEffect DEF Searchable
  <1>5. Kind(j) = "ingest" /\ "ready" \in {pc[j]} \cup orphan[j]
    BY <1>0, <1>3, <1>4 DEF RowStatusOf, RowsInv, JobInv
  <1> QED  BY <1>3, <1>4, <1>5, JobsOf DEF Searchable

\* A cancellation that closed its document keeps it closed, whatever number
\* of jobs runs at a time: its own job has ended for good, and the other job
\* of the document never offers it.
THEOREM ClosedStaysClosed == Spec => CancelHolds
  <1>1. Typed /\ RowsInv /\ [Next]_vars =>
            [\A j \in Jobs :
                can[j] = "closed" /\ orphan[j] = {} /\ ~Searchable(DocOf(j)) =>
                    ~Searchable(DocOf(j))']_vars
    <2> SUFFICES ASSUME Typed, RowsInv, [Next]_vars, NEW j \in Jobs,
                        can[j] = "closed", orphan[j] = {},
                        ~Searchable(DocOf(j)), Searchable(DocOf(j))'
                 PROVE  FALSE
      OBVIOUS
    <2>1. /\ DocOf(j) \in Docs /\ JobInv(j) /\ DeleteInv(DocOf(j))
          /\ ~row[DocOf(j)].deleted
          /\ \/ pc[Ingestion(DocOf(j))] = "ready"
             \/ "ready" \in orphan[Ingestion(DocOf(j))]
      BY JobsOf, BecomesSearchable DEF RowsInv
    <2>2. j = Ingestion(DocOf(j))
      BY <2>1, JobsOf DEF DeleteInv, JobInv
    <2>3. pc[j] = "idle"
      BY <2>1 DEF JobInv
    <2> QED  BY <2>1, <2>2, <2>3
  <1> QED  BY <1>1, InitTyped, InitRows, TypedStep, RowsStep, PTL
           DEF Spec, CancelHolds

-----------------------------------------------------------------------------
(***************************************************************************)
(* Documents implements DocumentLife: each step is one of its steps, or    *)
(* none.                                                                   *)
(***************************************************************************)

\* What the life of a document is seen to be.
OfferOf(d) == CASE row[d].status = "absent" -> "none"
                [] row[d].deleted -> "hidden"
                [] OTHER -> "offered"

HeldOf(d) == (IF d \in file THEN {"file"} ELSE {})
             \cup (IF disk.nodes \cap Index!NodesOf(d) # {}
                   THEN {"nodes"} ELSE {})

Offers == [d \in Docs |-> OfferOf(d)]
Helds == [d \in Docs |-> HeldOf(d)]
Gones == {d \in Docs : job[Deletion(d)].status = "completed"}

\* Nothing is seen of the other documents.
SameLives(d) ==
    \A x \in Docs \ {d} :
        OfferOf(x)' = OfferOf(x) /\ HeldOf(x)' = HeldOf(x)
        /\ (x \in Gones' <=> x \in Gones)

\* The steps of DocumentLife, seen at the document that takes them.
LEMMA LifeSteps ==
    ASSUME NEW d \in Docs, SameLives(d)
    PROVE  LET offer == OfferOf(d)' = OfferOf(d)
               hold == HeldOf(d)' = HeldOf(d)
               gone == d \in Gones' <=> d \in Gones
           IN  /\ offer /\ hold /\ gone => UNCHANGED Life!vars
               /\ /\ d \notin Gones /\ offer /\ gone
                  /\ \/ OfferOf(d) = "none" /\ HeldOf(d)' = {"file"}
                     \/ /\ OfferOf(d) # "none"
                        /\ HeldOf(d)' = HeldOf(d) \cup {"nodes"}
                  => Life!Store(d)
               /\ /\ OfferOf(d) = "none" /\ "file" \in HeldOf(d)
                  /\ OfferOf(d)' = "offered" /\ hold /\ gone
                  => Life!Offer(d)
               /\ /\ OfferOf(d) = "offered" /\ OfferOf(d)' = "hidden"
                  /\ hold /\ gone
                  => Life!Hide(d)
               /\ /\ OfferOf(d) # "offered" /\ offer /\ gone
                  /\ \E part \in HeldOf(d) : HeldOf(d)' = HeldOf(d) \ {part}
                  => Life!Erase(d)
               /\ /\ OfferOf(d) = "hidden" /\ HeldOf(d) = {}
                  /\ d \in Gones' /\ offer /\ hold
                  => Life!ReportGone(d)
               /\ d \in Gones /\ d \notin Gones' /\ offer /\ hold
                  => Life!Retract(d)
  <1> DEFINE offer == OfferOf(d)' = OfferOf(d)
             hold == HeldOf(d)' = HeldOf(d)
             gone == d \in Gones' <=> d \in Gones
  <1>1. Offers' = [Offers EXCEPT ![d] = OfferOf(d)'] /\ (offer => Offers' = Offers)
    BY DEF Offers, SameLives
  <1>2. Helds' = [Helds EXCEPT ![d] = HeldOf(d)'] /\ (hold => Helds' = Helds)
    BY DEF Helds, SameLives
  <1>3. /\ gone => Gones' = Gones
        /\ d \in Gones' => Gones' = Gones \cup {d}
        /\ d \notin Gones' => Gones' = Gones \ {d}
    BY DEF Gones, SameLives
  <1>4. Offers[d] = OfferOf(d) /\ Helds[d] = HeldOf(d)
    BY DEF Offers, Helds
  <1>5. Offers' = Offers /\ Helds' = Helds /\ Gones' = Gones
        => UNCHANGED Life!vars
    BY DEF Life!vars, Offers, Helds, Gones, OfferOf, HeldOf
  <1>6. /\ d \notin Gones /\ Offers' = Offers /\ Gones' = Gones
        /\ \/ Offers[d] = "none" /\ Helds' = [Helds EXCEPT ![d] = {"file"}]
           \/ /\ Offers[d] # "none"
              /\ Helds' = [Helds EXCEPT ![d] = Helds[d] \cup {"nodes"}]
        => Life!Store(d)
    BY DEF Life!Store, Offers, Helds, Gones, OfferOf, HeldOf
  <1>7. /\ Offers[d] = "none" /\ "file" \in Helds[d]
        /\ Offers' = [Offers EXCEPT ![d] = "offered"]
        /\ Helds' = Helds /\ Gones' = Gones
        => Life!Offer(d)
    BY DEF Life!Offer, Offers, Helds, Gones, OfferOf, HeldOf
  <1>8. /\ Offers[d] = "offered" /\ Offers' = [Offers EXCEPT ![d] = "hidden"]
        /\ Helds' = Helds /\ Gones' = Gones
        => Life!Hide(d)
    BY DEF Life!Hide, Offers, Helds, Gones, OfferOf, HeldOf
  <1>9. /\ Offers[d] # "offered" /\ Offers' = Offers /\ Gones' = Gones
        /\ \E part \in Helds[d] :
              Helds' = [Helds EXCEPT ![d] = Helds[d] \ {part}]
        => Life!Erase(d)
    BY DEF Life!Erase, Offers, Helds, Gones, OfferOf, HeldOf
  <1>10. /\ Offers[d] = "hidden" /\ Helds[d] = {}
         /\ Gones' = Gones \cup {d} /\ Offers' = Offers /\ Helds' = Helds
         => Life!ReportGone(d)
    BY DEF Life!ReportGone, Offers, Helds, Gones, OfferOf, HeldOf
  <1>11. /\ d \in Gones /\ Gones' = Gones \ {d}
         /\ Offers' = Offers /\ Helds' = Helds
         => Life!Retract(d)
    BY DEF Life!Retract, Offers, Helds, Gones, OfferOf, HeldOf
  <1> HIDE DEF offer, hold, gone
  <1> QED  BY <1>1, <1>2, <1>3, <1>4, <1>5, <1>6, <1>7, <1>8, <1>9, <1>10,
              <1>11 DEF offer, hold, gone

\* A step of a job writes a row, the disk or the index, not two of them.
LEMMA OneThing ==
    ASSUME NEW j \in Jobs, JobStep(j)
    PROVE  \/ UNCHANGED <<job, file>>
           \/ UNCHANGED <<job, index>>
           \/ UNCHANGED <<file, index>>
  <1>1. CASE ArqStep(j) \/ InterruptTask(j) \/ WorkerFault(j)
             \/ Subprocess(j) \/ SubprocessFails(j) \/ CancelRead(j)
    BY <1>1 DEF ArqStep, Deliver, EndUnrun, AbortTask, Cut, InterruptTask,
          WorkerFault, Subprocess, SubprocessRuns, SubprocessMissesFile,
          SubprocessFails, CancelRead, registry
  <1>2. CASE ReadJob(j) \/ LookAtRow(j) \/ Spawn(j) \/ PollExit(j)
             \/ PollCancel(j) \/ Finish(j) \/ Reraise(j)
    BY <1>2 DEF ReadJob, LookAtRow, Spawn, PollExit, PollCancel, Finish,
          Reraise, registry
  <1>3. CASE WriteJob(j) \/ WriteRow(j) \/ OrphanCommits(j) \/ UnlinkFile(j)
    BY <1>3 DEF WriteJob, WriteRow, OrphanCommits, UnlinkFile
  <1>4. CASE CancelStep(j)
    BY <1>4 DEF CancelStep, CancelFlag, CancelAbort, AbortReturns,
          AbortRaises, CancelMarkJob, CancelMarkDocument, CancelGoes
  <1> QED  BY <1>1, <1>2, <1>3, <1>4 DEF JobStep, WorkerStep

\* A step of a job is a step of the life of its document.
LEMMA JobLife ==
    ASSUME Typed, DInv, Typed', DInv', NEW j \in Jobs, JobStep(j)
    PROVE  Life!Next \/ UNCHANGED Life!vars
  <1> DEFINE d == DocOf(j)
             i == Ingestion(d)
             e == Deletion(d)
             offer == OfferOf(d)' = OfferOf(d)
             hold == HeldOf(d)' = HeldOf(d)
             gone == d \in Gones' <=> d \in Gones
  <1>0. /\ RowTypes /\ HeldShape /\ d \in Docs /\ i \in Jobs /\ e \in Jobs
        /\ j \in {i, e} /\ i # e /\ Kind(i) = "ingest" /\ Kind(e) = "erase"
        /\ JobInv(j) /\ JobInv(e) /\ DeleteInv(d)
        /\ Store!Typed /\ Store!StoresInv
        /\ ContentInv(d) /\ ContentInv(d)'
    BY JobsOf DEF Typed, DInv, RowsInv
  <1>1. \A x : Index!NodesOf(x) = Store!NodesOf(x)
    BY SameSets
  <1>2. SameLives(d)
    <2> SUFFICES ASSUME NEW x \in Docs \ {d}
                 PROVE  /\ OfferOf(x)' = OfferOf(x) /\ HeldOf(x)' = HeldOf(x)
                        /\ x \in Gones' <=> x \in Gones
      BY DEF SameLives
    <2>1. row'[x] = row[x] /\ (x \in file' <=> x \in file)
      BY <1>0, RegistryEffect
    <2>2. disk'.nodes \cap Store!NodesOf(x) = disk.nodes \cap Store!NodesOf(x)
      BY <1>0, ContentFrame DEF Store!OthersKeep
    <2>3. job'[Deletion(x)] = job[Deletion(x)]
      BY <1>0, JobsOf, RegistryEffect
    <2> QED  BY <1>1, <2>1, <2>2, <2>3 DEF OfferOf, HeldOf, Gones, Index!NodesOf
  <1>3. /\ row[d].status # "absent" /\ row'[d].status # "absent"
        /\ row'[d].deleted = row[d].deleted
    BY <1>0, Unsubmitted, RegistryEffect DEF JobInv, RowStatusOf
  <1>4. offer /\ OfferOf(d) # "none" /\ (row[d].deleted => OfferOf(d) = "hidden")
    BY <1>3 DEF OfferOf
  <1>5. j = e => row[d].deleted
    BY <1>0, Unsubmitted DEF DeleteInv
  <1>6. d \in Gones => HeldOf(d) = {}
    BY <1>0, <1>1 DEF Gones, ContentInv, Reporting, Purged, HeldOf
  <1>7. d \in Gones' => HeldOf(d)' = {}
    BY <1>0, <1>1 DEF Gones, ContentInv, Reporting, Purged, HeldOf,
                      Index!NodesOf, Store!NodesOf
  <1>8. CASE UNCHANGED <<file, index>>
    <2>1. hold
      BY <1>8 DEF HeldOf, index, Index!NodesOf
    <2>2. ~gone => j = e
      BY <1>0, RegistryEffect DEF Gones
    <2>3. CASE gone
      BY <1>0, <1>2, <1>4, <2>1, <2>3, LifeSteps
    <2>4. CASE ~gone /\ d \in Gones'
      <3>1. Life!ReportGone(d)
        BY <1>0, <1>2, <1>4, <1>5, <1>7, <2>1, <2>2, <2>4, LifeSteps
      <3> QED  BY <1>0, <3>1 DEF Life!Next
    <2>5. CASE ~gone /\ d \notin Gones'
      <3>1. Life!Retract(d)
        BY <1>0, <1>2, <1>4, <2>1, <2>5, LifeSteps
      <3> QED  BY <1>0, <3>1 DEF Life!Next
    <2> QED  BY <2>3, <2>4, <2>5
  <1>9. CASE UNCHANGED <<job, index>>
    <2>1. gone
      BY <1>9 DEF Gones
    <2>2. CASE hold
      BY <1>0, <1>2, <1>4, <2>1, <2>2, LifeSteps
    <2>3. CASE ~hold
      <3>1. j = e /\ file' = file \ {d} /\ d \in file
        <4>1. file' # file
          BY <1>9, <2>3 DEF HeldOf, index, Index!NodesOf
        <4> QED  BY <1>0, <4>1, RegistryEffect DEF JobInv
      <3>2. "file" \in HeldOf(d) /\ HeldOf(d)' = HeldOf(d) \ {"file"}
        BY <1>9, <3>1 DEF HeldOf, index, Index!NodesOf
      <3>3. Life!Erase(d)
        BY <1>0, <1>2, <1>4, <1>5, <2>1, <3>1, <3>2, LifeSteps
      <3> QED  BY <1>0, <3>3 DEF Life!Next
    <2> QED  BY <2>2, <2>3
  <1>10. CASE UNCHANGED <<job, file>>
    <2>1. gone
      BY <1>10 DEF Gones
    <2>2. CASE hold
      BY <1>0, <1>2, <1>4, <2>1, <2>2, LifeSteps
    <2>3. CASE ~hold /\ j = i
      <3>1. disk.nodes \subseteq disk'.nodes
        BY <1>0, <2>3, ContentFrame
      <3>2. HeldOf(d)' = HeldOf(d) \cup {"nodes"}
        BY <1>10, <2>3, <3>1 DEF HeldOf, Index!NodesOf
      <3>3. d \notin Gones
        BY <1>7, <2>1, <3>2
      <3>4. Life!Store(d)
        BY <1>0, <1>2, <1>4, <2>1, <3>2, <3>3, LifeSteps
      <3> QED  BY <1>0, <3>4 DEF Life!Next
    <2>4. CASE ~hold /\ j = e
      <3>1. disk'.nodes \subseteq disk.nodes
        BY <1>0, <2>4, ContentFrame
      <3>2. "nodes" \in HeldOf(d) /\ HeldOf(d)' = HeldOf(d) \ {"nodes"}
        BY <1>10, <2>4, <3>1 DEF HeldOf, Index!NodesOf
      <3>3. Life!Erase(d)
        BY <1>0, <1>2, <1>4, <1>5, <2>1, <2>4, <3>2, LifeSteps
      <3> QED  BY <1>0, <3>3 DEF Life!Next
    <2> QED  BY <1>0, <2>2, <2>3, <2>4
  <1> QED  BY <1>8, <1>9, <1>10, OneThing

\* And so is a step of a request.
LEMMA RequestLife ==
    ASSUME Typed, DInv, NEW d \in Docs, DocStep(d)
    PROVE  Life!Next \/ UNCHANGED Life!vars
  <1> DEFINE e == Deletion(d)
             offer == OfferOf(d)' = OfferOf(d)
             hold == HeldOf(d)' = HeldOf(d)
             gone == d \in Gones' <=> d \in Gones
  <1>0. /\ RowTypes /\ Ingestion(d) \in Jobs /\ e \in Jobs
        /\ Ingestion(d) # e
        /\ UploadInv(d) /\ DeleteInv(d) /\ ContentInv(d)
        /\ UNCHANGED <<index, worker>>
    BY JobsOf, DocStepIndex DEF Typed, DInv, RowsInv
  <1>1. \A x : Index!NodesOf(x) = Store!NodesOf(x)
    BY SameSets
  <1>2. SameLives(d)
    <2> SUFFICES ASSUME NEW x \in Docs \ {d}
                 PROVE  /\ OfferOf(x)' = OfferOf(x) /\ HeldOf(x)' = HeldOf(x)
                        /\ x \in Gones' <=> x \in Gones
      BY DEF SameLives
    <2>1. row'[x] = row[x] /\ (x \in file' <=> x \in file)
      BY <1>0, DocFrame
    <2>2. Deletion(x) \in Jobs \ {Ingestion(d), Deletion(d)}
      BY <1>0, JobsOf
    <2>3. job'[Deletion(x)] = job[Deletion(x)]
      BY <1>0, <2>2, DocFrame
    <2> QED  BY <1>0, <2>1, <2>3
             DEF OfferOf, HeldOf, Gones, index, Index!NodesOf
  <1>3. disk' = disk
    BY <1>0 DEF index
  <1>4. row[d].status = "absent" => d \notin Gones
    BY <1>0 DEF Gones, DeleteInv
  <1>5. UNCHANGED file => hold
    BY <1>3 DEF HeldOf, Index!NodesOf
  <1>6. UNCHANGED row => offer
    BY DEF OfferOf
  <1>7. UNCHANGED job => gone
    BY DEF Gones
  <1>17. row[d].status = "absent" => OfferOf(d) = "none"
    BY <1>0 DEF OfferOf, DeleteInv
  <1>18. d \in file => "file" \in HeldOf(d)
    BY DEF HeldOf
  <1>8. offer /\ hold /\ gone => UNCHANGED Life!vars
    BY <1>2, LifeSteps
  <1>9. CASE WriteFile(d)
    <2>1. /\ file' = file \cup {d} /\ UNCHANGED <<row, job>>
          /\ row[d].status = "absent"
      BY <1>0, <1>9 DEF WriteFile, UploadInv
    <2>2. disk.nodes \cap Store!NodesOf(d) = {}
      BY <1>0, <2>1 DEF ContentInv
    <2>3. HeldOf(d)' = {"file"}
      BY <1>1, <1>3, <2>1, <2>2 DEF HeldOf, Index!NodesOf, Store!NodesOf
    <2>4. Life!Store(d)
      BY <1>2, <1>4, <1>6, <1>7, <1>17, <2>1, <2>3, LifeSteps
    <2> QED  BY <2>4 DEF Life!Next
  <1>10. CASE CreateDocument(d)
    <2>1. /\ UNCHANGED <<file, job>> /\ d \in file
          /\ row[d].status = "absent" /\ row'[d].status = "queued"
          /\ ~row'[d].deleted
      BY <1>0, <1>10, SetRowEffect DEF CreateDocument, UploadInv, DeleteInv
    <2>2. OfferOf(d)' = "offered"
      BY <2>1 DEF OfferOf
    <2>3. Life!Offer(d)
      BY <1>2, <1>5, <1>7, <1>17, <1>18, <2>1, <2>2, LifeSteps
    <2> QED  BY <2>3 DEF Life!Next
  <1>11. CASE UploadAborts(d)
    <2>1. /\ file' = file \ {d} /\ d \in file /\ UNCHANGED <<row, job>>
          /\ row[d].status = "absent"
      BY <1>0, <1>11 DEF UploadAborts, UploadInv
    <2>2. /\ OfferOf(d) # "offered" /\ "file" \in HeldOf(d)
          /\ HeldOf(d)' = HeldOf(d) \ {"file"}
      BY <1>3, <2>1 DEF OfferOf, HeldOf, Index!NodesOf
    <2>3. Life!Erase(d)
      BY <1>2, <1>6, <1>7, <2>1, <2>2, LifeSteps
    <2> QED  BY <2>3 DEF Life!Next
  <1>12. CASE TombstoneDocument(d)
    <2>1. /\ UNCHANGED <<file, job>> /\ ~row[d].deleted
          /\ row[d].status # "absent"
          /\ row'[d].status # "absent" /\ row'[d].deleted
      BY <1>0, <1>12
      DEF TombstoneDocument, DeleteGoes, DeleteInv, RowTypes
    <2>2. OfferOf(d) = "offered" /\ OfferOf(d)' = "hidden"
      BY <2>1 DEF OfferOf
    <2>3. Life!Hide(d)
      BY <1>2, <1>5, <1>7, <2>1, <2>2, LifeSteps
    <2> QED  BY <2>3 DEF Life!Next
  <1>13. CASE UploadFails(d)
    <2>1. /\ UNCHANGED <<file, job>>
          /\ \/ UNCHANGED row
             \/ /\ row[d].status # "absent" /\ row'[d].status = "failed"
                /\ row'[d].deleted = row[d].deleted
      BY <1>0, <1>13, SetRowEffect DEF UploadFails, UploadInv, registry
    <2>2. offer
      BY <2>1 DEF OfferOf
    <2> QED  BY <1>5, <1>7, <1>8, <2>1, <2>2
  <1>14. CASE SubmitIngestion(d) \/ IngestionUndelivered(d)
    <2>1. UNCHANGED registry /\ job'[e] = job[e]
      BY <1>0, <1>14, SetJobEffect DEF SubmitIngestion, IngestionUndelivered, Terminal
    <2>2. gone
      BY <2>1 DEF Gones
    <2> QED  BY <1>5, <1>6, <1>8, <2>1, <2>2 DEF registry
  <1>15. CASE SubmitDeletion(d) \/ DeletionUndelivered(d)
    <2>1. UNCHANGED <<row, file>> /\ job'[e].status \in {"queued", "failed"}
      BY <1>0, <1>15, SetJobEffect
      DEF SubmitDeletion, DeletionUndelivered, DeleteGoes, Terminal
    <2>2. d \notin Gones'
      BY <2>1 DEF Gones
    <2>3. d \in Gones => Life!Retract(d)
      BY <1>2, <1>5, <1>6, <2>1, <2>2, LifeSteps
    <2> QED  BY <1>5, <1>6, <1>8, <2>1, <2>2, <2>3 DEF Life!Next
  <1>16. CASE FindDocument(d) \/ UploadReturns(d) \/ UploadDbFault(d)
              \/ DeleteDbFault(d) \/ DeliverIngestion(d)
              \/ DeliverDeletion(d) \/ DeliverIngestionRaises(d)
              \/ DeliverDeletionRaises(d)
    <2>1. UNCHANGED <<row, file, job>>
      BY <1>16
      DEF FindDocument, UploadReturns, UploadDbFault, DeleteDbFault,
          DeliverIngestion, DeliverDeletion, DeliverIngestionRaises,
          DeliverDeletionRaises, DeleteGoes, registry
    <2> QED  BY <1>5, <1>6, <1>7, <1>8, <2>1
  <1> QED  BY <1>9, <1>10, <1>11, <1>12, <1>13, <1>14, <1>15, <1>16
           DEF DocStep, HandlerStep, HandlerFault

\* Every step of Documents is a step of the life, or none of it is seen.
LEMMA LifeNext ==
    ASSUME Typed, DInv, Typed', DInv', [Next]_vars
    PROVE  [Life!Next]_(Life!vars)
  <1>1. CASE WorkerCrash \/ ApiCrash \/ UNCHANGED vars
    <2>1. UNCHANGED <<row, file, job, disk>>
      BY <1>1, SameEnds
      DEF WorkerCrash, ApiCrash, vars, registry, index, Store!Terminate
    <2> QED  BY <2>1 DEF Life!vars, Index!NodesOf
  <1> QED  BY <1>1, NextCases, JobLife, RequestLife

\* With one job at a time: documents are offered, hidden, erased and reported
\* deleted in that order, through crashes, retries, late deliveries and
\* writes of threads left over.
THEOREM DocumentsImplementLife ==
    ASSUME MaxRunning = 1
    PROVE  Spec => DeletionIsOrderly
  <1>1. Init => Life!Init
    <2> SUFFICES ASSUME Init
                 PROVE  Life!Init
      OBVIOUS
    <2>1. /\ \A d \in Docs : /\ row[d].status = "absent" /\ ~row[d].deleted
                            /\ Deletion(d) \in Jobs
          /\ \A j \in Jobs : job[j].status = "absent"
          /\ file = {} /\ disk.nodes = {}
      BY JobsOf DEF Init, Index!Init
    <2>2. Offers = [d \in Docs |-> "none"]
      BY <2>1 DEF Offers, OfferOf
    <2>3. Helds = [d \in Docs |-> {}]
      BY <2>1 DEF Helds, HeldOf
    <2>4. Gones = {}
      BY <2>1 DEF Gones
    <2> QED  BY <2>2, <2>3, <2>4
             DEF Life!Init, Offers, Helds, Gones, OfferOf, HeldOf
  <1>2. Typed /\ DInv /\ [Next]_vars => (Typed /\ DInv)'
    BY DInvStep
  <1>3. Typed /\ DInv /\ Typed' /\ DInv' /\ [Next]_vars
        => [Life!Next]_(Life!vars)
    BY LifeNext
  <1> QED  BY <1>1, <1>2, <1>3, InitDInv, PTL
           DEF Spec, DeletionIsOrderly, Life!Spec

=============================================================================
