------------------------------ MODULE Documents ------------------------------
(***************************************************************************)
(* The life of an uploaded document: DocumentService.upload and delete,    *)
(* JobQueue.submit and cancel, the registry rows in PostgreSQL, the jobs   *)
(* on the ingestion queue, the worker that runs them, and the subprocesses *)
(* it starts, whose work on the index is module IndexStore.                *)
(*                                                                         *)
(* Every document has at most one ingestion and one deletion job: upload   *)
(* submits the first once, and only the request whose UPDATE sets          *)
(* deleted_at goes on to submit the second.  A job is also the slot of the *)
(* subprocess it runs.  As in Generation, a step commits at most one row   *)
(* and the actions of ARQ are external.                                    *)
(***************************************************************************)
EXTENDS Naturals, FiniteSets

CONSTANTS
    Docs,        \* uploads
    NoDoc,       \* no document
    MaxRunning,  \* WorkerSettings.max_jobs
    MaxTries,    \* ARQ max_tries
    MaxFaults,   \* bound of the model: faults and cancellations together
    Env          \* which events of the environment happen

EnvKinds == {"delete", "cancel ingest", "cancel erase", "crash",
             "shutdown", "timeout", "db", "redis", "api", "index", "disk"}

ASSUME DocumentsAssumption ==
    /\ NoDoc \notin Docs
    /\ MaxRunning \in Nat \ {0}
    /\ MaxTries \in Nat
    /\ MaxFaults \in Nat
    /\ Env \subseteq EnvKinds

Jobs == Docs \X {"ingest", "erase"}
DocOf(j) == j[1]
Kind(j) == j[2]
Ingestion(d) == <<d, "ingest">>
Deletion(d) == <<d, "erase">>

VARIABLES
    row,     \* documents row: status, and whether deleted_at is set
    file,    \* documents whose upload is on the disk
    job,     \* jobs rows
    arq,     \* the ARQ entries
    aborts,  \* jobs in ARQ's abort set
    tries,   \* ARQ's job_try counter
    pc,      \* where the worker's coroutine stands
    held,    \* its update_document has read a live row, and writes next
    cause,   \* why an attempt was cut short, "none" if none was
    orphan,  \* to_thread writes whose coroutine was cancelled
    up,      \* where the upload request stands
    del,     \* where the delete request stands
    can,     \* where JobQueue.cancel stands
    vectors, disk, agent, exit, runs, erases, faults, last, torn

Index == INSTANCE IndexStore
    WITH Slots <- Jobs, Readers <- {}, MaxRuns <- MaxTries,
         MaxErases <- MaxTries, Warm <- TRUE

registry == <<row, file>>
delivery == <<arq, aborts, tries>>
worker == <<pc, held, cause, orphan>>
handlers == <<up, del, can>>
index == <<vectors, disk, agent, exit, runs, erases, last, torn>>
vars == <<registry, job, delivery, worker, handlers, index, faults>>

Terminal == {"completed", "failed", "cancelled"}

JobRow == [status : {"absent", "queued", "running"} \cup Terminal,
           cancel : BOOLEAN]

Row == [status  : {"absent", "queued", "processing", "ready", "failed",
                   "cancelled", "deleting"},
        deleted : BOOLEAN]

\* The points of the worker's coroutines that write a jobs row, and those
\* that update a document.
JobWrites == {"drop", "markRunning", "complete", "cancelJob", "failJob"}
DocWrites == {"dropDoc", "processing", "ready", "cancelDoc", "failDoc"}

\* The try block: an exception or a cancellation is handled there.
Guarded == {"spawn", "poll", "unlink", "complete", "ready"}

Active == JobWrites \cup DocWrites \cup {"read", "spawn", "poll", "unlink"}

TypeOK ==
    /\ row \in [Docs -> Row]
    /\ file \subseteq Docs
    /\ job \in [Jobs -> JobRow]
    /\ arq \in [Jobs -> {"none", "queued", "running", "done"}]
    /\ aborts \subseteq Jobs
    /\ tries \in [Jobs -> Nat]
    /\ pc \in [Jobs -> Active \cup {"idle", "finish", "reraise"}]
    /\ held \in [Jobs -> BOOLEAN]
    /\ cause \in [Jobs -> {"none", "abort", "timeout", "shutdown", "db"}]
    /\ orphan \in [Jobs -> SUBSET (JobWrites \cup DocWrites)]
    /\ up \in [Docs -> {"idle", "written", "registered", "stored",
                        "undelivered", "delivered", "failing", "failWrite",
                        "done", "refused", "dead"}]
    /\ del \in [Docs -> {"idle", "read", "hidden", "stored", "undelivered",
                         "done", "dead"}]
    /\ can \in [Jobs -> {"idle", "flag", "abort", "await", "markJob",
                         "markDoc", "writeDoc", "closed"}]
    /\ Index!TypeOK

Init ==
    /\ row = [d \in Docs |-> [status |-> "absent", deleted |-> FALSE]]
    /\ file = {}
    /\ job = [j \in Jobs |-> [status |-> "absent", cancel |-> FALSE]]
    /\ arq = [j \in Jobs |-> "none"]
    /\ aborts = {}
    /\ tries = [j \in Jobs |-> 0]
    /\ pc = [j \in Jobs |-> "idle"]
    /\ held = [j \in Jobs |-> FALSE]
    /\ cause = [j \in Jobs |-> "none"]
    /\ orphan = [j \in Jobs |-> {}]
    /\ up = [d \in Docs |-> "idle"]
    /\ del = [d \in Docs |-> "idle"]
    /\ can = [j \in Jobs |-> "idle"]
    /\ Index!Init

Fault(kind) == kind \in Env /\ Index!Fault

\* get_document: a row that exists and is not a tombstone.
Live(d) == row[d].status # "absent" /\ ~row[d].deleted

SetJob(j, status) == job' = [job EXCEPT ![j].status = status]
SetRow(d, status) == row' = [row EXCEPT ![d].status = status]

(***************************************************************************)
(* DocumentService.upload, for one file.                                   *)
(***************************************************************************)

UploadGoes(d, next) ==
    /\ up' = [up EXCEPT ![d] = next]
    /\ UNCHANGED <<delivery, worker, del, can, index>>

WriteFile(d) ==
    /\ up[d] = "idle"
    /\ file' = file \cup {d}
    /\ UploadGoes(d, "written")
    /\ UNCHANGED <<row, job, faults>>

CreateDocument(d) ==
    /\ up[d] = "written"
    /\ SetRow(d, "queued")
    /\ UploadGoes(d, "registered")
    /\ UNCHANGED <<file, job, faults>>

\* The write of the file or of the row raises: no bytes are left behind.
UploadAborts(d) ==
    /\ up[d] = "written"
    /\ Fault("disk")
    /\ file' = file \ {d}
    /\ UploadGoes(d, "refused")
    /\ UNCHANGED <<row, job>>

SubmitIngestion(d) ==
    /\ up[d] = "registered"
    /\ SetJob(Ingestion(d), "queued")
    /\ UploadGoes(d, "stored")
    /\ UNCHANGED <<registry, faults>>

\* enqueue_job, with the identity only.
Enqueue(j) == arq' = [arq EXCEPT ![j] = "queued"]

DeliverIngestion(d) ==
    /\ up[d] = "stored"
    /\ up' = [up EXCEPT ![d] = "delivered"]
    /\ Enqueue(Ingestion(d))
    /\ UNCHANGED <<registry, job, aborts, tries, worker, del, can, index,
                   faults>>

\* enqueue_job raises; Redis may have taken the entry all the same.
DeliverIngestionRaises(d) ==
    /\ up[d] = "stored"
    /\ Fault("redis")
    /\ up' = [up EXCEPT ![d] = "undelivered"]
    /\ UNCHANGED arq \/ Enqueue(Ingestion(d))
    /\ UNCHANGED <<registry, job, aborts, tries, worker, del, can, index>>

IngestionUndelivered(d) ==
    /\ up[d] = "undelivered"
    /\ SetJob(Ingestion(d), "failed")
    /\ UploadGoes(d, "failing")
    /\ UNCHANGED <<registry, faults>>

\* The except clause: update_document reads the row, then writes it.
UploadFails(d) ==
    \/ /\ up[d] = "failing"
       /\ UploadGoes(d, IF Live(d) THEN "failWrite" ELSE "refused")
       /\ UNCHANGED <<registry, job, faults>>
    \/ /\ up[d] = "failWrite"
       /\ SetRow(d, "failed")
       /\ UploadGoes(d, "refused")
       /\ UNCHANGED <<file, job, faults>>

\* The late write of processing_state leaves the status alone.
UploadReturns(d) ==
    /\ up[d] = "delivered"
    /\ UploadGoes(d, "done")
    /\ UNCHANGED <<registry, job, faults>>

\* A PostgreSQL statement of the handler raises.
UploadDbFault(d) ==
    /\ Fault("db")
    /\ \/ up[d] \in {"registered", "undelivered"} /\ UploadGoes(d, "failing")
       \/ up[d] \in {"failing", "failWrite"} /\ UploadGoes(d, "refused")
    /\ UNCHANGED <<registry, job>>

(***************************************************************************)
(* DocumentService.delete.                                                 *)
(***************************************************************************)

DeleteGoes(d, next) ==
    /\ del' = [del EXCEPT ![d] = next]
    /\ UNCHANGED <<file, delivery, worker, up, can, index>>

FindDocument(d) ==
    /\ "delete" \in Env
    /\ del[d] = "idle"
    /\ Live(d)
    /\ DeleteGoes(d, "read")
    /\ UNCHANGED <<row, job, faults>>

TombstoneDocument(d) ==
    /\ del[d] = "read"
    /\ row' = [row EXCEPT ![d] = [status |-> "deleting", deleted |-> TRUE]]
    /\ DeleteGoes(d, "hidden")
    /\ UNCHANGED <<job, faults>>

SubmitDeletion(d) ==
    /\ del[d] = "hidden"
    /\ SetJob(Deletion(d), "queued")
    /\ DeleteGoes(d, "stored")
    /\ UNCHANGED <<row, faults>>

DeliverDeletion(d) ==
    /\ del[d] = "stored"
    /\ del' = [del EXCEPT ![d] = "done"]
    /\ Enqueue(Deletion(d))
    /\ UNCHANGED <<registry, job, aborts, tries, worker, up, can, index,
                   faults>>

DeliverDeletionRaises(d) ==
    /\ del[d] = "stored"
    /\ Fault("redis")
    /\ del' = [del EXCEPT ![d] = "undelivered"]
    /\ UNCHANGED arq \/ Enqueue(Deletion(d))
    /\ UNCHANGED <<registry, job, aborts, tries, worker, up, can, index>>

\* The row stays hidden: the except clause only reports.
DeletionUndelivered(d) ==
    /\ del[d] = "undelivered"
    /\ SetJob(Deletion(d), "failed")
    /\ DeleteGoes(d, "done")
    /\ UNCHANGED <<row, faults>>

DeleteDbFault(d) ==
    /\ del[d] \in {"read", "hidden", "undelivered"}
    /\ Fault("db")
    /\ DeleteGoes(d, "done")
    /\ UNCHANGED <<row, job>>

(***************************************************************************)
(* The worker: ingest_document_job and delete_document_job.                *)
(***************************************************************************)

JobStatusOf(w) ==
    CASE w = "markRunning" -> "running"
      [] w = "complete" -> "completed"
      [] w = "failJob" -> "failed"
      [] OTHER -> "cancelled"

RowStatusOf(w) ==
    CASE w = "processing" -> "processing"
      [] w = "ready" -> "ready"
      [] w = "failDoc" -> "failed"
      [] OTHER -> "cancelled"

\* What a write of the worker does, now or from an orphaned thread.
Commit(j, w) ==
    \/ w \in JobWrites /\ SetJob(j, JobStatusOf(w)) /\ UNCHANGED row
    \/ w \in DocWrites /\ SetRow(DocOf(j), RowStatusOf(w)) /\ UNCHANGED job

Goes(j, next) == pc' = [pc EXCEPT ![j] = next]

\* Where the coroutine goes after each write; only an ingestion has a
\* document to update.
After(j, w) ==
    LET ingests == Kind(j) = "ingest"
    IN  CASE w = "drop" -> IF ingests THEN "dropDoc" ELSE "finish"
          [] w = "markRunning" -> IF ingests THEN "processing" ELSE "spawn"
          [] w = "processing" -> "spawn"
          [] w = "complete" -> IF ingests THEN "ready" ELSE "finish"
          [] w = "cancelJob" -> IF ingests THEN "cancelDoc"
                                ELSE IF cause[j] = "none" THEN "finish"
                                ELSE "reraise"
          [] w = "cancelDoc" -> IF cause[j] = "none" THEN "finish"
                                                     ELSE "reraise"
          [] w = "failJob" -> IF ingests THEN "failDoc" ELSE "finish"
          [] OTHER -> "finish"

WriteJob(j) ==
    /\ pc[j] \in JobWrites
    /\ Commit(j, pc[j])
    /\ Goes(j, After(j, pc[j]))
    /\ UNCHANGED <<file, delivery, held, cause, orphan, handlers, index,
                   faults>>

\* update_document: get_document, then UPDATE by id in another statement.
LookAtRow(j) ==
    /\ pc[j] \in DocWrites /\ ~held[j]
    /\ IF Live(DocOf(j))
       THEN held' = [held EXCEPT ![j] = TRUE] /\ UNCHANGED pc
       ELSE Goes(j, After(j, pc[j])) /\ UNCHANGED held
    /\ UNCHANGED <<registry, job, delivery, cause, orphan, handlers, index,
                   faults>>

WriteRow(j) ==
    /\ pc[j] \in DocWrites /\ held[j]
    /\ Commit(j, pc[j])
    /\ held' = [held EXCEPT ![j] = FALSE]
    /\ Goes(j, After(j, pc[j]))
    /\ UNCHANGED <<file, delivery, cause, orphan, handlers, index, faults>>

\* external: the worker takes the entry.
Deliver(j) ==
    /\ arq[j] = "queued"
    /\ j \notin aborts
    /\ orphan[j] = {}
    /\ tries[j] < MaxTries
    /\ Cardinality({k \in Jobs : pc[k] # "idle"}) < MaxRunning
    /\ arq' = [arq EXCEPT ![j] = "running"]
    /\ tries' = [tries EXCEPT ![j] = @ + 1]
    /\ cause' = [cause EXCEPT ![j] = "none"]
    /\ Goes(j, "read")
    /\ UNCHANGED <<registry, job, aborts, held, orphan, handlers, index,
                   faults>>

\* external: an abort mark, or too many attempts, end the entry unrun.
EndUnrun(j) ==
    /\ arq[j] = "queued"
    /\ \/ j \in aborts /\ UNCHANGED tries
       \/ /\ j \notin aborts /\ tries[j] = MaxTries
          /\ tries' = [tries EXCEPT ![j] = @ + 1]
    /\ arq' = [arq EXCEPT ![j] = "done"]
    /\ aborts' = aborts \ {j}
    /\ UNCHANGED <<registry, job, worker, handlers, index, faults>>

\* Mutant: only a job that is still queued is worked on.
ReadJobOnce(j) ==
    /\ pc[j] = "read"
    /\ Goes(j, IF job[j].cancel THEN "drop"
               ELSE IF job[j].status = "queued" THEN "markRunning"
                                                ELSE "finish")
    /\ UNCHANGED <<registry, job, delivery, held, cause, orphan, handlers,
                   index, faults>>

ReadJob(j) ==
    /\ pc[j] = "read"
    /\ Goes(j, IF job[j].cancel THEN "drop" ELSE "markRunning")
    /\ UNCHANGED <<registry, job, delivery, held, cause, orphan, handlers,
                   index, faults>>

\* create_subprocess_exec.
Spawn(j) ==
    /\ pc[j] = "spawn"
    /\ \/ Kind(j) = "ingest" /\ Index!StartIngest(j, DocOf(j))
       \/ Kind(j) = "erase" /\ Index!StartErase(j, DocOf(j))
    /\ Goes(j, "poll")
    /\ UNCHANGED <<registry, job, delivery, held, cause, orphan, handlers>>

Exited(j) == agent[j].stage = "off"

\* Mutant: the return code is not looked at.
PollExitBlindly(j) ==
    /\ pc[j] = "poll" /\ Exited(j)
    /\ Goes(j, IF Kind(j) = "ingest" THEN "complete" ELSE "unlink")
    /\ UNCHANGED <<registry, job, delivery, held, cause, orphan, handlers,
                   index, faults>>

\* The loop ends with the subprocess; its return code decides.
PollExit(j) ==
    /\ pc[j] = "poll" /\ Exited(j)
    /\ Goes(j, IF exit[j] # "ok" THEN "failJob"
               ELSE IF Kind(j) = "ingest" THEN "complete" ELSE "unlink")
    /\ UNCHANGED <<registry, job, delivery, held, cause, orphan, handlers,
                   index, faults>>

\* Mutant: the loop is left instead of the function.
PollCancelCompletes(j) ==
    /\ pc[j] = "poll" /\ job[j].cancel
    /\ Index!Terminate({j})
    /\ Goes(j, "complete")
    /\ UNCHANGED <<registry, job, delivery, held, cause, orphan, handlers,
                   faults>>

\* The loop finds the cancel flag.  terminate() raises if the subprocess
\* was gone by then and its transport closed.
PollCancel(j) ==
    /\ pc[j] = "poll" /\ job[j].cancel
    /\ \/ /\ ~Exited(j)
          /\ Index!Terminate({j})
          /\ Goes(j, "cancelJob")
       \/ /\ Exited(j)
          /\ \E next \in {"cancelJob", "failJob"} : Goes(j, next)
          /\ UNCHANGED index
    /\ UNCHANGED <<registry, job, delivery, held, cause, orphan, handlers,
                   faults>>

\* Mutant: the upload stays on the disk.
KeepFile(j) ==
    /\ pc[j] = "unlink"
    /\ Goes(j, "complete")
    /\ UNCHANGED <<registry, job, delivery, held, cause, orphan, handlers,
                   index, faults>>

UnlinkFile(j) ==
    /\ pc[j] = "unlink"
    /\ file' = file \ {DocOf(j)}
    /\ Goes(j, "complete")
    /\ UNCHANGED <<row, job, delivery, held, cause, orphan, handlers, index,
                   faults>>

\* external: run_job records the outcome, once the finally clause has ended
\* a subprocess that an exception left behind.
Finish(j) ==
    /\ pc[j] = "finish"
    /\ Index!Terminate({j})
    /\ Goes(j, "idle")
    /\ arq' = [arq EXCEPT ![j] = "done"]
    /\ UNCHANGED <<registry, job, aborts, tries, held, cause, orphan,
                   handlers, faults>>

\* external: a cancellation that was neither abort nor timeout is retried.
Reraise(j) ==
    /\ pc[j] = "reraise"
    /\ Goes(j, "idle")
    /\ arq' = [arq EXCEPT ![j] = IF cause[j] = "shutdown" THEN "queued"
                                                         ELSE "done"]
    /\ UNCHANGED <<registry, job, aborts, tries, held, cause, orphan,
                   handlers, index, faults>>

\* The task is cancelled at an await: the subprocess ends, and a write that
\* is already in its thread may still commit later.
Cut(j, why) ==
    /\ pc[j] \in Active
    /\ cause' = [cause EXCEPT ![j] = why]
    /\ Goes(j, IF pc[j] \in Guarded THEN "cancelJob" ELSE "reraise")
    /\ held' = [held EXCEPT ![j] = FALSE]
    /\ \/ UNCHANGED orphan
       \/ /\ pc[j] \in JobWrites \/ held[j]
          /\ orphan' = [orphan EXCEPT ![j] = @ \cup {pc[j]}]
    /\ Index!Terminate({j})
    /\ UNCHANGED <<registry, job, arq, tries, handlers>>

AbortTask(j) ==
    /\ j \in aborts
    /\ Cut(j, "abort")
    /\ aborts' = aborts \ {j}
    /\ UNCHANGED faults

InterruptTask(j) ==
    /\ \E why \in {"timeout", "shutdown"} : Fault(why) /\ Cut(j, why)
    /\ UNCHANGED aborts

OrphanCommits(j) ==
    /\ \E w \in orphan[j] :
          /\ Commit(j, w)
          /\ orphan' = [orphan EXCEPT ![j] = @ \ {w}]
    /\ UNCHANGED <<file, delivery, pc, held, cause, handlers, index, faults>>

\* A statement of the worker, a spawn or an unlink raises.
WorkerFault(j) ==
    /\ \/ pc[j] \in JobWrites \cup DocWrites \cup {"read", "poll"}
          /\ Fault("db")
       \/ pc[j] \in {"spawn", "unlink"} /\ Fault("disk")
    /\ cause' = [cause EXCEPT ![j] = "db"]
    /\ held' = [held EXCEPT ![j] = FALSE]
    /\ Goes(j, IF pc[j] \in Guarded THEN "failJob" ELSE "finish")
    /\ UNCHANGED <<registry, job, delivery, orphan, handlers, index>>

\* The worker's container dies, and the subprocesses with it.
WorkerCrash ==
    /\ \E j \in Jobs : pc[j] # "idle"
    /\ Fault("crash")
    /\ pc' = [j \in Jobs |-> "idle"]
    /\ held' = [j \in Jobs |-> FALSE]
    /\ orphan' = [j \in Jobs |-> {}]
    /\ arq' = [j \in Jobs |-> IF arq[j] = "running" THEN "queued"
                                                    ELSE arq[j]]
    /\ Index!Terminate(Jobs)
    /\ UNCHANGED <<registry, job, aborts, tries, cause, handlers>>

(***************************************************************************)
(* The subprocess: ingestion_task and deletion_task.                       *)
(***************************************************************************)

\* Chunks are only produced from a file that is there.
SubprocessRuns(j) ==
    /\ Index!Run(j)
    /\ agent'[j].stage = "chunked" /\ agent[j].stage = "ready"
          => DocOf(j) \in file
    /\ UNCHANGED <<registry, job, delivery, worker, handlers>>

SubprocessMissesFile(j) ==
    /\ agent[j].stage = "ready" /\ agent[j].op = "ingest"
    /\ DocOf(j) \notin file
    /\ Index!Ends(j, "error")
    /\ UNCHANGED <<registry, job, delivery, worker, handlers, vectors, disk,
                   runs, erases, faults, last, torn>>

SubprocessFails(j) ==
    /\ "index" \in Env
    /\ Index!Failure(j)
    /\ UNCHANGED <<registry, job, delivery, worker, handlers>>

(***************************************************************************)
(* JobQueue.cancel.                                                        *)
(***************************************************************************)

CancelGoes(j, next) ==
    /\ can' = [can EXCEPT ![j] = next]
    /\ UNCHANGED <<file, arq, tries, worker, up, del, index, faults>>

CancelRead(j) ==
    /\ Fault(IF Kind(j) = "ingest" THEN "cancel ingest" ELSE "cancel erase")
    /\ can[j] = "idle"
    /\ job[j].status \in {"queued", "running"}
    /\ can' = [can EXCEPT ![j] = "flag"]
    /\ UNCHANGED <<row, job, file, arq, aborts, tries, worker, up, del, index>>

CancelFlag(j) ==
    /\ can[j] = "flag"
    /\ job' = [job EXCEPT ![j].cancel = TRUE]
    /\ CancelGoes(j, "abort")
    /\ UNCHANGED <<row, aborts>>

\* Mutant: the outcome of the abort is not awaited.
AbortNotAwaited(j) ==
    /\ can[j] = "abort"
    /\ aborts' = aborts \cup {j}
    /\ CancelGoes(j, "markJob")
    /\ UNCHANGED <<row, job>>

\* Job.abort leaves a mark, then waits for a result.
CancelAbort(j) ==
    /\ can[j] = "abort"
    /\ aborts' = aborts \cup {j}
    /\ CancelGoes(j, "await")
    /\ UNCHANGED <<row, job>>

\* external.
AbortReturns(j) ==
    /\ can[j] = "await"
    /\ arq[j] = "done"
    /\ CancelGoes(j, "markJob")
    /\ UNCHANGED <<row, job, aborts>>

\* external: it may raise instead, and cancel with it.
AbortRaises(j) ==
    /\ can[j] \in {"abort", "await"}
    /\ CancelGoes(j, "idle")
    /\ UNCHANGED <<row, job, aborts>>

CancelMarkJob(j) ==
    /\ can[j] = "markJob"
    /\ SetJob(j, "cancelled")
    /\ CancelGoes(j, "markDoc")
    /\ UNCHANGED <<row, aborts>>

\* _mark_payload_cancelled: both kinds of job name their document.
CancelMarkDocument(j) ==
    \/ /\ can[j] = "markDoc"
       /\ CancelGoes(j, IF Live(DocOf(j)) THEN "writeDoc" ELSE "closed")
       /\ UNCHANGED <<row, job, aborts>>
    \/ /\ can[j] = "writeDoc"
       /\ SetRow(DocOf(j), "cancelled")
       /\ CancelGoes(j, "closed")
       /\ UNCHANGED <<job, aborts>>

\* The API process dies with every handler in it.
ApiCrash ==
    LET upBusy == {d \in Docs : up[d] \notin {"idle", "done", "refused", "dead"}}
        delBusy == {d \in Docs : del[d] \notin {"idle", "done", "dead"}}
        canBusy == {j \in Jobs : can[j] \notin {"idle", "closed"}}
    IN  /\ upBusy \cup delBusy # {} \/ canBusy # {}
        /\ Fault("api")
        /\ up' = [d \in Docs |-> IF d \in upBusy THEN "dead" ELSE up[d]]
        /\ del' = [d \in Docs |-> IF d \in delBusy THEN "dead" ELSE del[d]]
        /\ can' = [j \in Jobs |-> IF j \in canBusy THEN "idle" ELSE can[j]]
        /\ UNCHANGED <<registry, job, delivery, worker, index>>

(***************************************************************************)

HandlerStep(d) ==
    \/ CreateDocument(d) \/ SubmitIngestion(d) \/ DeliverIngestion(d)
    \/ IngestionUndelivered(d) \/ UploadFails(d) \/ UploadReturns(d)
    \/ TombstoneDocument(d) \/ SubmitDeletion(d) \/ DeliverDeletion(d)
    \/ DeletionUndelivered(d)

HandlerFault(d) ==
    \/ UploadAborts(d) \/ DeliverIngestionRaises(d) \/ UploadDbFault(d)
    \/ DeliverDeletionRaises(d) \/ DeleteDbFault(d)

ArqStep(j) == Deliver(j) \/ EndUnrun(j) \/ AbortTask(j)

WorkerStep(j) ==
    \/ ReadJob(j) \/ WriteJob(j) \/ LookAtRow(j) \/ WriteRow(j)
    \/ Spawn(j) \/ PollExit(j) \/ PollCancel(j) \/ UnlinkFile(j)
    \/ Finish(j) \/ Reraise(j)

Subprocess(j) == SubprocessRuns(j) \/ SubprocessMissesFile(j)

CancelStep(j) ==
    \/ CancelFlag(j) \/ CancelAbort(j) \/ AbortReturns(j) \/ AbortRaises(j)
    \/ CancelMarkJob(j) \/ CancelMarkDocument(j)

\* Every request has ended and nothing is left on the queue.
Rest ==
    /\ \A d \in Docs : up[d] \in {"done", "refused", "dead"}
    /\ \A j \in Jobs : arq[j] \in {"none", "done"} /\ pc[j] = "idle"
    /\ UNCHANGED vars

Next ==
    \/ \E d \in Docs : \/ WriteFile(d) \/ FindDocument(d)
                       \/ HandlerStep(d) \/ HandlerFault(d)
    \/ \E j \in Jobs :
          \/ ArqStep(j) \/ WorkerStep(j) \/ Subprocess(j)
          \/ OrphanCommits(j) \/ CancelRead(j) \/ CancelStep(j)
          \/ InterruptTask(j) \/ WorkerFault(j) \/ SubprocessFails(j)
    \/ WorkerCrash
    \/ ApiCrash
    \/ Rest

Spec == Init /\ [][Next]_vars

\* Event loops run what is ready, ARQ polls, and subprocesses run on: the
\* ones that hang are ended by job_timeout.  Users and faults owe nothing.
Fairness ==
    /\ \A d \in Docs : WF_vars(HandlerStep(d))
    /\ \A j \in Jobs :
          /\ WF_vars(ArqStep(j))
          /\ WF_vars(WorkerStep(j))
          /\ WF_vars(Subprocess(j))
          /\ WF_vars(OrphanCommits(j))
          /\ WF_vars(CancelStep(j))

FairSpec == Spec /\ Fairness

(***************************************************************************)
(* Properties.                                                             *)
(***************************************************************************)

\* What retrieval and source links treat as searchable.
Searchable(d) == row[d].status = "ready" /\ ~row[d].deleted

InIndex(d) == Index!NodesOf(d) \cap (vectors \cup disk.nodes) # {}

\* A document the registry offers for retrieval has all chunks of one
\* ingestion in both stores: through retries, crashes, late cancellations.
ReadyIsIndexed ==
    \A d \in Docs :
        Searchable(d) =>
            \E r \in 1 .. MaxTries :
                Index!ChunksOf(d, r) \subseteq vectors \cap disk.nodes

\* What a reader of the registry, the disk and the docstore sees of the
\* documents is the life DocumentLife allows: hidden before anything of it is
\* erased, never offered again, and, while its deletion is reported completed,
\* not brought back by an ingestion queued, retried or delivered late.
Life == INSTANCE DocumentLife
    WITH offer <- [d \in Docs |->
                      CASE row[d].status = "absent" -> "none"
                        [] row[d].deleted -> "hidden"
                        [] OTHER -> "offered"],
         held <- [d \in Docs |->
                     (IF d \in file THEN {"file"} ELSE {})
                     \cup (IF disk.nodes \cap Index!NodesOf(d) # {}
                           THEN {"nodes"} ELSE {})],
         gone <- {d \in Docs : job[Deletion(d)].status = "completed"}

DeletionIsOrderly == Life!Spec

\* A cancellation that closed its document, with no thread of the worker
\* left over, keeps it closed: it is never searchable again.
CancelHolds ==
    [][\A j \in Jobs :
          can[j] = "closed" /\ orphan[j] = {} /\ ~Searchable(DocOf(j)) =>
              ~Searchable(DocOf(j))']_vars

\* Worker deaths and shutdowns only delay a deletion that was enqueued; what
\* it leaves in Qdrant is what an ingestion cut short had put there.
DeletionCompletes ==
    \A d \in Docs :
        arq[Deletion(d)] = "queued" ~>
            /\ job[Deletion(d)].status = "completed"
            /\ InIndex(d) => /\ <<"ingest", d>> \in torn
                             /\ disk.nodes \cap Index!NodesOf(d) = {}
=============================================================================
