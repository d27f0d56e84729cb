----------------------------- MODULE Generation -----------------------------
(***************************************************************************)
(* Durable answer generation: what GenerationService (the API process),    *)
(* JobQueue, the PostgreSQL rows jobs and messages, and the generation     *)
(* worker do to one question after another.  A job is the identity that    *)
(* the job row, the assistant message and the ARQ entry of one question    *)
(* share: submit() gives the three to each other.                          *)
(*                                                                         *)
(* Every await of the code is a step boundary: a step commits at most one  *)
(* row, and anything may happen between two steps.  ARQ and Redis are not  *)
(* part of the repository; their actions (marked external) are what the    *)
(* code relies on: at-least-once delivery, one attempt at a time, an abort *)
(* mark that cancels the task, a bounded number of attempts.               *)
(***************************************************************************)
EXTENDS Naturals, FiniteSets

CONSTANTS
    Jobs,        \* questions, each with its own job, message and waiter
    MaxRunning,  \* WorkerSettings.max_jobs
    MaxTries,    \* ARQ max_tries
    MaxFaults,   \* bound of the model: faults in one behaviour
    Env          \* which events of the environment happen

EnvKinds ==
    {"cancel", "crash", "shutdown", "timeout", "db", "redis", "api"}

ASSUME ConstantsAssumption ==
    /\ MaxRunning \in Nat \ {0}
    /\ MaxTries \in Nat
    /\ MaxFaults \in Nat
    /\ Env \subseteq EnvKinds

VARIABLES
    job,     \* PostgreSQL jobs row
    msg,     \* PostgreSQL messages row of the assistant placeholder
    arq,     \* the ARQ entry: none, queued, running, done
    aborts,  \* jobs in ARQ's abort set
    tries,   \* ARQ's job_try counter
    pc,      \* where generate_answer_job stands
    cause,   \* why the last attempt was cut short, "none" if none was
    orphan,  \* to_thread writes whose coroutine was cancelled while they ran
    api,     \* where the request handler stands
    reply,   \* what the HTTP request was told
    can,     \* where JobQueue.cancel stands
    faults   \* faults so far

vars == <<job, msg, arq, aborts, tries, pc, cause, orphan, api, reply, can,
          faults>>
rows == <<job, msg>>
delivery == <<arq, aborts, tries>>
worker == <<pc, cause, orphan>>
handler == <<api, reply>>

Terminal == {"completed", "failed", "cancelled"}

JobRow == [status : {"absent", "queued", "running"} \cup Terminal,
           cancel : BOOLEAN]

\* meta names which writer last replaced the whole metadata column.
Message == [status : {"absent", "running", "complete", "error"},
            text   : {"empty", "answer", "cancelled", "fault"},
            meta   : {"principal", "linked", "evidence", "jobonly"}]

\* The points of generate_answer_job that are a to_thread write.
Writes == {"markRunning", "persist", "complete", "failJob", "failMsg",
           "cancelJob", "cancelMsg", "dropJob", "dropMsg"}

\* Inside the try block: an exception or a cancellation is handled there.
Guarded == {"ask", "persist", "complete"}

Active == Writes \cup {"read", "ask"}

TypeOK ==
    /\ job \in [Jobs -> JobRow]
    /\ msg \in [Jobs -> Message]
    /\ arq \in [Jobs -> {"none", "queued", "running", "done"}]
    /\ aborts \subseteq Jobs
    /\ tries \in [Jobs -> Nat]
    /\ pc \in [Jobs -> Active \cup {"idle", "finish", "reraise"}]
    /\ cause \in [Jobs -> {"none", "abort", "timeout", "shutdown", "db"}]
    /\ orphan \in [Jobs -> SUBSET Writes]
    /\ api \in [Jobs -> {"idle", "created", "stored", "undelivered",
                         "delivered", "failing", "waiting", "done", "dead"}]
    /\ reply \in [Jobs -> {"none", "answer", "failure", "running",
                           "unavailable", "error", "gone"}]
    /\ can \in [Jobs -> {"idle", "flag", "abort", "await", "markJob",
                         "markMsg"}]
    /\ faults \in 0 .. MaxFaults

Init ==
    /\ job = [j \in Jobs |-> [status |-> "absent", cancel |-> FALSE]]
    /\ msg = [j \in Jobs |-> [status |-> "absent", text |-> "empty",
                              meta |-> "principal"]]
    /\ arq = [j \in Jobs |-> "none"]
    /\ aborts = {}
    /\ tries = [j \in Jobs |-> 0]
    /\ pc = [j \in Jobs |-> "idle"]
    /\ cause = [j \in Jobs |-> "none"]
    /\ orphan = [j \in Jobs |-> {}]
    /\ api = [j \in Jobs |-> "idle"]
    /\ reply = [j \in Jobs |-> "none"]
    /\ can = [j \in Jobs |-> "idle"]
    /\ faults = 0

Fault(kind) ==
    /\ kind \in Env
    /\ faults < MaxFaults
    /\ faults' = faults + 1

(***************************************************************************)
(* The request handler: execute and stream_events.                         *)
(***************************************************************************)

\* new_message: the placeholder a reloaded page shows.
NewMessage(j) ==
    /\ api[j] = "idle"
    /\ api' = [api EXCEPT ![j] = "created"]
    /\ msg' = [msg EXCEPT ![j] = [status |-> "running", text |-> "empty",
                                  meta |-> "principal"]]
    /\ UNCHANGED <<job, delivery, worker, reply, can, faults>>

\* submit, first half: the row is durable before Redis hears of the job.
CreateJob(j) ==
    /\ api[j] = "created"
    /\ api' = [api EXCEPT ![j] = "stored"]
    /\ job' = [job EXCEPT ![j].status = "queued"]
    /\ UNCHANGED <<msg, delivery, worker, reply, can, faults>>

\* Mutant: the job is delivered before its row is committed.
EnqueueBeforeRow(j) ==
    /\ api[j] \in {"created", "stored"}
    /\ api' = [api EXCEPT ![j] = "delivered"]
    /\ arq' = [arq EXCEPT ![j] = "queued"]
    /\ UNCHANGED <<rows, aborts, tries, worker, reply, can, faults>>

\* submit, second half: only the identity travels.
EnqueueJob(j) ==
    /\ api[j] = "stored"
    /\ api' = [api EXCEPT ![j] = "delivered"]
    /\ arq' = [arq EXCEPT ![j] = "queued"]
    /\ UNCHANGED <<rows, aborts, tries, worker, reply, can, faults>>

\* enqueue_job raises; Redis may have taken the entry before the reply
\* was lost.
EnqueueRaises(j) ==
    /\ api[j] = "stored"
    /\ Fault("redis")
    /\ api' = [api EXCEPT ![j] = "undelivered"]
    /\ arq' \in {arq, [arq EXCEPT ![j] = "queued"]}
    /\ UNCHANGED <<rows, aborts, tries, worker, reply, can>>

MarkUndelivered(j) ==
    /\ api[j] = "undelivered"
    /\ api' = [api EXCEPT ![j] = "failing"]
    /\ job' = [job EXCEPT ![j].status = "failed"]
    /\ UNCHANGED <<msg, delivery, worker, reply, can, faults>>

\* enqueue: the metadata column is replaced, whatever it holds by then.
AttachJob(j) ==
    /\ api[j] = "delivered"
    /\ api' = [api EXCEPT ![j] = "waiting"]
    /\ msg' = [msg EXCEPT ![j].meta = "linked"]
    /\ UNCHANGED <<job, delivery, worker, reply, can, faults>>

\* Mutant: the except clause only raises.
ReportOnly(j) ==
    /\ api[j] = "failing"
    /\ api' = [api EXCEPT ![j] = "done"]
    /\ reply' = [reply EXCEPT ![j] = "unavailable"]
    /\ UNCHANGED <<rows, delivery, worker, can, faults>>

\* enqueue's except clause, after any exception of the steps above.
ReportUnavailable(j) ==
    /\ api[j] = "failing"
    /\ api' = [api EXCEPT ![j] = "done"]
    /\ reply' = [reply EXCEPT ![j] = "unavailable"]
    /\ msg' = [msg EXCEPT ![j].status = "error", ![j].text = "fault"]
    /\ UNCHANGED <<job, delivery, worker, can, faults>>

\* A PostgreSQL write of the handler raises.
HandlerDbFault(j) ==
    /\ Fault("db")
    /\ \/ /\ api[j] \in {"created", "undelivered", "delivered"}
          /\ api' = [api EXCEPT ![j] = "failing"]
          /\ UNCHANGED reply
       \/ /\ api[j] = "failing"
          /\ api' = [api EXCEPT ![j] = "done"]
          /\ reply' = [reply EXCEPT ![j] = "error"]
    /\ UNCHANGED <<rows, delivery, worker, can>>

\* Mutant: any status but a failure counts as an answer.
ReplyUnlessFailed(j) ==
    /\ api[j] = "waiting"
    /\ job[j].status \notin {"failed", "cancelled"}
    /\ api' = [api EXCEPT ![j] = "done"]
    /\ reply' = [reply EXCEPT ![j] = "answer"]
    /\ UNCHANGED <<rows, delivery, worker, can, faults>>

\* wait and stream_events: one read of the row decides the reply.
ReplyTerminal(j) ==
    /\ api[j] = "waiting"
    /\ job[j].status \in Terminal
    /\ api' = [api EXCEPT ![j] = "done"]
    /\ reply' = [reply EXCEPT ![j] =
                    IF job[j].status = "completed" THEN "answer"
                                                   ELSE "failure"]
    /\ UNCHANGED <<rows, delivery, worker, can, faults>>

\* wait_seconds is over: the caller gets a pollable job.
ReplyRunning(j) ==
    /\ api[j] = "waiting"
    /\ job[j].status \notin Terminal
    /\ api' = [api EXCEPT ![j] = "done"]
    /\ reply' = [reply EXCEPT ![j] = "running"]
    /\ UNCHANGED <<rows, delivery, worker, can, faults>>

\* stream_events: the browser went away; the job goes on.
Disconnect(j) ==
    /\ api[j] = "waiting"
    /\ api' = [api EXCEPT ![j] = "done"]
    /\ reply' = [reply EXCEPT ![j] = "gone"]
    /\ UNCHANGED <<rows, delivery, worker, can, faults>>

(***************************************************************************)
(* The worker: generate_answer_job under ARQ's run_job.                    *)
(***************************************************************************)

\* Mutant: the word of the messages table is used for a job.
JobAfterMixed(w, row) ==
    [row EXCEPT !.status =
        CASE w = "markRunning" -> "running"
          [] w = "complete" -> "complete"
          [] w = "failJob" -> "failed"
          [] w \in {"cancelJob", "dropJob"} -> "cancelled"
          [] OTHER -> row.status]

\* What each write does to the row it names.
JobAfter(w, row) ==
    [row EXCEPT !.status =
        CASE w = "markRunning" -> "running"
          [] w = "complete" -> "completed"
          [] w = "failJob" -> "failed"
          [] w \in {"cancelJob", "dropJob"} -> "cancelled"
          [] OTHER -> row.status]

MsgAfter(w, m) ==
    CASE w = "persist" ->
            [status |-> "complete", text |-> "answer", meta |-> "evidence"]
      [] w = "failMsg" ->
            [status |-> "error", text |-> "fault", meta |-> "jobonly"]
      [] w \in {"cancelMsg", "dropMsg"} ->
            [status |-> "error", text |-> "cancelled", meta |-> "jobonly"]
      [] OTHER -> m

Commit(j, w) ==
    /\ job' = [job EXCEPT ![j] = JobAfter(w, @)]
    /\ msg' = [msg EXCEPT ![j] = MsgAfter(w, @)]

\* One awaited write of the coroutine, which goes on to next.
Step(j, w, next) ==
    /\ pc[j] = w
    /\ Commit(j, w)
    /\ pc' = [pc EXCEPT ![j] = next]
    /\ UNCHANGED <<delivery, cause, orphan, handler, can, faults>>

\* external: the worker takes the entry.  A thread left over from the last
\* attempt has ended: the interpreter joins it before it exits.
Deliver(j) ==
    /\ arq[j] = "queued"
    /\ j \notin aborts
    /\ orphan[j] = {}
    /\ tries[j] < MaxTries
    /\ Cardinality({k \in Jobs : pc[k] # "idle"}) < MaxRunning
    /\ arq' = [arq EXCEPT ![j] = "running"]
    /\ tries' = [tries EXCEPT ![j] = @ + 1]
    /\ pc' = [pc EXCEPT ![j] = "read"]
    /\ UNCHANGED <<rows, aborts, cause, orphan, handler, can, faults>>

\* external: an abort mark found before the start ends the entry unrun.
AbortBeforeStart(j) ==
    /\ arq[j] = "queued"
    /\ j \in aborts
    /\ arq' = [arq EXCEPT ![j] = "done"]
    /\ aborts' = aborts \ {j}
    /\ UNCHANGED <<rows, tries, worker, handler, can, faults>>

\* external: max_tries is reached and ARQ drops the entry.
GiveUp(j) ==
    /\ arq[j] = "queued"
    /\ j \notin aborts
    /\ tries[j] = MaxTries
    /\ arq' = [arq EXCEPT ![j] = "done"]
    /\ tries' = [tries EXCEPT ![j] = @ + 1]
    /\ UNCHANGED <<rows, aborts, worker, handler, can, faults>>

\* Mutants: the flag is not looked at; only a queued job is worked on.
ReadJobBlindly(j) ==
    /\ pc[j] = "read"
    /\ pc' = [pc EXCEPT ![j] = "markRunning"]
    /\ UNCHANGED <<rows, delivery, cause, orphan, handler, can, faults>>
ReadJobOnce(j) ==
    /\ pc[j] = "read"
    /\ pc' = [pc EXCEPT ![j] = IF job[j].cancel THEN "dropJob"
                ELSE IF job[j].status = "queued" THEN "markRunning"
                                                 ELSE "finish"]
    /\ UNCHANGED <<rows, delivery, cause, orphan, handler, can, faults>>

\* get_job and get_job_payload: the only look at cancel_requested.
ReadJob(j) ==
    /\ pc[j] = "read"
    /\ pc' = [pc EXCEPT ![j] = IF job[j].cancel THEN "dropJob"
                                                ELSE "markRunning"]
    /\ UNCHANGED <<rows, delivery, cause, orphan, handler, can, faults>>

DropJob(j) == Step(j, "dropJob", "dropMsg")
DropMsg(j) == Step(j, "dropMsg", "finish")
MarkRunning(j) == Step(j, "markRunning", "ask")

\* Mutant: the job is completed without storing the message.
RunAskUnsaved(j) ==
    /\ pc[j] = "ask"
    /\ \E next \in {"complete", "failJob"} :
            pc' = [pc EXCEPT ![j] = next]
    /\ UNCHANGED <<rows, delivery, cause, orphan, handler, can, faults>>

\* run_ask in its thread returns or raises.
RunAsk(j) ==
    /\ pc[j] = "ask"
    /\ \E next \in {"persist", "failJob"} :
            pc' = [pc EXCEPT ![j] = next]
    /\ UNCHANGED <<rows, delivery, cause, orphan, handler, can, faults>>

PersistMessage(j) == Step(j, "persist", "complete")
CompleteJob(j) == Step(j, "complete", "finish")
\* Mutant: a failed attempt leaves the message alone.
FailJobOnly(j) == Step(j, "failJob", "finish")

FailJob(j) == Step(j, "failJob", "failMsg")
FailMsg(j) == Step(j, "failMsg", "finish")
CancelledJob(j) == Step(j, "cancelJob", "cancelMsg")
CancelledMsg(j) == Step(j, "cancelMsg", "reraise")

\* external: run_job records the outcome.
Finish(j) ==
    /\ pc[j] = "finish"
    /\ pc' = [pc EXCEPT ![j] = "idle"]
    /\ arq' = [arq EXCEPT ![j] = "done"]
    /\ UNCHANGED <<rows, aborts, tries, cause, orphan, handler, can, faults>>

\* external: a CancelledError that reaches run_job is retried, unless an
\* abort or the job timeout caused it.
Reraise(j) ==
    /\ pc[j] = "reraise"
    /\ pc' = [pc EXCEPT ![j] = "idle"]
    /\ arq' = [arq EXCEPT ![j] = IF cause[j] = "shutdown" THEN "queued"
                                                         ELSE "done"]
    /\ UNCHANGED <<rows, aborts, tries, cause, orphan, handler, can, faults>>

\* The task is cancelled at an await.  A write already in its thread may
\* still commit later.
Cut(j, why) ==
    /\ pc[j] \in Active
    /\ cause' = [cause EXCEPT ![j] = why]
    /\ pc' = [pc EXCEPT ![j] = IF @ \in Guarded THEN "cancelJob"
                                                ELSE "reraise"]
    /\ \/ UNCHANGED orphan
       \/ /\ pc[j] \in Writes
          /\ orphan' = [orphan EXCEPT ![j] = @ \cup {pc[j]}]
    /\ UNCHANGED <<rows, arq, tries, handler, can>>

AbortTask(j) ==
    /\ j \in aborts
    /\ aborts' = aborts \ {j}
    /\ Cut(j, "abort")
    /\ UNCHANGED faults

InterruptTask(j) ==
    /\ \E why \in {"timeout", "shutdown"} : Fault(why) /\ Cut(j, why)
    /\ UNCHANGED aborts

OrphanCommits(j) ==
    /\ \E w \in orphan[j] :
          /\ Commit(j, w)
          /\ orphan' = [orphan EXCEPT ![j] = @ \ {w}]
    /\ UNCHANGED <<delivery, pc, cause, handler, can, faults>>

\* A read or write of the worker raises: the except clause runs if the
\* statement is in the try block, else ARQ records a failure.
WorkerDbFault(j) ==
    /\ pc[j] \in Writes \cup {"read"}
    /\ Fault("db")
    /\ cause' = [cause EXCEPT ![j] = "db"]
    /\ pc' = [pc EXCEPT ![j] = IF @ \in Guarded THEN "failJob" ELSE "finish"]
    /\ UNCHANGED <<rows, delivery, orphan, handler, can>>

\* The worker process dies; each entry is delivered again once ARQ's
\* in-progress key has expired.
WorkerCrash ==
    /\ \E j \in Jobs : pc[j] # "idle"
    /\ Fault("crash")
    /\ pc' = [j \in Jobs |-> "idle"]
    /\ orphan' = [j \in Jobs |-> {}]
    /\ arq' = [j \in Jobs |-> IF arq[j] = "running" THEN "queued"
                                                    ELSE arq[j]]
    /\ UNCHANGED <<rows, aborts, tries, cause, handler, can>>

(***************************************************************************)
(* JobQueue.cancel, at a user's request.                                   *)
(***************************************************************************)

\* request_cancel reads the status ...
CancelRead(j) ==
    /\ "cancel" \in Env
    /\ can[j] = "idle"
    /\ job[j].status \in {"queued", "running"}
    /\ can' = [can EXCEPT ![j] = "flag"]
    /\ UNCHANGED <<rows, delivery, worker, handler, faults>>

\* ... and writes the flag, without a lock in between.
CancelFlag(j) ==
    /\ can[j] = "flag"
    /\ can' = [can EXCEPT ![j] = "abort"]
    /\ job' = [job EXCEPT ![j].cancel = TRUE]
    /\ UNCHANGED <<msg, delivery, worker, handler, faults>>

\* external: Job.abort marks the entry, then waits for a result ...
CancelAbort(j) ==
    /\ can[j] = "abort"
    /\ can' = [can EXCEPT ![j] = "await"]
    /\ aborts' = aborts \cup {j}
    /\ UNCHANGED <<rows, arq, tries, worker, handler, faults>>

\* ... which it finds once the entry is done ...
AbortReturns(j) ==
    /\ can[j] = "await"
    /\ arq[j] = "done"
    /\ can' = [can EXCEPT ![j] = "markJob"]
    /\ UNCHANGED <<rows, delivery, worker, handler, faults>>

\* ... or it raises (no result under the default queue name, a job's own
\* exception, a lost connection), and cancel raises with it.
AbortRaises(j) ==
    /\ can[j] \in {"abort", "await"}
    /\ can' = [can EXCEPT ![j] = "idle"]
    /\ UNCHANGED <<rows, delivery, worker, handler, faults>>

CancelMarkJob(j) ==
    /\ can[j] = "markJob"
    /\ can' = [can EXCEPT ![j] = "markMsg"]
    /\ job' = [job EXCEPT ![j].status = "cancelled"]
    /\ UNCHANGED <<msg, delivery, worker, handler, faults>>

\* _mark_payload_cancelled.
CancelMarkMsg(j) ==
    /\ can[j] = "markMsg"
    /\ can' = [can EXCEPT ![j] = "idle"]
    /\ msg' = [msg EXCEPT ![j] = MsgAfter("cancelMsg", @)]
    /\ UNCHANGED <<job, delivery, worker, handler, faults>>

\* The API process dies with every handler in it: those that had not yet
\* delivered the job leave it where it stands.
ApiCrash ==
    /\ Fault("api")
    /\ LET early == {"created", "stored", "undelivered", "failing"}
           late  == {"delivered", "waiting"}
       IN  /\ \E j \in Jobs : api[j] \in early \cup late \/ can[j] # "idle"
           /\ api' = [j \in Jobs |-> IF api[j] \in early THEN "dead"
                                    ELSE IF api[j] \in late THEN "done"
                                    ELSE api[j]]
           /\ reply' = [j \in Jobs |-> IF api[j] \in late THEN "gone"
                                                          ELSE reply[j]]
    /\ can' = [j \in Jobs |-> "idle"]
    /\ UNCHANGED <<rows, delivery, worker>>

(***************************************************************************)

\* A question has been answered, or nothing will work on it any more: the
\* system is then at rest, and the browser asks no more in this model.
Rest ==
    /\ \A j \in Jobs : api[j] \in {"done", "dead"}
    /\ \A j \in Jobs : arq[j] \in {"none", "done"} /\ pc[j] = "idle"
    /\ UNCHANGED vars

HandlerStep(j) ==
    \/ CreateJob(j) \/ EnqueueJob(j) \/ MarkUndelivered(j) \/ AttachJob(j)
    \/ ReportUnavailable(j) \/ ReplyTerminal(j) \/ ReplyRunning(j)

ArqStep(j) == Deliver(j) \/ AbortBeforeStart(j) \/ GiveUp(j) \/ AbortTask(j)

WorkerStep(j) ==
    \/ ReadJob(j) \/ DropJob(j) \/ DropMsg(j) \/ MarkRunning(j) \/ RunAsk(j)
    \/ PersistMessage(j) \/ CompleteJob(j) \/ FailJob(j) \/ FailMsg(j)
    \/ CancelledJob(j) \/ CancelledMsg(j) \/ Finish(j) \/ Reraise(j)

CancelStep(j) ==
    \/ CancelFlag(j) \/ CancelAbort(j) \/ AbortReturns(j) \/ AbortRaises(j)
    \/ CancelMarkJob(j) \/ CancelMarkMsg(j)

FaultStep(j) ==
    \/ EnqueueRaises(j) \/ HandlerDbFault(j) \/ InterruptTask(j)
    \/ WorkerDbFault(j)

Next ==
    \/ \E j \in Jobs :
          \/ NewMessage(j) \/ HandlerStep(j) \/ Disconnect(j)
          \/ ArqStep(j) \/ WorkerStep(j) \/ OrphanCommits(j)
          \/ CancelRead(j) \/ CancelStep(j) \/ FaultStep(j)
    \/ WorkerCrash
    \/ ApiCrash
    \/ Rest

Spec == Init /\ [][Next]_vars

\* The event loops run what is ready and ARQ polls; run_ask ends because
\* job_timeout ends it.  Users and faults owe nothing.
Fairness ==
    \A j \in Jobs :
        /\ WF_vars(HandlerStep(j))
        /\ WF_vars(ArqStep(j))
        /\ WF_vars(WorkerStep(j))
        /\ WF_vars(OrphanCommits(j))
        /\ WF_vars(CancelStep(j))

FairSpec == Spec /\ Fairness

(***************************************************************************)
(* Properties.                                                             *)
(***************************************************************************)

\* Nobody but the worker's ordinary path has touched the question.
Undisturbed(j) ==
    /\ ~job[j].cancel
    /\ cause[j] = "none"
    /\ api[j] \notin {"undelivered", "failing", "dead"}
    /\ reply[j] \notin {"unavailable", "error"}

Answered(j) == msg[j].status = "complete" /\ msg[j].text = "answer"

\* An attempt only starts on a job whose row and placeholder are durable:
\* "generation job payload not found" is unreachable.
DeliveredJobIsRecorded ==
    \A j \in Jobs :
        pc[j] # "idle" => job[j].status # "absent" /\ msg[j].status # "absent"

\* A job the API reports completed has its answer in the message a page
\* reload shows, whatever crashes and redeliveries came before.
CompletedJobHasAnswer ==
    \A j \in Jobs :
        Undisturbed(j) /\ job[j].status = "completed" => Answered(j)

\* At rest the two rows tell one story: completed with an answer or failed
\* with an error.
SettledAgreement ==
    \A j \in Jobs :
        /\ Undisturbed(j) /\ tries[j] <= MaxTries
        /\ arq[j] = "done" /\ can[j] = "idle"
        => \/ job[j].status = "completed" /\ Answered(j)
           \/ job[j].status = "failed" /\ msg[j].status = "error"

\* A message that still says "running" has somebody left to settle it: the
\* handler before delivery, ARQ, the worker, or a cancellation.  The listed
\* losses are the only exceptions: a dead or faulted handler, an attempt cut
\* short outside the try block, an exhausted entry, an aborted one.
NoStrandedMessage ==
    \A j \in Jobs :
        msg[j].status = "running" =>
            \/ api[j] \in {"created", "stored", "undelivered", "failing"}
            \/ arq[j] \in {"queued", "running"}
            \/ job[j].cancel
            \/ cause[j] \in {"timeout", "db"}
            \/ tries[j] > MaxTries
            \/ api[j] = "dead" \/ reply[j] = "error"

\* The HTTP caller is never given an answer that the stored conversation
\* does not hold at that moment.
ReplyAgreesWithMessage ==
    [][\A j \in Jobs :
          reply[j] # "answer" /\ reply'[j] = "answer" =>
              Answered(j) \/ ~Undisturbed(j)]_vars

\* A question cancelled before an attempt has read its row is never
\* answered: every later attempt drops it, whatever is retried.
Doomed(j) ==
    /\ job[j].cancel
    /\ pc[j] \in {"idle", "read", "dropJob", "dropMsg", "finish", "reraise"}
    /\ orphan[j] \cap {"persist"} = {}
    /\ msg[j].text # "answer"

CancelBeforeStartHolds ==
    [][\A j \in Jobs : Doomed(j) => Doomed(j)']_vars

\* Worker deaths and shutdowns only delay: a delivered question ends in a
\* terminal job and a settled message.
AnswerSettles ==
    \A j \in Jobs :
        arq[j] = "queued" ~> /\ job[j].status \in Terminal
                             /\ msg[j].status # "running"
=============================================================================
