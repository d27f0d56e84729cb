-------------------------- MODULE Generation_proofs --------------------------
(***************************************************************************)
(* Proofs about Generation for any set of questions and any bounds: type   *)
(* correctness, that a job reported completed has its answer stored, that  *)
(* a running message has somebody to settle it, and that an attempt finds  *)
(* its rows.                                                               *)
(***************************************************************************)
EXTENDS Generation, TLAPS

\* The steps of one question, with the disjuncts of Next flattened.
LocalStep(j) ==
    \/ NewMessage(j) \/ HandlerStep(j) \/ Disconnect(j)
    \/ ArqStep(j) \/ WorkerStep(j) \/ OrphanCommits(j)
    \/ CancelRead(j) \/ CancelStep(j) \/ FaultStep(j)

LEMMA NextCases ==
    ASSUME [Next]_vars
    PROVE  \/ \E j \in Jobs : LocalStep(j)
           \/ WorkerCrash \/ ApiCrash \/ UNCHANGED vars
    BY DEF Next, LocalStep, Rest

-----------------------------------------------------------------------------
\* A write of the worker keeps the two rows in their types.
LEMMA CommitType ==
    ASSUME TypeOK, NEW j \in Jobs, NEW w \in Writes, Commit(j, w)
    PROVE  job' \in [Jobs -> JobRow] /\ msg' \in [Jobs -> Message]
  <1>1. JobAfter(w, job[j]) \in JobRow
    <2>1. job[j] \in JobRow
      BY DEF TypeOK
    <2>2. JobAfter(w, job[j]).status \in
              {"absent", "queued", "running"} \cup Terminal
      BY <2>1, Zenon DEF JobAfter, JobRow, Terminal
    <2> QED  BY <2>1 DEF JobAfter, JobRow, Terminal
  <1>2. MsgAfter(w, msg[j]) \in Message
    BY DEF TypeOK, MsgAfter, Message
  <1> QED  BY <1>1, <1>2 DEF TypeOK, Commit

\* A column write keeps the row, and a counted fault the budget.
LEMMA ColumnTypes ==
    ASSUME TypeOK, NEW j \in Jobs
    PROVE  /\ \A s \in {"queued", "failed", "cancelled"} :
                 [job EXCEPT ![j].status = s] \in [Jobs -> JobRow]
           /\ [job EXCEPT ![j].cancel = TRUE] \in [Jobs -> JobRow]
           /\ [msg EXCEPT ![j].meta = "linked"] \in [Jobs -> Message]
           /\ [msg EXCEPT ![j].status = "error", ![j].text = "fault"]
                 \in [Jobs -> Message]
  <1>1. job[j] \in JobRow /\ msg[j] \in Message
    BY DEF TypeOK
  <1>2. \A s \in {"queued", "failed", "cancelled"} :
            [job[j] EXCEPT !.status = s] \in JobRow
    BY <1>1 DEF JobRow, Terminal
  <1>3. [job[j] EXCEPT !.cancel = TRUE] \in JobRow
    BY <1>1 DEF JobRow
  <1>4. [msg[j] EXCEPT !.meta = "linked"] \in Message
    BY <1>1 DEF Message
  <1>5. [[msg[j] EXCEPT !.status = "error"] EXCEPT !.text = "fault"]
            \in Message
    BY <1>1 DEF Message
  <1>6. [msg EXCEPT ![j].status = "error", ![j].text = "fault"]
            = [msg EXCEPT ![j] =
                  [[msg[j] EXCEPT !.status = "error"] EXCEPT !.text = "fault"]]
    BY DEF TypeOK
  <1> QED  BY <1>2, <1>3, <1>4, <1>5, <1>6 DEF TypeOK

LEMMA FaultType ==
    ASSUME TypeOK, NEW kind, Fault(kind)
    PROVE  faults' \in 0 .. MaxFaults
    BY ConstantsAssumption DEF TypeOK, Fault

LEMMA CutType ==
    ASSUME TypeOK, NEW j \in Jobs,
           NEW why \in {"abort", "timeout", "shutdown"}, Cut(j, why)
    PROVE  /\ cause' \in [Jobs -> {"none", "abort", "timeout", "shutdown", "db"}]
           /\ pc' \in [Jobs -> Active \cup {"idle", "finish", "reraise"}]
           /\ orphan' \in [Jobs -> SUBSET Writes]
           /\ UNCHANGED <<job, msg, arq, tries, api, reply, can>>
    BY DEF Cut, TypeOK, rows, handler, Active, Writes

-----------------------------------------------------------------------------
\* Every step of a question keeps every variable in its type.
LEMMA LocalType ==
    ASSUME TypeOK, NEW j \in Jobs, LocalStep(j)
    PROVE  TypeOK'
  <1>1. CASE NewMessage(j)
    BY <1>1 DEF NewMessage, TypeOK, rows, delivery, worker, handler, Fault, JobRow,
        Message, Terminal, Active, Writes, Guarded, Cut
  <1>2. CASE Disconnect(j)
    BY <1>2 DEF Disconnect, TypeOK, rows, delivery, worker, handler, Fault, JobRow,
        Message, Terminal, Active, Writes, Guarded, Cut
  <1>3. CASE CancelRead(j)
    BY <1>3 DEF CancelRead, TypeOK, rows, delivery, worker, handler, Fault, JobRow,
        Message, Terminal, Active, Writes, Guarded, Cut
  <1>4. CASE CreateJob(j)
    BY <1>4, ColumnTypes DEF CreateJob, TypeOK, delivery, worker, handler
  <1>5. CASE EnqueueJob(j)
    BY <1>5 DEF EnqueueJob, TypeOK, rows, delivery, worker, handler, Fault, JobRow,
        Message, Terminal, Active, Writes, Guarded, Cut
  <1>6. CASE MarkUndelivered(j)
    BY <1>6, ColumnTypes DEF MarkUndelivered, TypeOK, delivery, worker, handler
  <1>7. CASE AttachJob(j)
    BY <1>7, ColumnTypes DEF AttachJob, TypeOK, delivery, worker, handler
  <1>8. CASE ReportUnavailable(j)
    BY <1>8, ColumnTypes DEF ReportUnavailable, TypeOK, delivery, worker, handler
  <1>9. CASE ReplyTerminal(j)
    BY <1>9 DEF ReplyTerminal, TypeOK, rows, delivery, worker, handler, Fault, JobRow,
        Message, Terminal, Active, Writes, Guarded, Cut
  <1>10. CASE ReplyRunning(j)
    BY <1>10 DEF ReplyRunning, TypeOK, rows, delivery, worker, handler, Fault, JobRow,
        Message, Terminal, Active, Writes, Guarded, Cut
  <1>11. CASE Deliver(j)
    BY <1>11 DEF Deliver, TypeOK, rows, delivery, worker, handler, Fault, JobRow,
        Message, Terminal, Active, Writes, Guarded, Cut
  <1>12. CASE AbortBeforeStart(j)
    BY <1>12 DEF AbortBeforeStart, TypeOK, rows, delivery, worker, handler, Fault, JobRow,
        Message, Terminal, Active, Writes, Guarded, Cut
  <1>13. CASE GiveUp(j)
    BY <1>13 DEF GiveUp, TypeOK, rows, delivery, worker, handler, Fault, JobRow,
        Message, Terminal, Active, Writes, Guarded, Cut
  <1>14. CASE AbortTask(j)
    BY <1>14, CutType DEF AbortTask, TypeOK
  <1>15. CASE ReadJob(j)
    BY <1>15 DEF ReadJob, TypeOK, rows, delivery, worker, handler, Fault, JobRow,
        Message, Terminal, Active, Writes, Guarded, Cut
  <1>16. CASE RunAsk(j)
    BY <1>16 DEF RunAsk, TypeOK, rows, delivery, worker, handler, Fault, JobRow,
        Message, Terminal, Active, Writes, Guarded, Cut
  <1>17. CASE Finish(j)
    BY <1>17 DEF Finish, TypeOK, rows, delivery, worker, handler, Fault, JobRow,
        Message, Terminal, Active, Writes, Guarded, Cut
  <1>18. CASE Reraise(j)
    BY <1>18 DEF Reraise, TypeOK, rows, delivery, worker, handler, Fault, JobRow,
        Message, Terminal, Active, Writes, Guarded, Cut
  <1>19. CASE CancelFlag(j)
    BY <1>19, ColumnTypes DEF CancelFlag, TypeOK, delivery, worker, handler
  <1>20. CASE CancelAbort(j)
    BY <1>20 DEF CancelAbort, TypeOK, rows, delivery, worker, handler, Fault, JobRow,
        Message, Terminal, Active, Writes, Guarded, Cut
  <1>21. CASE AbortReturns(j)
    BY <1>21 DEF AbortReturns, TypeOK, rows, delivery, worker, handler, Fault, JobRow,
        Message, Terminal, Active, Writes, Guarded, Cut
  <1>22. CASE AbortRaises(j)
    BY <1>22 DEF AbortRaises, TypeOK, rows, delivery, worker, handler, Fault, JobRow,
        Message, Terminal, Active, Writes, Guarded, Cut
  <1>23. CASE CancelMarkJob(j)
    BY <1>23, ColumnTypes DEF CancelMarkJob, TypeOK, delivery, worker, handler
  <1>24. CASE CancelMarkMsg(j)
    BY <1>24 DEF CancelMarkMsg, TypeOK, rows, delivery, worker, handler, Fault, JobRow,
        Message, Terminal, Active, Writes, Guarded, Cut, MsgAfter
  <1>25. CASE EnqueueRaises(j)
    BY <1>25, FaultType DEF EnqueueRaises, TypeOK, rows, delivery, worker, handler, Active, Writes,
        Guarded
  <1>26. CASE HandlerDbFault(j)
    BY <1>26, FaultType DEF HandlerDbFault, TypeOK, rows, delivery, worker, handler, Active, Writes,
        Guarded
  <1>27. CASE InterruptTask(j)
    BY <1>27, CutType, FaultType DEF InterruptTask, TypeOK
  <1>28. CASE WorkerDbFault(j)
    BY <1>28, FaultType DEF WorkerDbFault, TypeOK, rows, delivery, worker, handler, Active, Writes,
        Guarded
  <1>29. CASE DropJob(j)
    BY <1>29, CommitType DEF DropJob, Step, TypeOK, delivery, handler, Active, Writes
  <1>30. CASE DropMsg(j)
    BY <1>30, CommitType DEF DropMsg, Step, TypeOK, delivery, handler, Active, Writes
  <1>31. CASE MarkRunning(j)
    BY <1>31, CommitType DEF MarkRunning, Step, TypeOK, delivery, handler, Active, Writes
  <1>32. CASE PersistMessage(j)
    BY <1>32, CommitType DEF PersistMessage, Step, TypeOK, delivery, handler, Active, Writes
  <1>33. CASE CompleteJob(j)
    BY <1>33, CommitType DEF CompleteJob, Step, TypeOK, delivery, handler, Active, Writes
  <1>34. CASE FailJob(j)
    BY <1>34, CommitType DEF FailJob, Step, TypeOK, delivery, handler, Active, Writes
  <1>35. CASE FailMsg(j)
    BY <1>35, CommitType DEF FailMsg, Step, TypeOK, delivery, handler, Active, Writes
  <1>36. CASE CancelledJob(j)
    BY <1>36, CommitType DEF CancelledJob, Step, TypeOK, delivery, handler, Active, Writes
  <1>37. CASE CancelledMsg(j)
    BY <1>37, CommitType DEF CancelledMsg, Step, TypeOK, delivery, handler, Active, Writes
  <1>38. CASE OrphanCommits(j)
    BY <1>38, CommitType DEF OrphanCommits, TypeOK, delivery, handler
  <1> QED
    BY <1>1, <1>2, <1>3, <1>4, <1>5, <1>6, <1>7, <1>8, <1>9, <1>10, <1>11, <1>12, <1>13, <1>14, <1>15, <1>16, <1>17, <1>18, <1>19, <1>20, <1>21, <1>22, <1>23, <1>24, <1>25, <1>26, <1>27, <1>28, <1>29, <1>30, <1>31, <1>32, <1>33, <1>34, <1>35, <1>36, <1>37, <1>38
    DEF LocalStep, HandlerStep, ArqStep, WorkerStep, CancelStep, FaultStep

\* The two process deaths keep every variable in its type.
LEMMA CrashType ==
    ASSUME TypeOK, WorkerCrash \/ ApiCrash
    PROVE  TypeOK'
  <1>1. CASE WorkerCrash
    BY <1>1, FaultType DEF WorkerCrash, TypeOK, rows, handler, Active, Writes
  <1>2. CASE ApiCrash
    BY <1>2, FaultType DEF ApiCrash, TypeOK, rows, delivery, worker
  <1> QED  BY <1>1, <1>2

\* Rows, queue entries and process positions stay in their types: the status
\* columns only ever hold the values the readers of the rows expect.
THEOREM GenerationTypeCorrect == Spec => []TypeOK
  <1>1. Init => TypeOK
    BY ConstantsAssumption DEF Init, TypeOK, JobRow, Message, Terminal
  <1>2. TypeOK /\ [Next]_vars => TypeOK'
    <2> SUFFICES ASSUME TypeOK, [Next]_vars
                 PROVE  TypeOK'
      OBVIOUS
    <2>1. CASE UNCHANGED vars
      BY <2>1 DEF vars, TypeOK
    <2> QED  BY <2>1, NextCases, LocalType, CrashType
  <1> QED  BY <1>1, <1>2, PTL DEF Spec

-----------------------------------------------------------------------------
(***************************************************************************)
(* The inductive invariant.  Order relates the handler's position to what  *)
(* it has made durable; Marks says which positions betray a disturbance;   *)
(* Story is the property itself, with the two positions between which the  *)
(* rows are written; Owner says who still settles a running message;       *)
(* Outcome says what an attempt has written when it is over.               *)
(***************************************************************************)
Order(j) ==
    /\ api[j] \in {"idle", "created"} => job[j].status = "absent"
    /\ api[j] # "idle" => msg[j].status # "absent"
    /\ arq[j] # "none" => job[j].status # "absent" /\ api[j] # "idle"
    /\ api[j] \in {"idle", "created", "stored"} => arq[j] = "none"
    /\ api[j] \in {"stored", "undelivered", "delivered", "waiting"} =>
           job[j].status # "absent"
    /\ api[j] \in {"delivered", "waiting"} => arq[j] # "none"
    /\ pc[j] # "idle" => arq[j] = "running"
    /\ reply[j] \in {"unavailable", "error"} => api[j] = "done"

Marks(j) ==
    /\ j \in aborts \/ can[j] \in {"abort", "await", "markJob", "markMsg"} =>
           job[j].cancel
    /\ orphan[j] # {} => cause[j] # "none"
    /\ orphan[j] # {} \/ can[j] # "idle" => job[j].status # "absent"
    /\ pc[j] \in {"cancelJob", "cancelMsg", "reraise"} => cause[j] # "none"
    /\ pc[j] \in {"dropJob", "dropMsg"} => job[j].cancel
    /\ cause[j] = "abort" => job[j].cancel

Story(j) ==
    Undisturbed(j) =>
        /\ job[j].status = "completed" \/ pc[j] = "complete" => Answered(j)
        /\ pc[j] = "failMsg" => job[j].status = "failed"

Excused(j) ==
    \/ job[j].cancel
    \/ cause[j] \in {"timeout", "db"}
    \/ tries[j] > MaxTries
    \/ api[j] = "dead" \/ reply[j] = "error"

Owner(j) ==
    msg[j].status = "running" /\ ~Excused(j) =>
        /\ pc[j] \notin {"complete", "finish"}
        /\ pc[j] = "reraise" => cause[j] = "shutdown"
        /\ arq[j] = "none" =>
               api[j] \in {"created", "stored", "undelivered", "failing"}
        /\ arq[j] # "done"

Settled(j) ==
    \/ job[j].status = "completed" /\ Answered(j)
    \/ job[j].status = "failed" /\ msg[j].status = "error"

Outcome(j) ==
    /\ Undisturbed(j) /\ tries[j] <= MaxTries
    /\ pc[j] = "finish" \/ arq[j] = "done"
    => Settled(j)

JobInv(j) == Order(j) /\ Marks(j) /\ Story(j) /\ Owner(j) /\ Outcome(j)

IInv == \A j \in Jobs : JobInv(j)

\* A step of one question leaves the other questions alone.
LEMMA LocalFrame ==
    ASSUME TypeOK, NEW j \in Jobs, NEW k \in Jobs, k # j, LocalStep(j)
    PROVE  /\ job'[k] = job[k] /\ msg'[k] = msg[k] /\ arq'[k] = arq[k]
           /\ k \in aborts' <=> k \in aborts
           /\ tries'[k] = tries[k] /\ pc'[k] = pc[k]
           /\ cause'[k] = cause[k] /\ orphan'[k] = orphan[k]
           /\ api'[k] = api[k] /\ reply'[k] = reply[k] /\ can'[k] = can[k]
  <1>1. CASE NewMessage(j)
    BY <1>1 DEF NewMessage, TypeOK, rows, delivery, worker, handler
  <1>2. CASE Disconnect(j)
    BY <1>2 DEF Disconnect, TypeOK, rows, delivery, worker, handler
  <1>3. CASE CancelRead(j)
    BY <1>3 DEF CancelRead, TypeOK, rows, delivery, worker, handler
  <1>4. CASE OrphanCommits(j)
    BY <1>4 DEF OrphanCommits, TypeOK, rows, delivery, worker, handler, Commit
  <1>5. CASE HandlerStep(j)
    BY <1>5
    DEF HandlerStep, CreateJob, EnqueueJob, MarkUndelivered, AttachJob,
        ReportUnavailable, ReplyTerminal, ReplyRunning, TypeOK, rows,
        delivery, worker, handler
  <1>6. CASE ArqStep(j)
    BY <1>6
    DEF ArqStep, Deliver, AbortBeforeStart, GiveUp, AbortTask, Cut, TypeOK,
        rows, delivery, worker, handler
  <1>7. CASE WorkerStep(j)
    BY <1>7
    DEF WorkerStep, ReadJob, RunAsk, Finish, Reraise, DropJob, DropMsg,
        MarkRunning, PersistMessage, CompleteJob, FailJob, FailMsg,
        CancelledJob, CancelledMsg, Step, Commit, TypeOK, rows, delivery,
        worker, handler
  <1>8. CASE CancelStep(j)
    BY <1>8
    DEF CancelStep, CancelFlag, CancelAbort, AbortReturns, AbortRaises,
        CancelMarkJob, CancelMarkMsg, TypeOK, rows, delivery, worker, handler
  <1>9. CASE FaultStep(j)
    BY <1>9
    DEF FaultStep, EnqueueRaises, HandlerDbFault, InterruptTask,
        WorkerDbFault, Cut, TypeOK, rows, delivery, worker, handler
  <1> QED  BY <1>1, <1>2, <1>3, <1>4, <1>5, <1>6, <1>7, <1>8, <1>9 DEF LocalStep

\* One step per action: the question that moves keeps its five conjuncts.
LEMMA LocalInv ==
    ASSUME TypeOK, NEW j \in Jobs, LocalStep(j),
           JobInv(j)
    PROVE  JobInv(j)'
  <1> USE ConstantsAssumption
      DEF TypeOK, JobInv, Order, Marks, Story, Owner, Outcome, Settled,
          Excused, Undisturbed, Answered
  <1>1. CASE NewMessage(j)
    BY <1>1 DEF NewMessage, rows, delivery, worker, handler
  <1>2. CASE Disconnect(j)
    BY <1>2 DEF Disconnect, rows, delivery, worker, handler
  <1>3. CASE CancelRead(j)
    BY <1>3 DEF CancelRead, rows, delivery, worker, handler
  <1>4. CASE CreateJob(j)
    BY <1>4 DEF CreateJob, rows, delivery, worker, handler
  <1>5. CASE EnqueueJob(j)
    BY <1>5 DEF EnqueueJob, rows, delivery, worker, handler
  <1>6. CASE MarkUndelivered(j)
    BY <1>6 DEF MarkUndelivered, rows, delivery, worker, handler
  <1>7. CASE AttachJob(j)
    BY <1>7 DEF AttachJob, rows, delivery, worker, handler
  <1>8. CASE ReportUnavailable(j)
    BY <1>8 DEF ReportUnavailable, rows, delivery, worker, handler
  <1>9. CASE ReplyTerminal(j)
    BY <1>9 DEF ReplyTerminal, rows, delivery, worker, handler, Terminal
  <1>10. CASE ReplyRunning(j)
    BY <1>10 DEF ReplyRunning, rows, delivery, worker, handler
  <1>11. CASE Deliver(j)
    BY <1>11 DEF Deliver, rows, delivery, worker, handler
  <1>12. CASE AbortBeforeStart(j)
    BY <1>12 DEF AbortBeforeStart, rows, delivery, worker, handler
  <1>13. CASE GiveUp(j)
    BY <1>13 DEF GiveUp, rows, delivery, worker, handler
  <1>14. CASE AbortTask(j)
    BY <1>14 DEF AbortTask, rows, delivery, worker, handler, Cut, Active, Guarded,
        Writes
  <1>15. CASE ReadJob(j)
    BY <1>15 DEF ReadJob, rows, delivery, worker, handler
  <1>16. CASE RunAsk(j)
    BY <1>16 DEF RunAsk, rows, delivery, worker, handler
  <1>17. CASE Finish(j)
    BY <1>17 DEF Finish, rows, delivery, worker, handler
  <1>18. CASE Reraise(j)
    BY <1>18 DEF Reraise, rows, delivery, worker, handler
  <1>19. CASE DropJob(j)
    BY <1>19 DEF DropJob, Step, Commit, JobAfter, MsgAfter, Writes, delivery, handler
  <1>20. CASE DropMsg(j)
    BY <1>20 DEF DropMsg, Step, Commit, JobAfter, MsgAfter, Writes, delivery, handler
  <1>21. CASE MarkRunning(j)
    BY <1>21 DEF MarkRunning, Step, Commit, JobAfter, MsgAfter, Writes, delivery,
        handler
  <1>22. CASE PersistMessage(j)
    BY <1>22 DEF PersistMessage, Step, Commit, JobAfter, MsgAfter, Writes, delivery,
        handler
  <1>23. CASE CompleteJob(j)
    BY <1>23 DEF CompleteJob, Step, Commit, JobAfter, MsgAfter, Writes, delivery,
        handler
  <1>24. CASE FailJob(j)
    BY <1>24 DEF FailJob, Step, Commit, JobAfter, MsgAfter, Writes, delivery, handler
  <1>25. CASE FailMsg(j)
    BY <1>25 DEF FailMsg, Step, Commit, JobAfter, MsgAfter, Writes, delivery, handler
  <1>26. CASE CancelledJob(j)
    BY <1>26 DEF CancelledJob, Step, Commit, JobAfter, MsgAfter, Writes, delivery,
        handler
  <1>27. CASE CancelledMsg(j)
    BY <1>27 DEF CancelledMsg, Step, Commit, JobAfter, MsgAfter, Writes, delivery,
        handler
  <1>28. CASE OrphanCommits(j)
    BY <1>28 DEF OrphanCommits, Commit, JobAfter, MsgAfter, delivery, handler, Writes
  <1>29. CASE CancelFlag(j)
    BY <1>29 DEF CancelFlag, rows, delivery, worker, handler
  <1>30. CASE CancelAbort(j)
    BY <1>30 DEF CancelAbort, rows, delivery, worker, handler
  <1>31. CASE AbortReturns(j)
    BY <1>31 DEF AbortReturns, rows, delivery, worker, handler
  <1>32. CASE AbortRaises(j)
    BY <1>32 DEF AbortRaises, rows, delivery, worker, handler
  <1>33. CASE CancelMarkJob(j)
    BY <1>33 DEF CancelMarkJob, rows, delivery, worker, handler
  <1>34. CASE CancelMarkMsg(j)
    BY <1>34 DEF CancelMarkMsg, rows, delivery, worker, handler, MsgAfter
  <1>35. CASE EnqueueRaises(j)
    BY <1>35 DEF EnqueueRaises, rows, delivery, worker, handler
  <1>36. CASE HandlerDbFault(j)
    BY <1>36 DEF HandlerDbFault, rows, delivery, worker, handler
  <1>37. CASE InterruptTask(j)
    BY <1>37 DEF InterruptTask, rows, delivery, worker, handler, Cut, Active, Guarded,
        Writes
  <1>38. CASE WorkerDbFault(j)
    BY <1>38 DEF WorkerDbFault, rows, delivery, worker, handler, Guarded, Writes
  <1> QED
    BY <1>1, <1>2, <1>3, <1>4, <1>5, <1>6, <1>7, <1>8, <1>9, <1>10, <1>11,
       <1>12, <1>13, <1>14, <1>15, <1>16, <1>17, <1>18, <1>19, <1>20, <1>21,
       <1>22, <1>23, <1>24, <1>25, <1>26, <1>27, <1>28, <1>29, <1>30, <1>31,
       <1>32, <1>33, <1>34, <1>35, <1>36, <1>37, <1>38
    DEF LocalStep, HandlerStep, ArqStep, WorkerStep, CancelStep, FaultStep

\* The death of a process keeps them for every question.
LEMMA CrashInv ==
    ASSUME TypeOK, IInv, WorkerCrash \/ ApiCrash
    PROVE  IInv'
  <1> SUFFICES ASSUME NEW j \in Jobs
               PROVE  JobInv(j)'
    BY DEF IInv
  <1>0. JobInv(j)
    BY DEF IInv
  <1> USE DEF TypeOK, JobInv, Order, Marks, Story, Owner, Outcome, Settled,
              Excused, Undisturbed, Answered
  <1>1. CASE WorkerCrash
    BY <1>0, <1>1 DEF WorkerCrash, rows, handler
  <1>2. CASE ApiCrash
    BY <1>0, <1>2 DEF ApiCrash, rows, delivery, worker
  <1> QED  BY <1>1, <1>2

LEMMA StepInv ==
    ASSUME TypeOK, IInv, [Next]_vars
    PROVE  IInv'
  <1>1. ASSUME NEW j \in Jobs, LocalStep(j)
        PROVE  IInv'
    <2> SUFFICES ASSUME NEW k \in Jobs
                 PROVE  JobInv(k)'
      BY DEF IInv
    <2>1. JobInv(k)
      BY DEF IInv
    <2>2. CASE k = j
      BY <1>1, <2>1, <2>2, LocalInv
    <2>3. CASE k # j
      BY <1>1, <2>1, <2>3, LocalFrame
      DEF JobInv, Order, Marks, Story, Owner, Outcome, Settled, Excused,
          Undisturbed, Answered
    <2> QED  BY <2>2, <2>3
  <1>2. CASE UNCHANGED vars
    BY <1>2 DEF vars, IInv, JobInv, Order, Marks, Story, Owner, Outcome,
                Settled, Excused, Undisturbed, Answered
  <1> QED  BY <1>1, <1>2, NextCases, CrashInv

\* IInv holds in every reachable state.
THEOREM GenerationInvariant == Spec => []IInv
  <1>1. Init => IInv
    BY DEF Init, IInv, JobInv, Order, Marks, Story, Owner, Outcome, Settled,
           Excused, Undisturbed, Answered
  <1>2. TypeOK /\ IInv /\ [Next]_vars => IInv'
    BY StepInv
  <1> QED  BY <1>1, <1>2, GenerationTypeCorrect, PTL DEF Spec

\* A job reported completed has its answer in the stored message, for any
\* number of questions, redeliveries, deaths and lost Redis replies.
THEOREM CompletedJobIsAnswered == Spec => []CompletedJobHasAnswer
  <1>1. IInv => CompletedJobHasAnswer
    BY DEF IInv, JobInv, Story, CompletedJobHasAnswer
  <1> QED  BY <1>1, GenerationInvariant, PTL

\* A running message still has somebody to settle it, but for the losses the
\* property lists.
THEOREM RunningMessageHasOwner == Spec => []NoStrandedMessage
  <1>1. TypeOK /\ IInv => NoStrandedMessage
    BY DEF TypeOK, IInv, JobInv, Order, Owner, Excused, NoStrandedMessage
  <1> QED  BY <1>1, GenerationTypeCorrect, GenerationInvariant, PTL

\* The worker never finds a job without its row or its placeholder.
THEOREM DeliveryFindsRows == Spec => []DeliveredJobIsRecorded
  <1>1. IInv => DeliveredJobIsRecorded
    BY DEF IInv, JobInv, Order, DeliveredJobIsRecorded
  <1> QED  BY <1>1, GenerationInvariant, PTL
\* At rest the two rows tell one story: nothing ends an entry undisturbed but
\* an attempt that has written both.
THEOREM SettledRowsAgree == Spec => []SettledAgreement
  <1>1. IInv => SettledAgreement
    BY DEF IInv, JobInv, Outcome, Settled, SettledAgreement
  <1> QED  BY <1>1, GenerationInvariant, PTL

-----------------------------------------------------------------------------
\* Only the handler's read of a terminal row turns a reply into an answer,
\* and it reads the row it replies for.
LEMMA AnswerComesFromRow ==
    ASSUME TypeOK, [Next]_vars, NEW k \in Jobs,
           reply[k] # "answer", reply'[k] = "answer"
    PROVE  job[k].status = "completed"
  <1>1. ASSUME NEW j \in Jobs, LocalStep(j), k # j
        PROVE  FALSE
    BY <1>1, LocalFrame
  <1>2. CASE LocalStep(k)
    <2> USE DEF TypeOK, rows, delivery, worker, handler
    <2>1. CASE HandlerStep(k)
      BY <2>1
      DEF HandlerStep, CreateJob, EnqueueJob, MarkUndelivered, AttachJob,
          ReportUnavailable, ReplyTerminal, ReplyRunning
    <2>2. CASE WorkerStep(k)
      BY <2>2
      DEF WorkerStep, ReadJob, RunAsk, Finish, Reraise, DropJob, DropMsg,
          MarkRunning, PersistMessage, CompleteJob, FailJob, FailMsg,
          CancelledJob, CancelledMsg, Step
    <2>3. CASE ArqStep(k) \/ CancelRead(k) \/ CancelStep(k)
      BY <2>3
      DEF ArqStep, Deliver, AbortBeforeStart, GiveUp, AbortTask, Cut,
          CancelRead, CancelStep, CancelFlag, CancelAbort, AbortReturns,
          AbortRaises, CancelMarkJob, CancelMarkMsg
    <2>4. CASE FaultStep(k)
      BY <2>4
      DEF FaultStep, EnqueueRaises, HandlerDbFault, InterruptTask,
          WorkerDbFault, Cut
    <2>5. CASE NewMessage(k) \/ Disconnect(k) \/ OrphanCommits(k)
      BY <2>5 DEF NewMessage, Disconnect, OrphanCommits
    <2> QED  BY <1>2, <2>1, <2>2, <2>3, <2>4, <2>5 DEF LocalStep
  <1>3. CASE WorkerCrash \/ ApiCrash \/ UNCHANGED vars
    BY <1>3 DEF WorkerCrash, ApiCrash, vars, handler, TypeOK
  <1> QED  BY <1>1, <1>2, <1>3, NextCases

\* The HTTP caller is never given an answer that the stored conversation
\* does not hold at that moment.
THEOREM ReplyIsStored == Spec => ReplyAgreesWithMessage
  <1>1. TypeOK /\ IInv /\ [Next]_vars =>
            \A j \in Jobs : reply[j] # "answer" /\ reply'[j] = "answer" =>
                                Answered(j) \/ ~Undisturbed(j)
    BY AnswerComesFromRow DEF IInv, JobInv, Story
  <1> QED  BY <1>1, GenerationTypeCorrect, GenerationInvariant, PTL
           DEF Spec, ReplyAgreesWithMessage

-----------------------------------------------------------------------------
\* A step of a doomed question leaves it doomed: the flag is never lowered,
\* the next attempt drops the job, and no write on its way stores an answer.
LEMMA DoomedStep ==
    ASSUME TypeOK, NEW j \in Jobs, LocalStep(j), Doomed(j)
    PROVE  Doomed(j)'
  <1> USE DEF TypeOK, Doomed, rows, delivery, worker, handler
  <1>0. Doomed(j)' <=>
            /\ job'[j].cancel
            /\ pc'[j] \in {"idle", "read", "dropJob", "dropMsg", "finish",
                           "reraise"}
            /\ "persist" \notin orphan'[j]
            /\ msg'[j].text # "answer"
    OBVIOUS
  <1>1. CASE HandlerStep(j)
    <2>0. \A s \in {"queued", "failed"} :
              [job EXCEPT ![j].status = s][j].cancel = job[j].cancel
      BY DEF JobRow
    <2>1. UNCHANGED worker /\ job'[j].cancel = job[j].cancel
      BY <1>1, <2>0
      DEF HandlerStep, CreateJob, EnqueueJob, MarkUndelivered, AttachJob,
          ReportUnavailable, ReplyTerminal, ReplyRunning
    <2>2. msg'[j].text \in {msg[j].text, "fault"}
      BY <1>1
      DEF HandlerStep, CreateJob, EnqueueJob, MarkUndelivered, AttachJob,
          ReportUnavailable, ReplyTerminal, ReplyRunning, Message
    <2> QED  BY <2>1, <2>2
  <1>2. CASE DropJob(j) \/ DropMsg(j)
    <2>1. PICK w \in {"dropJob", "dropMsg"} :
               /\ Commit(j, w)
               /\ pc' \in {[pc EXCEPT ![j] = "dropMsg"],
                           [pc EXCEPT ![j] = "finish"]}
               /\ UNCHANGED orphan
      BY <1>2 DEF DropJob, DropMsg, Step
    <2>2. JobAfter(w, job[j]).cancel = job[j].cancel
      BY DEF JobAfter, JobRow
    <2>3. MsgAfter(w, msg[j]).text # "answer"
      BY <2>1 DEF MsgAfter
    <2> QED  BY <2>1, <2>2, <2>3 DEF Commit
  <1>3. CASE ReadJob(j) \/ Finish(j) \/ Reraise(j)
    BY <1>3 DEF ReadJob, Finish, Reraise
  <1>4. CASE WorkerStep(j) /\ ~(DropJob(j) \/ DropMsg(j) \/ ReadJob(j)
                                 \/ Finish(j) \/ Reraise(j))
    BY <1>4
    DEF WorkerStep, RunAsk, MarkRunning, PersistMessage, CompleteJob, FailJob,
        FailMsg, CancelledJob, CancelledMsg, Step
  <1>5. CASE ArqStep(j)
    BY <1>5
    DEF ArqStep, Deliver, AbortBeforeStart, GiveUp, AbortTask, Cut, Active,
        Writes, Guarded
  <1>6. CASE CancelRead(j) \/ CancelStep(j)
    <2>1. /\ [job EXCEPT ![j].status = "cancelled"][j].cancel = job[j].cancel
          /\ [job EXCEPT ![j].cancel = TRUE][j].cancel
      BY DEF JobRow
    <2>2. UNCHANGED worker /\ job'[j].cancel
      BY <1>6, <2>1
      DEF CancelRead, CancelStep, CancelFlag, CancelAbort, AbortReturns,
          AbortRaises, CancelMarkJob, CancelMarkMsg
    <2>3. msg'[j].text \in {msg[j].text, "cancelled"}
      BY <1>6
      DEF CancelRead, CancelStep, CancelFlag, CancelAbort, AbortReturns,
          AbortRaises, CancelMarkJob, CancelMarkMsg, MsgAfter
    <2> QED  BY <2>2, <2>3
  <1>7. CASE FaultStep(j)
    BY <1>7
    DEF FaultStep, EnqueueRaises, HandlerDbFault, InterruptTask,
        WorkerDbFault, Cut, Active, Writes, Guarded
  <1>8. CASE OrphanCommits(j)
    <2>1. PICK w \in orphan[j] \ {"persist"} :
               Commit(j, w) /\ orphan' = [orphan EXCEPT ![j] = @ \ {w}]
      BY <1>8 DEF OrphanCommits
    <2>2. MsgAfter(w, msg[j]).text # "answer"
      BY <2>1 DEF MsgAfter
    <2>3. JobAfter(w, job[j]).cancel = job[j].cancel
      BY DEF JobAfter, JobRow
    <2> QED  BY <1>8, <2>1, <2>2, <2>3 DEF OrphanCommits, Commit
  <1>9. CASE NewMessage(j) \/ Disconnect(j)
    BY <1>9 DEF NewMessage, Disconnect
  <1> QED  BY <1>1, <1>2, <1>3, <1>4, <1>5, <1>6, <1>7, <1>8, <1>9
           DEF LocalStep

\* A question cancelled before an attempt has read its row is never
\* answered, whatever is redelivered, retried or left running in a thread.
THEOREM CancelledStaysUnanswered == Spec => CancelBeforeStartHolds
  <1>1. ASSUME TypeOK, [Next]_vars, NEW k \in Jobs, Doomed(k)
        PROVE  Doomed(k)'
    <2>1. ASSUME NEW j \in Jobs, LocalStep(j), k # j
          PROVE  Doomed(k)'
      BY <1>1, <2>1, LocalFrame DEF Doomed
    <2>2. CASE LocalStep(k)
      BY <1>1, <2>2, DoomedStep
    <2>3. CASE WorkerCrash \/ ApiCrash \/ UNCHANGED vars
      BY <1>1, <2>3
      DEF WorkerCrash, ApiCrash, vars, Doomed, TypeOK, rows, delivery, worker,
          handler
    <2> QED  BY <1>1, <2>1, <2>2, <2>3, NextCases
  <1>2. TypeOK /\ [Next]_vars =>
            [\A j \in Jobs : Doomed(j) => Doomed(j)']_vars
    BY <1>1
  <1> QED  BY <1>2, GenerationTypeCorrect, PTL
           DEF Spec, CancelBeforeStartHolds
=============================================================================
