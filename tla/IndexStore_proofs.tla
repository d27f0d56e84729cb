-------------------------- MODULE IndexStore_proofs --------------------------
(***************************************************************************)
(* Proofs about IndexStore for any set of documents, readers and bounds:   *)
(* type correctness; and, when subprocesses write one at a time, that the  *)
(* two stores agree but for interrupted runs, that a finished run holds,   *)
(* and that no publication loses a document.                               *)
(***************************************************************************)
EXTENDS IndexStore, TLAPS

(***************************************************************************)
(* What the stage of an agent says of its run.                             *)
(***************************************************************************)
Shape(a) ==
    /\ a \in Readers =>
          agent[a].op = "none"
          /\ agent[a].stage \in {"boot", "loaded", "ready", "reloading"}
    /\ a \in Slots /\ agent[a].stage # "off" =>
          agent[a].op \in {"ingest", "erase"} /\ agent[a].doc \in Docs
    /\ agent[a].stage \in {"chunked", "inserted"} => agent[a].op = "ingest"
    /\ agent[a].stage \in {"scanned", "unvectored"} => agent[a].op = "erase"

Typed == TypeOK /\ \A a \in Agents : Shape(a)

(***************************************************************************)
(* WorkerSettings.max_jobs = 1: a subprocess has ended before the next one *)
(* starts.                                                                 *)
(***************************************************************************)
OneWriter ==
    \A s, t \in Slots :
        s = t \/ agent[s].stage = "off" \/ agent[t].stage = "off"

\* Where a run stands, the stores are what its earlier steps left.
Writer(s) ==
    LET my == agent[s]
    IN  /\ my.stage \in {"loaded", "ready"} =>
              my.store = disk.nodes /\ my.nodes = disk.nodes
        /\ my.stage = "ready" => my.seen = disk.stamp
        /\ my.stage \notin {"reloading", "fresh"}
        /\ my.stage \in {"chunked", "inserted", "published"}
           /\ my.op = "ingest" => my.chunks = ChunksOf(my.doc, runs[my.doc])
        /\ my.stage \in {"chunked", "inserted"} =>
              my.store = disk.nodes \cup my.chunks
        /\ my.stage = "inserted" => my.chunks \subseteq vectors
        /\ my.stage \in {"scanned", "unvectored"} =>
              my.chunks = disk.nodes \cap NodesOf(my.doc)
        /\ my.stage = "scanned" => my.store = disk.nodes
        /\ my.stage = "unvectored" =>
              my.store = disk.nodes \ my.chunks /\ my.chunks \cap vectors = {}
        /\ my.stage = "published" /\ my.op = "ingest" =>
              my.chunks \subseteq vectors \cap disk.nodes
        /\ my.stage = "published" /\ my.op = "erase" =>
              /\ disk.nodes \cap NodesOf(my.doc) = {}
              /\ <<"ingest", my.doc>> \in torn
                 \/ vectors \cap NodesOf(my.doc) = {}
        /\ my.stage # "off" => last[my.doc] = "none"

\* Every difference between the stores has its run.
Explained ==
    /\ \A n \in vectors \ disk.nodes :
          \/ <<"ingest", n[1]>> \in torn
          \/ \E s \in Slots :
                agent[s].stage = "inserted" /\ n \in agent[s].chunks
    /\ \A n \in disk.nodes \ vectors :
          \/ <<"erase", n[1]>> \in torn
          \/ \E s \in Slots :
                agent[s].stage = "unvectored" /\ n \in agent[s].chunks

StoresInv == (\A s \in Slots : Writer(s)) /\ Explained /\ FinishedRunHolds

\* A reader that was up before the first write.
Follows(r) ==
    /\ agent[r].stage \in {"ready", "reloading"}
    /\ agent[r].seen <= disk.stamp /\ agent[r].want <= disk.stamp
    /\ agent[r].seen = disk.stamp => agent[r].nodes = disk.nodes

Readable == \A r \in Readers : Follows(r)

-----------------------------------------------------------------------------
(***************************************************************************)
(* Lemmas about the operators of the model.                                *)
(***************************************************************************)

\* NodesOf(d) is what belongs to d, and a run's chunks are nodes of its
\* document.
LEMMA NodeOwner ==
    ASSUME NEW d \in Docs
    PROVE  /\ NodesOf(d) \subseteq Node
           /\ \A n \in Node : n \in NodesOf(d) <=> n[1] = d
           /\ \A run \in 0 .. MaxRuns : ChunksOf(d, run) \subseteq NodesOf(d)
    BY IndexAssumption DEF NodesOf, Node, ChunksOf

\* Goes replaces one agent.
LEMMA GoesFrame ==
    ASSUME agent \in [Agents -> Agent], NEW a \in Agents, NEW state,
           Goes(a, state)
    PROVE  /\ agent'[a] = state
           /\ \A b \in Agents \ {a} : agent'[b] = agent[b]
           /\ state \in Agent => agent' \in [Agents -> Agent]
    BY DEF Goes

LEMMA OffType == Off \in Agent
    BY DEF Off, Agent

\* The three disjuncts of Next, with those of Run and Failure flattened.
AgentStep(a) == Run(a) \/ Failure(a)
SlotStep(s) ==
    Kill(s) \/ \E d \in Docs : StartIngest(s, d) \/ StartErase(s, d)

LEMMA NextCases ==
    ASSUME [Next]_vars
    PROVE  \/ \E a \in Agents : AgentStep(a)
           \/ \E s \in Slots : SlotStep(s)
           \/ UNCHANGED vars
    BY DEF Next, AgentStep, SlotStep, Idle

-----------------------------------------------------------------------------
(***************************************************************************)
(* Type correctness.  Shape is needed with it: a run names the document    *)
(* whose chunks it makes, and only a run marks a document torn.            *)
(***************************************************************************)

\* A counted fault stays in the budget.
LEMMA FaultType == ASSUME TypeOK, Fault PROVE faults' \in 0 .. MaxFaults
    BY IndexAssumption DEF TypeOK, Fault

\* A run that ends leaves an empty slot.
LEMMA EndsType ==
    ASSUME TypeOK, NEW s \in Slots, NEW code \in {"ok", "error", "killed"},
           Ends(s, code)
    PROVE  /\ agent' \in [Agents -> Agent]
           /\ agent'[s] = Off
           /\ \A b \in Agents \ {s} : agent'[b] = agent[b]
           /\ Shape(s)'
           /\ exit' \in [Slots -> {"none", "ok", "error", "killed"}]
  <1>1. s \in Agents /\ s \notin Readers /\ agent \in [Agents -> Agent]
    BY IndexAssumption DEF Agents, TypeOK
  <1>2. agent'[s] = Off /\ agent' \in [Agents -> Agent]
        /\ \A b \in Agents \ {s} : agent'[b] = agent[b]
    BY <1>1, GoesFrame, OffType DEF Ends
  <1>3. Shape(s)'
    BY <1>1, <1>2 DEF Shape, Off
  <1>4. exit' \in [Slots -> {"none", "ok", "error", "killed"}]
    BY DEF Ends, TypeOK
  <1> QED  BY <1>1, <1>2, <1>3, <1>4

\* A step of an agent keeps the types.
LEMMA AgentType ==
    ASSUME Typed, NEW a \in Agents, AgentStep(a)
    PROVE  Typed'
  <1> DEFINE my == agent[a]
             new == ChunksOf(my.doc, runs[my.doc])
             found == my.nodes \cap NodesOf(my.doc)
  <1> SUFFICES TypeOK' /\ Shape(a)' /\ \A b \in Agents \ {a} : agent'[b] = agent[b]
    BY DEF Typed, Shape
  <1>0. my \in Agent /\ TypeOK /\ Shape(a) /\ (a \in Slots \/ a \in Readers)
        /\ agent \in [Agents -> Agent]
    BY DEF Typed, TypeOK, Agents
  <1>a. ASSUME my.op # "none"
        PROVE  a \in Slots /\ my.op \in {"ingest", "erase"}
               /\ (my.stage # "off" => my.doc \in Docs)
    BY <1>0, <1>a DEF Shape, Agent
  <1>b. ASSUME NEW state \in Agent, Goes(a, state)
        PROVE  /\ agent' \in [Agents -> Agent] /\ agent'[a] = state
               /\ \A b \in Agents \ {a} : agent'[b] = agent[b]
    BY <1>0, <1>b, GoesFrame
  <1>c. ASSUME NEW part \in SUBSET my.chunks
        PROVE  vectors \cup part \subseteq Node
    BY <1>0 DEF TypeOK, Agent
  <1> USE <1>0
  <1>1. CASE LoadStore(a)
    <2>1. [my EXCEPT !.stage = "loaded", !.store = disk.nodes,
                     !.nodes = disk.nodes] \in Agent
      BY DEF Agent, TypeOK
    <2> QED  BY <1>1, <1>b, <2>1
             DEF LoadStore, TypeOK, Shape, Agent, stores, counters, history
  <1>2. CASE RecordMtime(a)
    <2>1. [my EXCEPT !.stage = "ready", !.seen = disk.stamp] \in Agent
      BY DEF Agent, TypeOK
    <2> QED  BY <1>2, <1>b, <2>1
             DEF RecordMtime, TypeOK, Shape, Agent, stores, counters, history
  <1>3. CASE RefreshStat(a)
    <2>1. [my EXCEPT !.stage = "reloading", !.want = disk.stamp] \in Agent
      BY DEF Agent, TypeOK
    <2> QED  BY <1>3, <1>b, <2>1
             DEF RefreshStat, TypeOK, Shape, Agent, stores, counters, history
  <1>4. CASE Reload(a)
    <2>1. [my EXCEPT !.stage = Refreshed(a), !.store = disk.nodes,
                     !.nodes = disk.nodes, !.seen = my.want] \in Agent
      BY DEF Agent, TypeOK, Refreshed
    <2> QED  BY <1>4, <1>b, <2>1
             DEF Reload, Refreshed, TypeOK, Shape, Agent, stores, counters,
                 history
  <1>5. CASE ReloadFails(a)
    <2>1. [my EXCEPT !.stage = Refreshed(a)] \in Agent
      BY DEF Agent, TypeOK, Refreshed
    <2> QED  BY <1>5, <1>b, <2>1, FaultType
             DEF ReloadFails, Refreshed, TypeOK, Shape, Agent, stores,
                 counters, history
  <1>6. CASE Chunk(a)
    <2>1. my.doc \in Docs /\ a \in Slots
      BY <1>6, <1>a DEF Chunk
    <2>2. new \subseteq Node
      BY <2>1, NodeOwner DEF TypeOK
    <2>3. [my EXCEPT !.stage = "chunked", !.chunks = new,
                     !.store = @ \cup new] \in Agent
      BY <2>2 DEF Agent
    <2> QED  BY <1>6, <1>b, <2>1, <2>3, IndexAssumption
             DEF Chunk, TypeOK, Shape, Agent, stores, counters, history
  <1>7. CASE ChunkFails(a)
    BY <1>7, <1>a, EndsType, FaultType
    DEF ChunkFails, TypeOK, stores, counters, history
  <1>8. CASE InsertVectors(a)
    <2>1. [my EXCEPT !.stage = "inserted"] \in Agent
      BY DEF Agent
    <2>2. vectors' \subseteq Node
      BY <1>8, <1>c DEF InsertVectors
    <2> QED  BY <1>8, <1>b, <2>1, <2>2
             DEF InsertVectors, TypeOK, Shape, Agent, counters, history
  <1>9. CASE InsertFails(a)
    <2>1. my.op = "ingest" /\ my.stage # "off"
      BY <1>9 DEF InsertFails, Shape
    <2>2. vectors' \subseteq Node
      BY <1>9, <1>c DEF InsertFails
    <2>3. torn' \subseteq {"ingest", "erase"} \X Docs
      BY <1>9, <1>a, <2>1 DEF InsertFails, TypeOK
    <2> QED  BY <1>9, <1>a, <2>1, <2>2, <2>3, EndsType, FaultType
             DEF InsertFails, TypeOK, counters
  <1>10. CASE Publish(a)
    <2>1. [my EXCEPT !.stage = "published"] \in Agent
      BY DEF Agent
    <2>2. disk' \in [stamp : Nat, nodes : SUBSET Node]
      BY <1>10 DEF Publish, TypeOK, Agent
    <2> QED  BY <1>10, <1>b, <2>1, <2>2
             DEF Publish, TypeOK, Shape, Agent, counters, history
  <1>11. CASE PublishFails(a)
    <2>1. my.op \in {"ingest", "erase"} /\ my.stage # "off"
      BY <1>11 DEF PublishFails, Shape
    <2>2. torn' \subseteq {"ingest", "erase"} \X Docs
      BY <1>11, <1>a, <2>1 DEF PublishFails, TypeOK
    <2> QED  BY <1>11, <1>a, <2>1, <2>2, EndsType, FaultType
             DEF PublishFails, TypeOK, stores, counters
  <1>12. CASE Complete(a)
    <2>1. a \in Slots
      BY <1>12 DEF Complete, Shape
    <2>2. last' \in [Docs -> {"none", "ingest", "erase"}]
      BY <1>12 DEF Complete, TypeOK, Agent
    <2> QED  BY <1>12, <2>1, <2>2, EndsType
             DEF Complete, TypeOK, stores, counters
  <1>13. CASE Scan(a)
    <2>0. a \in Slots /\ UNCHANGED <<vectors, disk, runs, erases, faults, torn>>
      BY <1>13, <1>a DEF Scan, stores, counters
    <2>1. CASE Goes(a, [my EXCEPT !.stage = "scanned", !.chunks = found])
               /\ UNCHANGED <<exit, last>>
      <3>1. [my EXCEPT !.stage = "scanned", !.chunks = found] \in Agent
        BY DEF Agent
      <3> QED  BY <1>13, <1>a, <1>b, <2>0, <2>1, <3>1, IndexAssumption
               DEF Scan, TypeOK, Shape, Agent
    <2>2. CASE Ends(a, "ok")
               /\ last' = [last EXCEPT ![agent[a].doc] = "erase"]
      BY <2>0, <2>2, EndsType DEF TypeOK
    <2> QED  BY <1>13, <2>1, <2>2 DEF Scan
  <1>14. CASE DeleteVectors(a)
    <2>1. [my EXCEPT !.stage = "unvectored", !.store = @ \ my.chunks] \in Agent
      BY DEF Agent
    <2>2. vectors' \subseteq Node
      BY <1>14 DEF DeleteVectors, TypeOK
    <2> QED  BY <1>14, <1>b, <2>1, <2>2
             DEF DeleteVectors, TypeOK, Shape, Agent, counters, history
  <1>15. CASE DeleteFails(a)
    <2>1. my.op = "erase" /\ my.stage # "off"
      BY <1>15 DEF DeleteFails, Shape
    <2> QED  BY <1>15, <1>a, <2>1, EndsType, FaultType
             DEF DeleteFails, TypeOK, stores, counters, history
  <1> QED
    BY <1>1, <1>2, <1>3, <1>4, <1>5, <1>6, <1>7, <1>8, <1>9, <1>10, <1>11,
       <1>12, <1>13, <1>14, <1>15
    DEF AgentStep, Run, Failure

\* What a step of a subprocess does to its slot: the run goes on, or it stops;
\* if it stops with success it leaves its name in last.
GoesOn(s) ==
    /\ agent'[s].stage # "off"
    /\ agent'[s].op = agent[s].op /\ agent'[s].doc = agent[s].doc
    /\ UNCHANGED <<exit, last>>
    /\ agent'[s].stage = "chunked" => agent[s].stage = "ready"
    /\ agent'[s].stage = "inserted" => agent[s].stage = "chunked"

Stops(s) ==
    /\ agent'[s].stage = "off" /\ exit'[s] \in {"ok", "error"}
    /\ \A t \in Slots \ {s} : exit'[t] = exit[t]
    /\ last' = IF exit'[s] = "ok" THEN [last EXCEPT ![agent[s].doc] = agent[s].op]
                                 ELSE last

LEMMA AgentEffect ==
    ASSUME Typed, NEW s \in Slots, AgentStep(s)
    PROVE  /\ UNCHANGED counters /\ agent[s].stage # "off"
           /\ \A t \in Agents \ {s} : agent'[t] = agent[t]
           /\ GoesOn(s) \/ Stops(s)
  <1> DEFINE my == agent[s]
  <1>0. s \in Agents /\ s \notin Readers /\ agent \in [Agents -> Agent]
        /\ my \in Agent /\ TypeOK
        /\ exit \in [Slots -> {"none", "ok", "error", "killed"}]
    BY IndexAssumption DEF Agents, Typed, TypeOK
  <1>1. CASE LoadStore(s)
    <2>1. agent' = [agent EXCEPT ![s] =
                  [my EXCEPT !.stage = "loaded", !.store = disk.nodes,
                             !.nodes = disk.nodes]]
      BY <1>1 DEF LoadStore, Goes
    <2>2. agent'[s] = [my EXCEPT !.stage = "loaded", !.store = disk.nodes,
                             !.nodes = disk.nodes]
          /\ \A t \in Agents \ {s} : agent'[t] = agent[t]
      BY <1>0, <2>1
    <2> QED  BY <1>0, <1>1, <2>2
             DEF LoadStore, GoesOn, Agent, counters, history
  <1>2. CASE RecordMtime(s)
    <2>1. agent' = [agent EXCEPT ![s] =
                  [my EXCEPT !.stage = "ready", !.seen = disk.stamp]]
      BY <1>2 DEF RecordMtime, Goes
    <2>2. agent'[s] = [my EXCEPT !.stage = "ready", !.seen = disk.stamp]
          /\ \A t \in Agents \ {s} : agent'[t] = agent[t]
      BY <1>0, <2>1
    <2> QED  BY <1>0, <1>2, <2>2
             DEF RecordMtime, GoesOn, Agent, counters, history
  <1>3. CASE RefreshStat(s)
    <2>1. agent' = [agent EXCEPT ![s] =
                  [my EXCEPT !.stage = "reloading", !.want = disk.stamp]]
      BY <1>3 DEF RefreshStat, Goes
    <2>2. agent'[s] = [my EXCEPT !.stage = "reloading", !.want = disk.stamp]
          /\ \A t \in Agents \ {s} : agent'[t] = agent[t]
      BY <1>0, <2>1
    <2> QED  BY <1>0, <1>3, <2>2
             DEF RefreshStat, GoesOn, Agent, counters, history
  <1>4. CASE Reload(s)
    <2>1. agent' = [agent EXCEPT ![s] =
                  [my EXCEPT !.stage = Refreshed(s), !.store = disk.nodes,
                             !.nodes = disk.nodes, !.seen = my.want]]
      BY <1>4 DEF Reload, Goes
    <2>2. agent'[s] = [my EXCEPT !.stage = Refreshed(s), !.store = disk.nodes,
                             !.nodes = disk.nodes, !.seen = my.want]
          /\ \A t \in Agents \ {s} : agent'[t] = agent[t]
      BY <1>0, <2>1
    <2> QED  BY <1>0, <1>4, <2>2
             DEF Reload, GoesOn, Agent, counters, history, Refreshed
  <1>5. CASE ReloadFails(s)
    <2>1. agent' = [agent EXCEPT ![s] =
                  [my EXCEPT !.stage = Refreshed(s)]]
      BY <1>5 DEF ReloadFails, Goes
    <2>2. agent'[s] = [my EXCEPT !.stage = Refreshed(s)]
          /\ \A t \in Agents \ {s} : agent'[t] = agent[t]
      BY <1>0, <2>1
    <2> QED  BY <1>0, <1>5, <2>2
             DEF ReloadFails, GoesOn, Agent, counters, history, Refreshed
  <1>6. CASE Chunk(s)
    <2>1. agent' = [agent EXCEPT ![s] =
                  [my EXCEPT !.stage = "chunked",
                    !.chunks = ChunksOf(my.doc, runs[my.doc]),
                    !.store = @ \cup ChunksOf(my.doc, runs[my.doc])]]
      BY <1>6 DEF Chunk, Goes
    <2>2. agent'[s] = [my EXCEPT !.stage = "chunked",
                    !.chunks = ChunksOf(my.doc, runs[my.doc]),
                    !.store = @ \cup ChunksOf(my.doc, runs[my.doc])]
          /\ \A t \in Agents \ {s} : agent'[t] = agent[t]
      BY <1>0, <2>1
    <2> QED  BY <1>0, <1>6, <2>2
             DEF Chunk, GoesOn, Agent, counters, history
  <1>7. CASE InsertVectors(s)
    <2>1. agent' = [agent EXCEPT ![s] =
                  [my EXCEPT !.stage = "inserted"]]
      BY <1>7 DEF InsertVectors, Goes
    <2>2. agent'[s] = [my EXCEPT !.stage = "inserted"]
          /\ \A t \in Agents \ {s} : agent'[t] = agent[t]
      BY <1>0, <2>1
    <2> QED  BY <1>0, <1>7, <2>2
             DEF InsertVectors, GoesOn, Agent, counters, history
  <1>8. CASE Publish(s)
    <2>1. agent' = [agent EXCEPT ![s] =
                  [my EXCEPT !.stage = "published"]]
      BY <1>8 DEF Publish, Goes
    <2>2. agent'[s] = [my EXCEPT !.stage = "published"]
          /\ \A t \in Agents \ {s} : agent'[t] = agent[t]
      BY <1>0, <2>1
    <2> QED  BY <1>0, <1>8, <2>2
             DEF Publish, GoesOn, Agent, counters, history
  <1>9. CASE DeleteVectors(s)
    <2>1. agent' = [agent EXCEPT ![s] =
                  [my EXCEPT !.stage = "unvectored", !.store = @ \ my.chunks]]
      BY <1>9 DEF DeleteVectors, Goes
    <2>2. agent'[s] = [my EXCEPT !.stage = "unvectored", !.store = @ \ my.chunks]
          /\ \A t \in Agents \ {s} : agent'[t] = agent[t]
      BY <1>0, <2>1
    <2> QED  BY <1>0, <1>9, <2>2
             DEF DeleteVectors, GoesOn, Agent, counters, history
  <1>10. ASSUME NEW code \in {"ok", "error"}, Ends(s, code)
         PROVE  /\ \A t \in Agents \ {s} : agent'[t] = agent[t]
                /\ \A t \in Slots \ {s} : exit'[t] = exit[t]
                /\ agent'[s].stage = "off" /\ exit'[s] = code
    <2>1. agent'[s] = Off /\ \A t \in Agents \ {s} : agent'[t] = agent[t]
      BY <1>0, <1>10, EndsType
    <2> QED  BY <1>0, <1>10, <2>1 DEF Ends, Off
  <1>11. CASE ChunkFails(s) \/ InsertFails(s) \/ PublishFails(s)
              \/ DeleteFails(s)
    <2>1. Ends(s, "error") /\ UNCHANGED <<counters, last>>
          /\ my.stage # "off"
      BY <1>11
      DEF ChunkFails, InsertFails, PublishFails, DeleteFails, history
    <2> QED  BY <1>10, <2>1 DEF Stops
  <1>12. CASE Complete(s)
    <2>1. /\ Ends(s, "ok") /\ UNCHANGED counters /\ my.stage # "off"
          /\ last' = [last EXCEPT ![my.doc] = my.op]
      BY <1>12 DEF Complete
    <2> QED  BY <1>10, <2>1 DEF Stops
  <1>13. CASE Scan(s)
    <2>1. CASE UNCHANGED <<exit, last>>
               /\ Goes(s, [my EXCEPT !.stage = "scanned",
                               !.chunks = my.nodes \cap NodesOf(my.doc)])
      <3>1. agent'[s] = [my EXCEPT !.stage = "scanned",
                             !.chunks = my.nodes \cap NodesOf(my.doc)]
            /\ \A t \in Agents \ {s} : agent'[t] = agent[t]
        BY <1>0, <2>1 DEF Goes
      <3> QED  BY <1>0, <1>13, <2>1, <3>1 DEF Scan, GoesOn, Agent, counters
    <2>2. CASE Ends(s, "ok") /\ last' = [last EXCEPT ![my.doc] = "erase"]
      <3>1. UNCHANGED counters /\ my.stage # "off" /\ my.op = "erase"
        BY <1>13 DEF Scan
      <3> QED  BY <1>10, <2>2, <3>1 DEF Stops
    <2> QED  BY <1>13, <2>1, <2>2 DEF Scan
  <1> QED
    BY <1>1, <1>2, <1>3, <1>4, <1>5, <1>6, <1>7, <1>8, <1>9, <1>11, <1>12,
       <1>13
    DEF AgentStep, Run, Failure

\* So does the termination of any number of subprocesses, which is what a
\* cancellation, a timeout, a shutdown and a crash of the worker come to.
LEMMA TerminateType ==
    ASSUME Typed, NEW S \in SUBSET Slots, Terminate(S),
           faults' \in 0 .. MaxFaults
    PROVE  Typed'
  <1>0. TypeOK /\ \A a \in Agents : Shape(a) /\ agent[a] \in Agent
    BY DEF Typed, TypeOK
  <1>1. \A a \in Agents : agent'[a] = IF a \in S THEN Off ELSE agent[a]
    BY DEF Terminate
  <1>2. agent' \in [Agents -> Agent]
    BY <1>0, OffType DEF Terminate
  <1>3. ASSUME NEW a \in Agents
        PROVE  Shape(a)'
    BY <1>0, <1>1, IndexAssumption DEF Shape, Off
  <1>4. exit' \in [Slots -> {"none", "ok", "error", "killed"}]
    BY <1>0 DEF Terminate, TypeOK
  <1>5. vectors' \subseteq Node
    BY <1>0 DEF Terminate, TypeOK, Agent, Agents
  <1>6. torn' \subseteq {"ingest", "erase"} \X Docs
    <2>1. ASSUME NEW s \in Slots, agent[s].stage # "off"
          PROVE  <<agent[s].op, agent[s].doc>> \in {"ingest", "erase"} \X Docs
      BY <1>0, <2>1 DEF Shape, Agents
    <2> QED  BY <1>0, <2>1 DEF Terminate, TypeOK
  <1> QED  BY <1>0, <1>2, <1>3, <1>4, <1>5, <1>6
           DEF Terminate, Typed, TypeOK, counters

\* And the start of a subprocess.
LEMMA StartType ==
    ASSUME Typed, NEW s \in Slots, NEW d \in Docs,
           StartIngest(s, d) \/ StartErase(s, d)
    PROVE  Typed'
  <1>0. TypeOK /\ s \in Agents /\ s \notin Readers
        /\ agent \in [Agents -> Agent]
    BY IndexAssumption DEF Typed, TypeOK, Agents
  <1>1. PICK op \in {"ingest", "erase"} :
             Goes(s, [Off EXCEPT !.stage = "boot", !.op = op, !.doc = d])
    BY DEF StartIngest, StartErase
  <1>2. [Off EXCEPT !.stage = "boot", !.op = op, !.doc = d] \in Agent
    BY OffType DEF Agent
  <1>3. /\ agent' \in [Agents -> Agent]
        /\ agent'[s] = [Off EXCEPT !.stage = "boot", !.op = op, !.doc = d]
        /\ \A b \in Agents \ {s} : agent'[b] = agent[b]
    BY <1>0, <1>1, <1>2, GoesFrame
  <1>4. ASSUME NEW a \in Agents
        PROVE  Shape(a)'
    <2>1. CASE a = s
      <3>1. agent'[s].stage = "boot" /\ agent'[s].op = op /\ agent'[s].doc = d
        BY <1>3 DEF Off
      <3> QED  BY <1>0, <2>1, <3>1 DEF Shape
    <2>2. CASE a # s
      BY <1>3, <2>2 DEF Typed, Shape
    <2> QED  BY <2>1, <2>2
  <1>5. runs' \in [Docs -> 0 .. MaxRuns] /\ erases' \in [Docs -> 0 .. MaxErases]
    BY <1>0, IndexAssumption
    DEF StartIngest, StartErase, TypeOK
  <1>6. /\ exit' \in [Slots -> {"none", "ok", "error", "killed"}]
        /\ last' \in [Docs -> {"none", "ingest", "erase"}]
        /\ UNCHANGED <<vectors, disk, faults, torn>>
    BY <1>0 DEF StartIngest, StartErase, TypeOK, stores
  <1> QED  BY <1>0, <1>3, <1>4, <1>5, <1>6 DEF Typed, TypeOK

LEMMA TypedStep == ASSUME Typed, [Next]_vars PROVE Typed'
  <1>1. ASSUME NEW s \in Slots, Kill(s)
        PROVE  Typed'
    BY <1>1, TerminateType, FaultType DEF Kill, Typed
  <1>2. CASE UNCHANGED vars
    BY <1>2 DEF vars, Typed, TypeOK, Shape
  <1> QED  BY <1>1, <1>2, NextCases, AgentType, StartType DEF SlotStep

LEMMA TypedInit == Init => Typed
  <1> SUFFICES ASSUME Init
               PROVE  Typed
    OBVIOUS
  <1>1. \A st \in {"off", "ready", "boot"} :
            [Off EXCEPT !.stage = st] \in Agent
    BY OffType DEF Agent
  <1>2. agent \in [Agents -> Agent]
    BY <1>1 DEF Init
  <1>3. \A a \in Agents : Shape(a)
    BY IndexAssumption DEF Init, Shape, Off, Agents
  <1> QED  BY <1>2, <1>3, IndexAssumption DEF Init, Typed, TypeOK

\* The stores, the agents and the history stay in their types, and an agent
\* is only ever at a stage of the run it was started for.
THEOREM IndexTyped == Spec => []Typed
  <1>1. Typed /\ [Next]_vars => Typed'
    BY TypedStep
  <1> QED  BY <1>1, TypedInit, PTL DEF Spec

\* Type correctness of the index.
THEOREM IndexTypeCorrect == Spec => []TypeOK
  <1>1. Typed => TypeOK
    BY DEF Typed
  <1> QED  BY <1>1, IndexTyped, PTL

-----------------------------------------------------------------------------
(***************************************************************************)
(* The stores, when subprocesses write one at a time.                      *)
(***************************************************************************)

\* The chunks a run stands on belong to its document.
LEMMA ChunksOfRun ==
    ASSUME Typed, NEW s \in Slots, Writer(s)
    PROVE  /\ agent[s].stage \in {"chunked", "inserted", "scanned", "unvectored"}
              => agent[s].chunks \subseteq NodesOf(agent[s].doc)
           /\ agent[s].stage = "published" /\ agent[s].op = "ingest" =>
              agent[s].chunks \subseteq NodesOf(agent[s].doc)
  <1>1. agent[s].stage # "off" => agent[s].doc \in Docs
        /\ runs[agent[s].doc] \in 0 .. MaxRuns
    BY DEF Typed, TypeOK, Shape, Agents
  <1>2. agent[s].stage \in {"chunked", "inserted"} => agent[s].op = "ingest"
    BY DEF Typed, Shape, Agents
  <1> QED  BY <1>1, <1>2, NodeOwner DEF Writer

\* The stores of the other documents are as they were.
OthersKeep(d) ==
    \A x \in Docs \ {d} :
        /\ disk'.nodes \cap NodesOf(x) = disk.nodes \cap NodesOf(x)
        /\ vectors' \cap NodesOf(x) = vectors \cap NodesOf(x)

\* A subprocess writes nodes of its own document only: an ingestion adds to
\* the stores and an erasure takes from them.
LEMMA WriterEffect ==
    ASSUME Typed, NEW s \in Slots, Writer(s), AgentStep(s)
    PROVE  /\ OthersKeep(agent[s].doc)
           /\ agent[s].op = "ingest" =>
                  vectors \subseteq vectors' /\ disk.nodes \subseteq disk'.nodes
           /\ agent[s].op = "erase" => disk'.nodes \subseteq disk.nodes
           /\ disk'.nodes # disk.nodes =>
                  agent[s].stage \in {"inserted", "unvectored"}
  <1> DEFINE my == agent[s]
  <1>0. /\ my.stage # "off" => my.doc \in Docs /\ my.op \in {"ingest", "erase"}
        /\ my.stage \in {"chunked", "inserted"} => my.op = "ingest"
        /\ my.stage \in {"scanned", "unvectored"} => my.op = "erase"
        /\ my.stage \in {"chunked", "inserted", "scanned", "unvectored"} =>
              my.chunks \subseteq NodesOf(my.doc)
    BY ChunksOfRun DEF Typed, Shape, Agents
  <1>1. my.doc \in Docs => \A x \in Docs \ {my.doc} :
            NodesOf(x) \cap NodesOf(my.doc) = {}
    BY NodeOwner DEF NodesOf
  <1>2. my.stage # "off"
    BY AgentEffect
  <1>3. CASE UNCHANGED stores
    BY <1>3 DEF stores, OthersKeep
  <1>4. CASE InsertVectors(s) \/ InsertFails(s)
    <2>1. /\ my.stage = "chunked" /\ disk' = disk
          /\ vectors \subseteq vectors' /\ vectors' \subseteq vectors \cup my.chunks
      BY <1>4 DEF InsertVectors, InsertFails
    <2> QED  BY <1>0, <1>1, <2>1 DEF OthersKeep
  <1>5. CASE DeleteVectors(s)
    BY <1>0, <1>1, <1>5 DEF DeleteVectors, OthersKeep
  <1>6. CASE Publish(s)
    <2>1. /\ vectors' = vectors /\ disk'.nodes = my.store
          /\ \/ my.stage = "inserted" /\ my.store = disk.nodes \cup my.chunks
             \/ my.stage = "unvectored" /\ my.store = disk.nodes \ my.chunks
      BY <1>6 DEF Publish, Writer
    <2> QED  BY <1>0, <1>1, <2>1 DEF OthersKeep
  <1>7. ~UNCHANGED stores =>
            InsertVectors(s) \/ InsertFails(s) \/ DeleteVectors(s) \/ Publish(s)
    BY DEF AgentStep, Run, Failure, LoadStore, RecordMtime, RefreshStat, Reload,
        Chunk, Complete, Scan, ReloadFails, ChunkFails, PublishFails,
        DeleteFails
  <1> QED  BY <1>3, <1>4, <1>5, <1>6, <1>7

\* What Explained says of the one subprocess that runs.
LEMMA ExplainedByRun ==
    ASSUME Explained, OneWriter, NEW s \in Slots, agent[s].stage # "off"
    PROVE  /\ \A n \in vectors \ disk.nodes :
                 \/ <<"ingest", n[1]>> \in torn
                 \/ agent[s].stage = "inserted" /\ n \in agent[s].chunks
           /\ \A n \in disk.nodes \ vectors :
                 \/ <<"erase", n[1]>> \in torn
                 \/ agent[s].stage = "unvectored" /\ n \in agent[s].chunks
  <1>1. \A t \in Slots : agent[t].stage # "off" => t = s
    BY DEF OneWriter
  <1> QED  BY <1>1 DEF Explained

\* A step of a subprocess that is the only one keeps the stores' invariant.
LEMMA WriterStep ==
    ASSUME Typed, StoresInv, OneWriter, NEW s \in Slots, AgentStep(s)
    PROVE  StoresInv'
  <1> DEFINE my == agent[s]
             new == ChunksOf(my.doc, runs[my.doc])
             found == my.nodes \cap NodesOf(my.doc)
  <1>0. /\ TypeOK /\ Shape(s) /\ s \in Agents /\ s \notin Readers
        /\ my \in Agent /\ agent \in [Agents -> Agent]
        /\ Writer(s) /\ Explained /\ FinishedRunHolds
    BY IndexAssumption DEF Typed, TypeOK, Agents, StoresInv
  <1>1. my.stage # "off"
    BY DEF AgentStep, Run, Failure, LoadStore, RecordMtime, RefreshStat,
           Reload, Chunk, InsertVectors, Publish, Complete, Scan,
           DeleteVectors, ReloadFails, ChunkFails, InsertFails, PublishFails,
           DeleteFails
  <1>2. /\ my.doc \in Docs /\ my.op \in {"ingest", "erase"}
        /\ runs[my.doc] \in 0 .. MaxRuns
        /\ my.stage \in {"chunked", "inserted"} => my.op = "ingest"
        /\ my.stage \in {"scanned", "unvectored"} => my.op = "erase"
    BY <1>0, <1>1 DEF Shape, TypeOK
  <1>3. \A t \in Slots \ {s} : agent[t].stage = "off"
    BY <1>1 DEF OneWriter
  <1>4. /\ \A n \in vectors \ disk.nodes :
              \/ <<"ingest", n[1]>> \in torn
              \/ my.stage = "inserted" /\ n \in my.chunks
        /\ \A n \in disk.nodes \ vectors :
              \/ <<"erase", n[1]>> \in torn
              \/ my.stage = "unvectored" /\ n \in my.chunks
    BY <1>0, <1>1, ExplainedByRun
  <1>5. /\ my.stage \in {"chunked", "inserted", "scanned", "unvectored"}
              => my.chunks \subseteq NodesOf(my.doc)
        /\ my.stage = "published" /\ my.op = "ingest" =>
              my.chunks \subseteq NodesOf(my.doc)
    BY <1>0, ChunksOfRun
  <1>6. /\ \A n \in Node : n \in NodesOf(my.doc) <=> n[1] = my.doc
        /\ \A d \in Docs : NodesOf(d) \subseteq Node
        /\ \A d \in Docs, n \in Node : n \in NodesOf(d) <=> n[1] = d
        /\ \A d \in Docs : ChunksOf(d, runs[d]) \subseteq NodesOf(d)
        /\ vectors \subseteq Node /\ disk.nodes \subseteq Node
    BY <1>0, <1>2, NodeOwner DEF TypeOK
  <1>7. last[my.doc] = "none"
    BY <1>0, <1>1 DEF Writer
  <1>8. ASSUME \A t \in Slots \ {s} : agent'[t] = agent[t],
               Writer(s)', FinishedRunHolds',
               \A n \in vectors' \ disk'.nodes :
                  \/ <<"ingest", n[1]>> \in torn'
                  \/ agent'[s].stage = "inserted" /\ n \in agent'[s].chunks,
               \A n \in disk'.nodes \ vectors' :
                  \/ <<"erase", n[1]>> \in torn'
                  \/ agent'[s].stage = "unvectored" /\ n \in agent'[s].chunks
        PROVE  StoresInv'
    <2>1. ASSUME NEW t \in Slots \ {s}
          PROVE  Writer(t)'
      BY <1>3, <1>8 DEF Writer
    <2> QED  BY <1>8, <2>1 DEF StoresInv, Explained
  <1>9. ASSUME NEW state, Goes(s, state)
        PROVE  agent'[s] = state /\ \A t \in Slots \ {s} : agent'[t] = agent[t]
    BY <1>0, <1>9, GoesFrame DEF Agents
  \* A step that writes neither store nor the history.
  <1>10. ASSUME UNCHANGED <<stores, runs, history>>,
                \A t \in Slots \ {s} : agent'[t] = agent[t],
                my.stage \notin {"inserted", "unvectored"}, Writer(s)'
         PROVE  StoresInv'
    <2>1. FinishedRunHolds'
      BY <1>0, <1>10
      DEF FinishedRunHolds, IndexedIsSearchable, ErasedIsGone, stores, history
    <2> QED  BY <1>4, <1>8, <1>10, <2>1 DEF stores, history
  <1>11. CASE LoadStore(s)
    <2>1. UNCHANGED <<stores, runs, history>>
      BY <1>11 DEF LoadStore, stores, history, counters
    <2>2. agent'[s] = [my EXCEPT !.stage = "loaded", !.store = disk.nodes,
                                !.nodes = disk.nodes]
      BY <1>9, <1>11 DEF LoadStore
    <2>3. Writer(s)'
      BY <1>0, <1>7, <1>11, <2>1, <2>2 DEF LoadStore, Writer, stores, history, Agent
    <2> QED  BY <1>9, <1>10, <1>11, <2>1, <2>3 DEF LoadStore
  <1>12. CASE RecordMtime(s)
    <2>1. UNCHANGED <<stores, runs, history>>
      BY <1>12 DEF RecordMtime, stores, history, counters
    <2>2. agent'[s] = [my EXCEPT !.stage = "ready", !.seen = disk.stamp]
      BY <1>9, <1>12 DEF RecordMtime
    <2>3. Writer(s)'
      BY <1>0, <1>7, <1>12, <2>1, <2>2 DEF RecordMtime, Writer, stores, history, Agent
    <2> QED  BY <1>9, <1>10, <1>12, <2>1, <2>3 DEF RecordMtime
  <1>13. CASE RefreshStat(s) \/ Reload(s) \/ ReloadFails(s)
    BY <1>0, <1>13 DEF RefreshStat, Reload, ReloadFails, Writer
  <1>14. CASE Chunk(s)
    <2>1. UNCHANGED <<stores, runs, history>>
      BY <1>14 DEF Chunk, stores, history, counters
    <2>2. agent'[s] = [my EXCEPT !.stage = "chunked", !.chunks = new,
                                 !.store = @ \cup new]
      BY <1>9, <1>14 DEF Chunk
    <2>3. Writer(s)'
      BY <1>0, <1>2, <1>7, <1>14, <2>1, <2>2
      DEF Chunk, Writer, stores, history, Agent
    <2> QED  BY <1>9, <1>10, <1>14, <2>1, <2>3 DEF Chunk
  <1>15. CASE ChunkFails(s) \/ DeleteFails(s)
    <2>1. UNCHANGED <<stores, runs, history>> /\ Goes(s, Off)
          /\ my.stage \notin {"inserted", "unvectored"}
      BY <1>15 DEF ChunkFails, DeleteFails, Ends, stores, history, counters
    <2>2. Writer(s)'
      BY <1>9, <2>1 DEF Writer, Off
    <2> QED  BY <1>9, <1>10, <2>1, <2>2
  <1>16. CASE InsertVectors(s)
    <2>0. /\ my.stage = "chunked" /\ vectors' = vectors \cup my.chunks
          /\ UNCHANGED <<disk, runs, history>>
          /\ agent'[s] = [my EXCEPT !.stage = "inserted"]
      BY <1>9, <1>16 DEF InsertVectors, counters, history
    <2>1. Writer(s)'
      BY <1>0, <1>2, <1>7, <2>0 DEF Writer, history, Agent
    <2>2. FinishedRunHolds'
      BY <1>0, <1>2, <1>5, <1>6, <1>7, <2>0
      DEF FinishedRunHolds, IndexedIsSearchable, ErasedIsGone, history, Agent
    <2> QED  BY <1>0, <1>4, <1>8, <1>9, <1>16, <2>0, <2>1, <2>2
             DEF InsertVectors, history, Agent
  <1>17. CASE InsertFails(s)
    <2>0. /\ my.stage = "chunked" /\ UNCHANGED <<disk, runs, last>>
          /\ torn' = torn \cup {<<"ingest", my.doc>>}
          /\ agent'[s] = Off
      BY <1>9, <1>17 DEF InsertFails, Ends, counters
    <2>1. PICK part \in SUBSET my.chunks : vectors' = vectors \cup part
      BY <1>17 DEF InsertFails
    <2>2. Writer(s)'
      BY <2>0 DEF Writer, Off
    <2>3. FinishedRunHolds'
      BY <1>0, <1>2, <1>5, <1>6, <1>7, <2>0, <2>1
      DEF FinishedRunHolds, IndexedIsSearchable, ErasedIsGone
    <2>4. \A n \in part : <<"ingest", n[1]>> \in torn'
      BY <1>5, <1>6, <1>2, <2>0, <2>1
    <2> QED  BY <1>0, <1>4, <1>8, <1>9, <1>17, <2>0, <2>1, <2>2, <2>3, <2>4
             DEF InsertFails, Ends
  <1>18. CASE Publish(s)
    <2>0. /\ my.stage \in {"inserted", "unvectored"}
          /\ disk'.nodes = my.store
          /\ UNCHANGED <<vectors, runs, history>>
          /\ agent'[s] = [my EXCEPT !.stage = "published"]
      BY <1>9, <1>18 DEF Publish, counters
    <2>1. /\ my.stage = "inserted" => disk'.nodes = disk.nodes \cup my.chunks
                                      /\ my.chunks \subseteq vectors
                                      /\ my.chunks = new /\ my.op = "ingest"
          /\ my.stage = "unvectored" =>
                /\ disk'.nodes = disk.nodes \ NodesOf(my.doc)
                /\ my.chunks = disk.nodes \cap NodesOf(my.doc)
                /\ my.chunks \cap vectors = {}
                /\ my.op = "erase"
      BY <1>0, <1>2, <2>0 DEF Writer
    <2>2. /\ agent'[s].stage = "published" /\ agent'[s].doc = my.doc
          /\ agent'[s].op = my.op /\ agent'[s].chunks = my.chunks
      BY <1>0, <2>0 DEF Agent
    <2>3. my.stage = "unvectored" =>
              <<"ingest", my.doc>> \in torn \/ vectors \cap NodesOf(my.doc) = {}
      BY <1>4, <1>6, <2>1
    <2>4. Writer(s)'
      BY <1>2, <1>7, <2>0, <2>1, <2>2, <2>3 DEF Writer, history
    <2>5. FinishedRunHolds'
      <3>1. CASE my.stage = "inserted"
        BY <1>0, <1>5, <1>6, <1>7, <2>0, <2>1, <3>1, <1>2
        DEF FinishedRunHolds, IndexedIsSearchable, ErasedIsGone, history
      <3>2. CASE my.stage = "unvectored"
        BY <1>0, <1>5, <1>6, <1>7, <2>0, <2>1, <3>2, <1>2
        DEF FinishedRunHolds, IndexedIsSearchable, ErasedIsGone, history
      <3> QED  BY <2>0, <3>1, <3>2
    <2>6. \A n \in vectors' \ disk'.nodes : <<"ingest", n[1]>> \in torn'
      BY <1>4, <2>0, <2>1 DEF history
    <2>7. \A n \in disk'.nodes \ vectors' : <<"erase", n[1]>> \in torn'
      BY <1>4, <2>0, <2>1 DEF history
    <2> QED  BY <1>8, <1>9, <1>18, <2>4, <2>5, <2>6, <2>7 DEF Publish
  <1>19. CASE PublishFails(s)
    <2>0. /\ my.stage \in {"inserted", "unvectored"}
          /\ UNCHANGED <<stores, runs, last>>
          /\ torn' = torn \cup {<<my.op, my.doc>>}
          /\ agent'[s] = Off
      BY <1>9, <1>19 DEF PublishFails, Ends, counters
    <2>1. Writer(s)'
      BY <2>0 DEF Writer, Off
    <2>2. FinishedRunHolds'
      BY <1>0, <2>0
      DEF FinishedRunHolds, IndexedIsSearchable, ErasedIsGone, stores
    <2>3. \A n \in my.chunks : n[1] = my.doc
      BY <1>2, <1>5, <1>6, <2>0
    <2> QED  BY <1>2, <1>4, <1>8, <1>9, <1>19, <2>0, <2>1, <2>2, <2>3
             DEF PublishFails, Ends, stores
  <1>20. CASE Complete(s)
    <2>0. /\ my.stage = "published" /\ UNCHANGED <<stores, runs, torn>>
          /\ last' = [last EXCEPT ![my.doc] = my.op]
          /\ agent'[s] = Off
      BY <1>9, <1>20 DEF Complete, Ends, counters
    <2>1. Writer(s)'
      BY <2>0 DEF Writer, Off
    <2>2. /\ my.op = "ingest" => new \subseteq vectors \cap disk.nodes
          /\ my.op = "erase" =>
                /\ disk.nodes \cap NodesOf(my.doc) = {}
                /\ <<"ingest", my.doc>> \in torn
                   \/ vectors \cap NodesOf(my.doc) = {}
      BY <1>0, <1>2, <2>0 DEF Writer
    <2>3. FinishedRunHolds'
      BY <1>0, <1>2, <2>0, <2>2
      DEF FinishedRunHolds, IndexedIsSearchable, ErasedIsGone, stores, TypeOK
    <2> QED  BY <1>4, <1>8, <1>9, <1>20, <2>0, <2>1, <2>3
             DEF Complete, Ends, stores
  <1>21. CASE Scan(s)
    <2>0. /\ my.stage = "ready" /\ my.op = "erase"
          /\ my.nodes = disk.nodes /\ my.store = disk.nodes
          /\ UNCHANGED <<stores, runs, torn>>
      BY <1>0, <1>21 DEF Scan, Writer, counters
    <2>1. CASE /\ Goes(s, [my EXCEPT !.stage = "scanned", !.chunks = found])
               /\ UNCHANGED <<exit, last>>
      <3>1. agent'[s] = [my EXCEPT !.stage = "scanned", !.chunks = found]
        BY <1>9, <2>1
      <3>2. Writer(s)'
        BY <1>0, <1>2, <1>7, <2>0, <2>1, <3>1 DEF Writer, Agent, stores
      <3> QED  BY <1>9, <1>10, <2>0, <2>1, <3>2 DEF stores, history
    <2>2. CASE /\ found = {} /\ Ends(s, "ok")
               /\ last' = [last EXCEPT ![my.doc] = "erase"]
      <3>1. agent'[s] = Off
        BY <1>9, <2>2 DEF Ends
      <3>2. Writer(s)'
        BY <3>1 DEF Writer, Off
      <3>3. disk.nodes \cap NodesOf(my.doc) = {}
            /\ (<<"ingest", my.doc>> \in torn
                \/ vectors \cap NodesOf(my.doc) = {})
        BY <1>4, <1>6, <2>0, <2>2
      <3>4. FinishedRunHolds'
        BY <1>0, <1>2, <2>0, <2>2, <3>3
        DEF FinishedRunHolds, IndexedIsSearchable, ErasedIsGone, stores, TypeOK
      <3> QED  BY <1>4, <1>8, <1>9, <2>0, <2>2, <3>1, <3>2, <3>4
               DEF Ends, stores
    <2> QED  BY <1>21, <2>1, <2>2 DEF Scan
  <1>22. CASE DeleteVectors(s)
    <2>0. /\ my.stage = "scanned" /\ vectors' = vectors \ my.chunks
          /\ UNCHANGED <<disk, runs, history>>
          /\ agent'[s] = [my EXCEPT !.stage = "unvectored",
                                    !.store = @ \ my.chunks]
      BY <1>9, <1>22 DEF DeleteVectors, counters, history
    <2>1. Writer(s)'
      BY <1>0, <1>2, <1>7, <2>0 DEF Writer, history, Agent
    <2>2. FinishedRunHolds'
      BY <1>0, <1>2, <1>5, <1>6, <1>7, <2>0
      DEF FinishedRunHolds, IndexedIsSearchable, ErasedIsGone, history
    <2> QED  BY <1>0, <1>4, <1>8, <1>9, <1>22, <2>0, <2>1, <2>2
             DEF DeleteVectors, history, Agent
  <1> QED
    BY <1>11, <1>12, <1>13, <1>14, <1>15, <1>16, <1>17, <1>18, <1>19, <1>20,
       <1>21, <1>22
    DEF AgentStep, Run, Failure

\* A reader writes nothing that a subprocess reads.
LEMMA ReaderStep ==
    ASSUME Typed, NEW r \in Readers, AgentStep(r)
    PROVE  /\ UNCHANGED <<stores, exit, counters, history>>
           /\ agent[r].op = "none" /\ agent[r].stage # "fresh"
           /\ LoadStore(r) \/ RecordMtime(r) \/ RefreshStat(r) \/ Reload(r)
              \/ ReloadFails(r)
           /\ \A b \in Agents \ {r} : agent'[b] = agent[b]
  <1>1. /\ agent[r].stage \in {"boot", "loaded", "ready", "reloading"}
        /\ agent[r].op = "none" /\ r \in Agents
        /\ agent \in [Agents -> Agent]
    BY DEF Typed, TypeOK, Shape, Agents
  <1>2. LoadStore(r) \/ RecordMtime(r) \/ RefreshStat(r) \/ Reload(r)
        \/ ReloadFails(r)
    BY <1>1 DEF AgentStep, Run, Failure, Chunk, InsertVectors, Publish,
                Complete, Scan, DeleteVectors, ChunkFails, InsertFails,
                PublishFails, DeleteFails
  <1> QED
    BY <1>1, <1>2, GoesFrame
    DEF LoadStore, RecordMtime, RefreshStat, Reload, ReloadFails

\* What the stores' invariant says stays true when neither they, nor the
\* subprocesses, nor the history change.
LEMMA StoresFrame ==
    ASSUME StoresInv, UNCHANGED <<stores, runs, history>>,
           \A s \in Slots : agent'[s] = agent[s]
    PROVE  StoresInv'
  <1>1. \A s \in Slots : Writer(s)'
    BY DEF StoresInv, Writer, stores, history
  <1>2. Explained' /\ FinishedRunHolds'
    BY DEF StoresInv, Explained, FinishedRunHolds, IndexedIsSearchable,
           ErasedIsGone, stores, history
  <1> QED  BY <1>1, <1>2 DEF StoresInv

\* A subprocess that ends between no two writes leaves the stores as they are.
LEMMA EndsStores ==
    ASSUME Typed, StoresInv, NEW s \in Slots,
           NEW code \in {"ok", "error", "killed"}, Ends(s, code),
           agent[s].stage \notin {"inserted", "unvectored"},
           UNCHANGED <<stores, runs, history>>
    PROVE  StoresInv'
  <1>1. /\ agent'[s] = Off
        /\ \A t \in Slots \ {s} : agent'[t] = agent[t]
    BY EndsType DEF Typed, Agents
  <1>2. \A t \in Slots : Writer(t)'
    BY <1>1 DEF StoresInv, Writer, Off, stores, history
  <1>3. Explained' /\ FinishedRunHolds'
    BY <1>1 DEF StoresInv, Explained, FinishedRunHolds, IndexedIsSearchable,
                ErasedIsGone, stores, history
  <1> QED  BY <1>2, <1>3 DEF StoresInv

\* The start of a subprocess withdraws what was known of its document.
LEMMA StartStores ==
    ASSUME Typed, StoresInv, NEW s \in Slots, NEW d \in Docs,
           StartIngest(s, d) \/ StartErase(s, d),
           \A t \in Slots \ {s} : agent[t].stage = "off"
    PROVE  StoresInv'
  <1>0. /\ UNCHANGED <<stores, torn>> /\ agent[s].stage = "off"
        /\ last' = [last EXCEPT ![d] = "none"]
        /\ \A e \in Docs \ {d} : runs'[e] = runs[e]
    BY DEF StartIngest, StartErase, Typed, TypeOK
  <1>1. /\ agent'[s].stage = "boot" /\ agent'[s].doc = d
        /\ \A t \in Slots \ {s} : agent'[t] = agent[t]
    <2>1. PICK op \in {"ingest", "erase"} :
               Goes(s, [Off EXCEPT !.stage = "boot", !.op = op, !.doc = d])
      BY DEF StartIngest, StartErase
    <2> QED  BY <2>1 DEF Goes, Off, Typed, TypeOK, Agents
  <1>2. \A t \in Slots : Writer(t)'
    BY <1>0, <1>1 DEF Writer, Typed, TypeOK
  <1>3. Explained'
    BY <1>0, <1>1 DEF StoresInv, Explained, stores
  <1>4. FinishedRunHolds'
    BY <1>0 DEF StoresInv, FinishedRunHolds, IndexedIsSearchable,
                ErasedIsGone, stores, Typed, TypeOK
  <1> QED  BY <1>2, <1>3, <1>4 DEF StoresInv

\* A termination leaves the marks that explain what it left in one store.
LEMMA TerminateStores ==
    ASSUME Typed, StoresInv, OneWriter, NEW S \in SUBSET Slots, Terminate(S)
    PROVE  StoresInv'
  <1>0. /\ UNCHANGED <<disk, runs, last>>
        /\ \A t \in Slots : agent'[t] = IF t \in S THEN Off ELSE agent[t]
    BY DEF Terminate, Typed, TypeOK, counters, Agents
  <1>1. CASE \A t \in S : agent[t].stage = "off"
    <2>1. {t \in S : agent[t].stage = "chunked"} = {}
          /\ {t \in S : agent[t].stage \in {"chunked", "inserted", "unvectored"}}
             = {}
      BY <1>1
    <2>2. UNCHANGED <<vectors, torn>>
      BY <2>1 DEF Terminate
    <2>3. \A t \in Slots : Writer(t)'
      BY <1>0, <2>2 DEF StoresInv, Writer, Off
    <2>4. Explained' /\ FinishedRunHolds'
      BY <1>0, <1>1, <2>2
      DEF StoresInv, Explained, FinishedRunHolds, IndexedIsSearchable,
          ErasedIsGone
    <2> QED  BY <2>3, <2>4 DEF StoresInv
  <1>2. ASSUME NEW s \in S, agent[s].stage # "off"
        PROVE  StoresInv'
    <2> DEFINE my == agent[s]
    <2>1. \A t \in Slots \ {s} : agent[t].stage = "off"
      BY <1>2 DEF OneWriter
    <2>2. \A t \in Slots : agent'[t].stage = "off"
      BY <1>0, <1>2, <2>1 DEF Off
    <2>3. /\ my.doc \in Docs /\ s \in Agents /\ runs[my.doc] \in 0 .. MaxRuns
          /\ my.stage \in {"chunked", "inserted"} => my.op = "ingest"
          /\ my.stage = "unvectored" => my.op = "erase"
          /\ last[my.doc] = "none"
          /\ my.chunks \subseteq Node
      BY <1>2 DEF Typed, TypeOK, Shape, Agents, StoresInv, Writer, Agent
    <2>4. PICK part \in SUBSET UNION {agent[t].chunks :
                                t \in {u \in S : agent[u].stage = "chunked"}} :
               vectors' = vectors \cup part
      BY DEF Terminate
    <2>5. /\ my.stage = "chunked" => part \subseteq my.chunks
          /\ my.stage # "chunked" => part = {}
      BY <2>1, <2>4
    <2>6. /\ torn \subseteq torn'
          /\ my.stage \in {"chunked", "inserted", "unvectored"} =>
                <<my.op, my.doc>> \in torn'
      BY <1>2 DEF Terminate
    <2>7. my.stage \in {"chunked", "inserted", "unvectored"} =>
              /\ my.chunks \subseteq NodesOf(my.doc)
              /\ \A n \in my.chunks : n[1] = my.doc
      <3>1. my.stage \in {"chunked", "inserted", "unvectored"} =>
                my.chunks \subseteq NodesOf(my.doc)
        BY ChunksOfRun DEF StoresInv
      <3> QED  BY <2>3, <3>1, NodeOwner
    <2>8. /\ \A n \in vectors \ disk.nodes :
                \/ <<"ingest", n[1]>> \in torn
                \/ my.stage = "inserted" /\ n \in my.chunks
          /\ \A n \in disk.nodes \ vectors :
                \/ <<"erase", n[1]>> \in torn
                \/ my.stage = "unvectored" /\ n \in my.chunks
      BY <1>2, ExplainedByRun DEF StoresInv
    <2>9. \A t \in Slots : Writer(t)'
      BY <2>2 DEF Writer
    <2>10. Explained'
      BY <1>0, <2>3, <2>4, <2>5, <2>6, <2>7, <2>8 DEF Explained
    <2>11. FinishedRunHolds'
      <3>1. \A d \in Docs \ {my.doc} : part \cap NodesOf(d) = {}
        BY <2>3, <2>5, <2>7, NodeOwner
      <3> QED  BY <1>0, <2>3, <2>4, <2>6, <3>1
               DEF StoresInv, FinishedRunHolds, IndexedIsSearchable,
                   ErasedIsGone
    <2> QED  BY <2>9, <2>10, <2>11 DEF StoresInv
  <1> QED  BY <1>1, <1>2

\* One subprocess at a time.
SingleSlot == \A s, t \in Slots : s = t

\* Every step keeps the stores' invariant.
LEMMA StoresStep ==
    ASSUME SingleSlot, Typed, StoresInv, [Next]_vars
    PROVE  StoresInv'
  <1>0. OneWriter
    BY DEF SingleSlot, OneWriter
  <1>1. ASSUME NEW a \in Agents, AgentStep(a)
        PROVE  StoresInv'
    <2>1. CASE a \in Slots
      BY <1>0, <1>1, <2>1, WriterStep
    <2>2. CASE a \in Readers
      <3>1. UNCHANGED <<stores, runs, history>>
            /\ \A s \in Slots : agent'[s] = agent[s]
        BY <1>1, <2>2, ReaderStep, IndexAssumption DEF Agents, counters
      <3> QED  BY <3>1, StoresFrame
    <2> QED  BY <2>1, <2>2 DEF Agents
  <1>2. ASSUME NEW s \in Slots, Kill(s)
        PROVE  StoresInv'
    BY <1>0, <1>2, TerminateStores DEF Kill
  <1>3. ASSUME NEW s \in Slots, NEW d \in Docs,
               StartIngest(s, d) \/ StartErase(s, d)
        PROVE  StoresInv'
    BY <1>3, StartStores DEF SingleSlot
  <1>4. CASE UNCHANGED vars
    BY <1>4, StoresFrame DEF vars, stores, history
  <1> QED  BY <1>1, <1>2, <1>3, <1>4, NextCases DEF SlotStep

\* With one subprocess at a time, the stores' invariant holds throughout.
THEOREM StoresInvariant == ASSUME SingleSlot PROVE Spec => []StoresInv
  <1>1. Init => StoresInv
    BY DEF Init, Off, StoresInv, Writer, Explained, FinishedRunHolds,
           IndexedIsSearchable, ErasedIsGone, Agents
  <1>2. Typed /\ StoresInv /\ [Next]_vars => StoresInv'
    BY StoresStep
  <1> QED  BY <1>1, <1>2, IndexTyped, PTL DEF Spec

\* Qdrant and the docstore hold the same nodes, but for a run that stands
\* between its two writes or was cut off there.
THEOREM StoresAgreeAlways == ASSUME SingleSlot PROVE Spec => []StoresAgree
  <1>1. Typed /\ StoresInv => StoresAgree
    <2> SUFFICES ASSUME Typed, StoresInv
                 PROVE  StoresAgree
      OBVIOUS
    <2>1. ASSUME NEW s \in Slots, NEW n \in agent[s].chunks, n \in Node,
                 agent[s].stage \in {"inserted", "unvectored"}
          PROVE  /\ agent[s].stage = "inserted" => Ingesting(n[1])
                 /\ agent[s].stage = "unvectored" => Erasing(n[1])
      <3>1. /\ agent[s].doc \in Docs /\ s \in Agents
            /\ agent[s].stage = "inserted" => agent[s].op = "ingest"
            /\ agent[s].stage = "unvectored" => agent[s].op = "erase"
        BY <2>1 DEF Typed, Shape, Agents
      <3>2. n \in NodesOf(agent[s].doc)
        BY <2>1, ChunksOfRun DEF StoresInv
      <3>3. n[1] = agent[s].doc
        BY <2>1, <3>1, <3>2, NodeOwner
      <3> QED  BY <2>1, <3>1, <3>3 DEF Ingesting, Erasing
    <2>2. vectors \subseteq Node /\ disk.nodes \subseteq Node
      BY DEF Typed, TypeOK
    <2> QED  BY <2>1, <2>2 DEF StoresInv, Explained, StoresAgree
  <1> QED  BY <1>1, IndexTyped, StoresInvariant, PTL

\* A run that exited with success did what it was asked to: every chunk is in
\* both stores, or nothing of the document is left.
THEOREM FinishedRunsHold == ASSUME SingleSlot PROVE Spec => []FinishedRunHolds
  <1>1. StoresInv => FinishedRunHolds
    BY DEF StoresInv
  <1> QED  BY <1>1, StoresInvariant, PTL

-----------------------------------------------------------------------------
\* Only Publish writes the docstore.
LEMMA DiskStep ==
    ASSUME Typed, [Next]_vars, disk' # disk
    PROVE  \E s \in Slots : Publish(s)
  <1>1. ASSUME NEW r \in Readers, AgentStep(r)
        PROVE  FALSE
    BY <1>1, ReaderStep DEF stores
  <1>2. ASSUME NEW s \in Slots, AgentStep(s)
        PROVE  Publish(s)
    BY <1>2
    DEF AgentStep, Run, Failure, LoadStore, RecordMtime, RefreshStat, Reload,
        Chunk, InsertVectors, Complete, Scan, DeleteVectors, ReloadFails,
        ChunkFails, InsertFails, PublishFails, DeleteFails, stores
  <1>3. ASSUME NEW s \in Slots, SlotStep(s)
        PROVE  FALSE
    BY <1>3 DEF SlotStep, Kill, Terminate, StartIngest, StartErase, stores
  <1> QED  BY <1>1, <1>2, <1>3, NextCases DEF Agents, vars

\* A publication replaces the whole file and loses nobody else's nodes: what
\* leaves the docstore belongs to the document being erased.
THEOREM NothingIsLost == ASSUME SingleSlot PROVE Spec => NothingLost
  <1>1. Typed /\ StoresInv /\ [Next]_vars =>
            [\A n \in disk.nodes : n \notin disk'.nodes => Erasing(n[1])]_vars
    <2> SUFFICES ASSUME Typed, StoresInv, [Next]_vars, NEW n \in disk.nodes,
                        n \notin disk'.nodes
                 PROVE  Erasing(n[1])
      OBVIOUS
    <2>1. PICK s \in Slots : Publish(s)
      BY DiskStep
    <2>2. Writer(s) /\ s \in Agents /\ agent[s].doc \in Docs
          /\ agent[s].stage \in {"inserted", "unvectored"}
          /\ disk'.nodes = agent[s].store /\ n \in Node
      BY <2>1 DEF StoresInv, Publish, Typed, TypeOK, Shape, Agents
    <2>3. agent[s].stage = "unvectored" /\ n \in agent[s].chunks
      BY <2>2 DEF Writer
    <2>4. n[1] = agent[s].doc /\ agent[s].op = "erase"
      BY <2>2, <2>3, ChunksOfRun, NodeOwner DEF Typed, Shape
    <2> QED  BY <2>2, <2>3, <2>4 DEF Erasing
  <1> QED  BY <1>1, IndexTyped, StoresInvariant, PTL DEF Spec, NothingLost

-----------------------------------------------------------------------------
(***************************************************************************)
(* The readers.                                                            *)
(***************************************************************************)

\* A publication always moves the mtime.
LEMMA StampStep ==
    ASSUME Typed, [Next]_vars
    PROVE  disk' = disk \/ disk'.stamp = disk.stamp + 1
  <1>1. ASSUME NEW s \in Slots, Publish(s)
        PROVE  disk'.stamp = disk.stamp + 1
    BY <1>1 DEF Publish
  <1> QED  BY <1>1, DiskStep

\* A step keeps what the readers know: each new stamp is above the ones they
\* recorded, and a reload takes the contents no earlier than the stamp.
LEMMA ReadableStep ==
    ASSUME Typed, Readable, [Next]_vars
    PROVE  Readable'
  <1> SUFFICES ASSUME NEW q \in Readers
               PROVE  Follows(q)'
    BY DEF Readable
  <1>0. /\ Follows(q) /\ q \in Agents /\ agent[q].op = "none"
        /\ agent[q] \in Agent /\ disk.stamp \in Nat
        /\ agent \in [Agents -> Agent]
    BY DEF Readable, Typed, TypeOK, Shape, Agents
  <1>1. CASE agent'[q] = agent[q]
    BY <1>0, <1>1, StampStep DEF Follows, Agent
  <1>2. ASSUME NEW r \in Readers, AgentStep(r)
        PROVE  Follows(q)'
    <2>1. CASE r # q
      BY <1>0, <1>1, <1>2, <2>1, ReaderStep
    <2>2. CASE r = q /\ RefreshStat(q)
      <3>1. agent'[q] = [agent[q] EXCEPT !.stage = "reloading",
                                         !.want = disk.stamp]
            /\ disk' = disk
        BY <1>0, <2>2 DEF RefreshStat, Goes, stores
      <3> QED  BY <1>0, <3>1 DEF Follows, Agent
    <2>3. CASE r = q /\ Reload(q)
      <3>1. agent'[q] = [agent[q] EXCEPT !.stage = "ready",
                            !.store = disk.nodes, !.nodes = disk.nodes,
                            !.seen = agent[q].want]
            /\ disk' = disk
        BY <1>0, <2>3 DEF Reload, Refreshed, Goes, stores
      <3> QED  BY <1>0, <3>1 DEF Follows, Agent
    <2>4. CASE r = q /\ ReloadFails(q)
      <3>1. agent'[q] = [agent[q] EXCEPT !.stage = "ready"] /\ disk' = disk
        BY <1>0, <2>4 DEF ReloadFails, Refreshed, Goes, stores
      <3> QED  BY <1>0, <2>4, <3>1 DEF Follows, Agent
    <2>5. ~LoadStore(q) /\ ~RecordMtime(q)
      BY <1>0 DEF LoadStore, RecordMtime, Follows
    <2> QED  BY <1>2, <2>1, <2>2, <2>3, <2>4, <2>5, ReaderStep
  <1>3. ASSUME NEW s \in Slots, AgentStep(s)
        PROVE  agent'[q] = agent[q]
    BY <1>0, <1>3, IndexAssumption
    DEF AgentStep, Run, Failure, LoadStore, RecordMtime, RefreshStat, Reload,
        Chunk, InsertVectors, Publish, Complete, Scan, DeleteVectors,
        ReloadFails, ChunkFails, InsertFails, PublishFails, DeleteFails, Ends,
        Goes
  <1>4. ASSUME NEW s \in Slots, SlotStep(s)
        PROVE  agent'[q] = agent[q]
    BY <1>0, <1>4, IndexAssumption
    DEF SlotStep, Kill, Terminate, StartIngest, StartErase, Goes
  <1>5. CASE UNCHANGED vars
    BY <1>1, <1>5 DEF vars
  <1> QED  BY <1>1, <1>2, <1>3, <1>4, <1>5, NextCases DEF Agents

\* A reader that was up before the first write and sees no new mtime has
\* nothing to reload, whatever number of subprocesses write at a time.
THEOREM StampsAreTruthful == ASSUME Warm PROVE Spec => []StampIsTruthful
  <1>1. Init => Readable
    BY IndexAssumption DEF Init, Off, Readable, Follows, Agents
  <1>2. Typed /\ Readable /\ [Next]_vars => Readable'
    BY ReadableStep
  <1>3. Readable => StampIsTruthful
    BY DEF Readable, Follows, StampIsTruthful
  <1> QED  BY <1>1, <1>2, <1>3, IndexTyped, PTL DEF Spec
=============================================================================
