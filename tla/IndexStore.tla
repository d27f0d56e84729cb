----------------------------- MODULE IndexStore -----------------------------
(***************************************************************************)
(* The corpus index that every RAGAgent instance shares: vectors in        *)
(* Qdrant, and the BM25 docstore, one JSON file replaced as a whole.       *)
(* Each agent holds a private copy of the file.  The ingestion worker      *)
(* starts a subprocess, with a new agent, for each document to index or    *)
(* erase; the API processes (Readers) keep one agent and reload it when    *)
(* the file's mtime differs from the one they recorded.                    *)
(*                                                                         *)
(* Qdrant and the file cannot be written together: each call to one of     *)
(* them is a step, and a subprocess may be terminated between any two.     *)
(***************************************************************************)
EXTENDS Naturals, FiniteSets

CONSTANTS
    Docs,      \* uploads, each with a file name of its own
    NoDoc,     \* no document
    Slots,     \* subprocesses at a time: WorkerSettings.max_jobs of them
    Readers,   \* API processes
    MaxRuns,   \* bound of the model: ingestions of one document
    MaxErases, \* bound of the model: erasures of one document
    MaxFaults, \* bound of the model: kills and failed calls
    Warm       \* whether the readers were up before the first write

ASSUME IndexAssumption ==
    /\ Slots \cap Readers = {}
    /\ Warm \in BOOLEAN
    /\ NoDoc \notin Docs
    /\ MaxRuns \in Nat /\ MaxErases \in Nat /\ MaxFaults \in Nat

VARIABLES
    vectors, \* Qdrant: the nodes it holds
    disk,    \* docstore.json: its nodes and its mtime
    agent,   \* the RAGAgent instances
    exit,    \* how the last subprocess of a slot ended
    runs,    \* ingestions started, by document
    erases,  \* erasures started, by document
    faults,
    last,    \* history: the last run of a document, if it succeeded
    torn     \* history: runs that stopped with one store written

vars == <<vectors, disk, agent, exit, runs, erases, faults, last, torn>>
stores == <<vectors, disk>>
counters == <<runs, erases>>
history == <<last, torn>>

Agents == Slots \cup Readers

\* Node <<d, 0>> is a table unit, whose identity is a hash of the file and
\* the same in every run; <<d, r>> is the prose of run r, with random ids.
Node == Docs \X (0 .. MaxRuns)
NodesOf(d) == {d} \X (0 .. MaxRuns)
ChunksOf(d, run) == {<<d, 0>>, <<d, run>>}

Off == [stage |-> "off", op |-> "none", doc |-> NoDoc, store |-> {},
        nodes |-> {}, seen |-> 0, want |-> 0, chunks |-> {}]

Agent == [stage  : {"off", "boot", "loaded", "ready", "reloading", "fresh",
                    "chunked", "inserted", "scanned", "unvectored",
                    "published"},
          op     : {"none", "ingest", "erase"},
          doc    : Docs \cup {NoDoc},
          store  : SUBSET Node, \* self.docstore
          nodes  : SUBSET Node, \* self._all_nodes, what retrieval searches
          seen   : Nat,         \* self._docstore_mtime_ns
          want   : Nat,         \* current_mtime of a refresh under way
          chunks : SUBSET Node] \* nodes of the run under way

TypeOK ==
    /\ vectors \subseteq Node
    /\ disk \in [stamp : Nat, nodes : SUBSET Node]
    /\ agent \in [Agents -> Agent]
    /\ exit \in [Slots -> {"none", "ok", "error", "killed"}]
    /\ runs \in [Docs -> 0 .. MaxRuns]
    /\ erases \in [Docs -> 0 .. MaxErases]
    /\ faults \in 0 .. MaxFaults
    /\ last \in [Docs -> {"none", "ingest", "erase"}]
    /\ torn \subseteq {"ingest", "erase"} \X Docs

Init ==
    /\ vectors = {}
    /\ disk = [stamp |-> 0, nodes |-> {}]
    /\ agent = [a \in Agents |->
                    [Off EXCEPT !.stage = IF a \in Slots THEN "off"
                                          ELSE IF Warm THEN "ready"
                                          ELSE "boot"]]
    /\ exit = [s \in Slots |-> "none"]
    /\ runs = [d \in Docs |-> 0]
    /\ erases = [d \in Docs |-> 0]
    /\ faults = 0
    /\ last = [d \in Docs |-> "none"]
    /\ torn = {}

Goes(a, state) == agent' = [agent EXCEPT ![a] = state]

Fault == faults < MaxFaults /\ faults' = faults + 1

(***************************************************************************)
(* RAGAgent.__init__: the file is read, and its mtime recorded only at the *)
(* end.                                                                    *)
(***************************************************************************)

LoadStore(a) ==
    /\ agent[a].stage = "boot"
    /\ Goes(a, [agent[a] EXCEPT !.stage = "loaded", !.store = disk.nodes,
                                !.nodes = disk.nodes])
    /\ UNCHANGED <<stores, exit, counters, faults, history>>

\* Mutant: a new agent starts from an empty docstore.
StartEmpty(a) ==
    /\ agent[a].stage = "loaded"
    /\ Goes(a, [agent[a] EXCEPT !.stage = "ready", !.seen = disk.stamp,
                                !.store = {}, !.nodes = {}])
    /\ UNCHANGED <<stores, exit, counters, faults, history>>

RecordMtime(a) ==
    /\ agent[a].stage = "loaded"
    /\ Goes(a, [agent[a] EXCEPT !.stage = "ready", !.seen = disk.stamp])
    /\ UNCHANGED <<stores, exit, counters, faults, history>>

(***************************************************************************)
(* _refresh_docstore_if_changed, before each retrieval and each erasure.   *)
(***************************************************************************)

RefreshStat(a) ==
    /\ agent[a].stage = "ready"
    /\ agent[a].op # "ingest"
    /\ disk.stamp # agent[a].seen
    /\ Goes(a, [agent[a] EXCEPT !.stage = "reloading", !.want = disk.stamp])
    /\ UNCHANGED <<stores, exit, counters, faults, history>>

Refreshed(a) == IF agent[a].op = "erase" THEN "fresh" ELSE "ready"

\* Mutant: the mtime is recorded although the file could not be read.
ReloadSwallowed(a) ==
    /\ agent[a].stage = "reloading"
    /\ Goes(a, [agent[a] EXCEPT !.stage = Refreshed(a),
                                !.seen = agent[a].want])
    /\ UNCHANGED <<stores, exit, counters, faults, history>>

Reload(a) ==
    /\ agent[a].stage = "reloading"
    /\ Goes(a, [agent[a] EXCEPT !.stage = Refreshed(a),
                                !.store = disk.nodes, !.nodes = disk.nodes,
                                !.seen = agent[a].want])
    /\ UNCHANGED <<stores, exit, counters, faults, history>>

\* The snapshot cannot be read: the previous one keeps serving.
ReloadFails(a) ==
    /\ agent[a].stage = "reloading"
    /\ Fault
    /\ Goes(a, [agent[a] EXCEPT !.stage = Refreshed(a)])
    /\ UNCHANGED <<stores, exit, counters, history>>

(***************************************************************************)
(* A run: the subprocess, with an agent of its own, starts and ends.       *)
(***************************************************************************)

StartIngest(s, d) ==
    /\ agent[s].stage = "off"
    /\ runs[d] < MaxRuns
    /\ Goes(s, [Off EXCEPT !.stage = "boot", !.op = "ingest", !.doc = d])
    /\ exit' = [exit EXCEPT ![s] = "none"]
    /\ runs' = [runs EXCEPT ![d] = @ + 1]
    /\ last' = [last EXCEPT ![d] = "none"]
    /\ UNCHANGED <<stores, erases, faults, torn>>

StartErase(s, d) ==
    /\ agent[s].stage = "off"
    /\ erases[d] < MaxErases
    /\ Goes(s, [Off EXCEPT !.stage = "boot", !.op = "erase", !.doc = d])
    /\ exit' = [exit EXCEPT ![s] = "none"]
    /\ erases' = [erases EXCEPT ![d] = @ + 1]
    /\ last' = [last EXCEPT ![d] = "none"]
    /\ UNCHANGED <<stores, runs, faults, torn>>

Ends(s, code) ==
    /\ Goes(s, Off)
    /\ exit' = [exit EXCEPT ![s] = code]

(***************************************************************************)
(* RAGAgent.ingest.                                                        *)
(***************************************************************************)

\* Mutant: the docstore is saved without the new chunks.
ChunkUnstored(a) ==
    LET new == ChunksOf(agent[a].doc, runs[agent[a].doc])
    IN  /\ agent[a].stage = "ready" /\ agent[a].op = "ingest"
        /\ Goes(a, [agent[a] EXCEPT !.stage = "chunked", !.chunks = new])
        /\ UNCHANGED <<stores, exit, counters, faults, history>>

\* The file is parsed; the chunks go into the agent's own docstore first.
Chunk(a) ==
    LET new == ChunksOf(agent[a].doc, runs[agent[a].doc])
    IN  /\ agent[a].stage = "ready" /\ agent[a].op = "ingest"
        /\ Goes(a, [agent[a] EXCEPT !.stage = "chunked", !.chunks = new,
                                    !.store = @ \cup new])
        /\ UNCHANGED <<stores, exit, counters, faults, history>>

\* The file is missing, unreadable, empty, or changed while it was parsed.
ChunkFails(a) ==
    /\ agent[a].stage = "ready" /\ agent[a].op = "ingest"
    /\ Fault
    /\ Ends(a, "error")
    /\ UNCHANGED <<stores, counters, history>>

InsertVectors(a) ==
    /\ agent[a].stage = "chunked"
    /\ vectors' = vectors \cup agent[a].chunks
    /\ Goes(a, [agent[a] EXCEPT !.stage = "inserted"])
    /\ UNCHANGED <<disk, exit, counters, faults, history>>

\* Qdrant or the embedding model fails; some batches may be in.
InsertFails(a) ==
    /\ agent[a].stage = "chunked"
    /\ Fault
    /\ \E part \in SUBSET agent[a].chunks :
            vectors' = vectors \cup part
    /\ Ends(a, "error")
    /\ torn' = torn \cup {<<"ingest", agent[a].doc>>}
    /\ UNCHANGED <<disk, counters, last>>

\* persist to a temporary file, os.replace.
Publish(a) ==
    /\ agent[a].stage \in {"inserted", "unvectored"}
    /\ disk' = [stamp |-> disk.stamp + 1, nodes |-> agent[a].store]
    /\ Goes(a, [agent[a] EXCEPT !.stage = "published"])
    /\ UNCHANGED <<vectors, exit, counters, faults, history>>

PublishFails(a) ==
    /\ agent[a].stage \in {"inserted", "unvectored"}
    /\ Fault
    /\ Ends(a, "error")
    /\ torn' = torn \cup {<<agent[a].op, agent[a].doc>>}
    /\ UNCHANGED <<stores, counters, last>>

\* What the agent records of its own publication is gone with the process.
Complete(a) ==
    /\ agent[a].stage = "published"
    /\ Ends(a, "ok")
    /\ last' = [last EXCEPT ![agent[a].doc] = agent[a].op]
    /\ UNCHANGED <<stores, counters, faults, torn>>

(***************************************************************************)
(* RAGAgent.delete_source, which only a subprocess calls.                  *)
(***************************************************************************)

\* What the scan of _all_nodes finds under the file's name.
Scan(a) ==
    LET found == agent[a].nodes \cap NodesOf(agent[a].doc)
    IN  /\ agent[a].op = "erase"
        /\ \/ agent[a].stage = "ready" /\ agent[a].seen = disk.stamp
           \/ agent[a].stage = "fresh"
        /\ \/ /\ found # {}
              /\ Goes(a, [agent[a] EXCEPT !.stage = "scanned",
                                          !.chunks = found])
              /\ UNCHANGED <<exit, last>>
           \/ /\ found = {}
              /\ Ends(a, "ok")
              /\ last' = [last EXCEPT ![agent[a].doc] = "erase"]
        /\ UNCHANGED <<stores, counters, faults, torn>>

\* Mutants: the docstore keeps the nodes; Qdrant keeps the vectors.
DeleteVectorsOnly(a) ==
    /\ agent[a].stage = "scanned"
    /\ vectors' = vectors \ agent[a].chunks
    /\ Goes(a, [agent[a] EXCEPT !.stage = "unvectored"])
    /\ UNCHANGED <<disk, exit, counters, faults, history>>
DeleteFromDocstoreOnly(a) ==
    /\ agent[a].stage = "scanned"
    /\ Goes(a, [agent[a] EXCEPT !.stage = "unvectored",
                                !.store = @ \ agent[a].chunks])
    /\ UNCHANGED <<stores, exit, counters, faults, history>>

DeleteVectors(a) ==
    /\ agent[a].stage = "scanned"
    /\ vectors' = vectors \ agent[a].chunks
    /\ Goes(a, [agent[a] EXCEPT !.stage = "unvectored",
                                !.store = @ \ agent[a].chunks])
    /\ UNCHANGED <<disk, exit, counters, faults, history>>

DeleteFails(a) ==
    /\ agent[a].stage = "scanned"
    /\ Fault
    /\ Ends(a, "error")
    /\ UNCHANGED <<stores, counters, history>>

\* Subprocesses are terminated; an insertion under way may be in part done.
Terminate(S) ==
    LET chunking == {s \in S : agent[s].stage = "chunked"}
        between  == {s \in S : agent[s].stage \in
                                   {"chunked", "inserted", "unvectored"}}
    IN  /\ agent' = [a \in Agents |-> IF a \in S THEN Off ELSE agent[a]]
        /\ exit' = [s \in Slots |->
                        IF s \in S /\ agent[s].stage # "off" THEN "killed"
                                                             ELSE exit[s]]
        /\ \E part \in SUBSET UNION {agent[s].chunks : s \in chunking} :
                vectors' = vectors \cup part
        /\ torn' = torn \cup {<<agent[s].op, agent[s].doc>> : s \in between}
        /\ UNCHANGED <<disk, counters, last>>

\* A cancellation, a timeout, a shutdown, or the death of the worker.
Kill(s) ==
    /\ agent[s].stage # "off"
    /\ Fault
    /\ Terminate({s})

(***************************************************************************)

Run(a) ==
    \/ LoadStore(a) \/ RecordMtime(a)
    \/ RefreshStat(a) \/ Reload(a)
    \/ Chunk(a) \/ InsertVectors(a) \/ Publish(a) \/ Complete(a)
    \/ Scan(a) \/ DeleteVectors(a)

Failure(a) ==
    \/ ReloadFails(a) \/ ChunkFails(a) \/ InsertFails(a)
    \/ PublishFails(a) \/ DeleteFails(a)

\* The bounds of the model are used up: nothing more is asked of the index.
Idle ==
    /\ \A s \in Slots : agent[s].stage = "off"
    /\ UNCHANGED vars

Next ==
    \/ \E a \in Agents : Run(a) \/ Failure(a)
    \/ \E s \in Slots :
          \/ Kill(s)
          \/ \E d \in Docs : StartIngest(s, d) \/ StartErase(s, d)
    \/ Idle

Spec == Init /\ [][Next]_vars

\* Subprocesses run on, and questions keep arriving at the readers.
FairSpec == Spec /\ \A a \in Agents : WF_vars(Run(a))

(***************************************************************************)
(* Properties.                                                             *)
(***************************************************************************)

Ingesting(d) ==
    \E a \in Agents : /\ agent[a].op = "ingest" /\ agent[a].doc = d
                      /\ agent[a].stage \in {"chunked", "inserted"}

Erasing(d) ==
    \E a \in Agents : /\ agent[a].op = "erase" /\ agent[a].doc = d
                      /\ agent[a].stage = "unvectored"

\* Qdrant and the docstore hold the same nodes, but for a run that stands
\* between its two writes or was cut off there.
StoresAgree ==
    /\ \A n \in vectors \ disk.nodes :
          Ingesting(n[1]) \/ <<"ingest", n[1]>> \in torn
    /\ \A n \in disk.nodes \ vectors :
          Erasing(n[1]) \/ <<"erase", n[1]>> \in torn

\* A run that exits with success leaves every chunk of the document in both
\* stores, whatever was cut short before it and whatever runs for others.
IndexedIsSearchable ==
    \A d \in Docs :
        last[d] = "ingest" => ChunksOf(d, runs[d]) \subseteq
                                   vectors \cap disk.nodes

\* An erasure that exits with success leaves nothing of the document in the
\* docstore, and nothing in Qdrant unless an ingestion was once cut short.
ErasedIsGone ==
    \A d \in Docs :
        last[d] = "erase" =>
            /\ disk.nodes \cap NodesOf(d) = {}
            /\ <<"ingest", d>> \in torn \/ vectors \cap NodesOf(d) = {}

\* A run that exited with success did what it was asked to.
FinishedRunHolds == IndexedIsSearchable /\ ErasedIsGone

\* Replacing the whole file loses nobody else's nodes: a node leaves the
\* docstore only by an erasure of its own document.  It needs the single
\* writer that WorkerSettings asks for.
NothingLost ==
    [][\A n \in disk.nodes : n \notin disk'.nodes => Erasing(n[1])]_vars

\* A reader that sees no new mtime has nothing to reload.
StampIsTruthful ==
    \A r \in Readers :
        agent[r].stage = "ready" /\ agent[r].seen = disk.stamp =>
            agent[r].nodes = disk.nodes

\* architecture.md: API workers hot-reload a completed snapshot.
HotReload ==
    \A r \in Readers :
        <>[](agent[r].stage = "ready" => agent[r].nodes = disk.nodes)
=============================================================================
