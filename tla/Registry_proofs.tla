--------------------------- MODULE Registry_proofs ---------------------------
(***************************************************************************)
(* Proofs about Registry for any documents, versions and situations:       *)
(* version chains follow the keys, a failed request is undone, and wrong   *)
(* attempts are counted, whatever transactions PostgreSQL lets interleave. *)
(***************************************************************************)
EXTENDS Registry, FiniteSetTheorems, TLAPS

Steps(q) ==
    \/ Look(q) \/ Write(q) \/ Select(q) \/ Link(q) \/ CloseProject(q)
    \/ Commit(q) \/ Abort(q)

Own(q) == Makes(ops[q])
Pended(q) == DOMAIN pend[q]

\* The requests do not change, and each makes rows of its own.
OpsInv ==
    /\ IsFiniteSet(Requests)
    /\ \A q \in Requests : ops[q] \in Request
    /\ \A p, q \in Requests : p # q => Own(p) \cap Own(q) = {}

\* A row of a document, a project, a chat.
IsRow(x, r) ==
    /\ x \in Documents => r = [st |-> r.st, sup |-> r.sup]
    /\ x \in Projects \cup {Workspace} => r = [st |-> r.st]
    /\ x \in Chats => r = [st |-> r.st, project |-> r.project]

RowTypes ==
    /\ row = [x \in Ids |-> row[x]]
    /\ \A x \in Ids : IsRow(x, row[x])
    /\ row[Account] \in [failed : Nat, lock : {"none", "on", "past"}]

Labels == {"look", "write", "select", "link", "close", "commit", "done"}
Results == {"none", "ok", "missing", "error", "refused"}

Types ==
    /\ OpsInv /\ RowTypes
    /\ pc \in [Requests -> Labels]
    /\ result \in [Requests -> Results]
    /\ seen = [q \in Requests |-> seen[q]]
    /\ pend = [q \in Requests |-> pend[q]]
    /\ plan = [q \in Requests |-> plan[q]]
    /\ basis = [g \in Range(Group) |-> basis[g]]

\* Where a request is, and what its transaction may have written by then.
Placed(q) ==
    /\ pc[q] = "done" <=> result[q] # "none"
    /\ pc[q] \in {"look", "write", "done"} => Pended(q) = {}
    /\ pc[q] \in {"select", "link"} => ops[q].op \in Relinks
    /\ pc[q] = "close" => ops[q].op = "drop"
    /\ Pended(q) \subseteq Ids \ {Account}
    /\ ops[q].op \in Relinks =>
          \A x \in Pended(q) : x \in Documents /\ Group[x] \in Groups(q)
    /\ ops[q].op \notin Relinks => Pended(q) \cap Documents = {}

\* A request that has not succeeded has left no row of its own; the rows an
\* open transaction writes are there, or its own, and stay.
Written(q) ==
    /\ result[q] # "ok" => \A x \in Own(q) : row[x].st = "none"
    /\ \A x \in Pended(q) :
          /\ IsRow(x, pend[q][x]) /\ pend[q][x].st # "none"
          /\ x \in Own(q) \/ x = Workspace \/ row[x].st # "none"
          /\ x \in Documents =>
                \/ x \in Own(q) /\ pend[q][x].st = "live"
                \/ x \notin Own(q) /\ pend[q][x].st = row[x].st
                \/ /\ ops[q].op = "delete" /\ x = ops[q].doc
                   /\ pend[q][x].st = "gone"

\* What a rebuild has read and has still to link.
Planned(q) ==
    /\ ops[q].op = "upload" /\ pc[q] \in {"select", "link", "commit"} =>
          ops[q].doc \in Pended(q)
    /\ pc[q] = "link" =>
          /\ plan[q].at \in seen[q] /\ plan[q].rest \subseteq seen[q]
          /\ plan[q].at \notin plan[q].rest
    /\ pc[q] \in {"link", "commit"} /\ ops[q].op \in Relinks =>
          \A x \in seen[q] : /\ x \in Documents /\ Group[x] \in Groups(q)
                             /\ x \in Pended(q) \/ row[x].st # "none"

\* A deletion that has found its document finds it deleted by a request that
\* says so, or still there.
Deleted(q) ==
    ops[q].op = "delete" /\ pc[q] # "look" /\ result[q] # "missing" =>
        \/ Live(ops[q].doc)
        \/ \E w \in Requests : result[w] = "ok" /\ ops[w] = ops[q]

\* No two open transactions have written the same row.
Locked ==
    \A p, q \in Requests : p # q => Pended(p) \cap Pended(q) = {}

BaseInv ==
    /\ Types /\ Locked
    /\ \A q \in Requests : Placed(q) /\ Written(q) /\ Planned(q) /\ Deleted(q)

-----------------------------------------------------------------------------
LEMMA Distinct ==
    /\ Account \notin Documents \cup Projects \cup Chats \cup {Workspace}
    /\ Workspace \notin Documents \cup Projects \cup Chats
    /\ Documents \cap Projects = {} /\ Documents \cap Chats = {}
    /\ Projects \cap Chats = {}
    /\ \A d \in Documents : Group[d] \in Range(Group)
    BY RegistryAssumption DEF Account, Workspace, Range

\* What a request is about, by its kind.
LEMMA RequestFields ==
    ASSUME NEW r \in Request
    PROVE  /\ r.op \in {"upload", "status", "delete"} => r.doc \in Documents
           /\ r.op = "drop" => r.project \in Projects
           /\ r.op \in {"open", "move", "first"} =>
                 r.project \in Projects /\ r.chat \in Chats
           /\ r.op \in {"upload", "status", "delete", "drop", "backfill",
                        "open", "move", "first", "login"}
           /\ \A s \in Request : r.op = "delete" /\ s.op = "delete"
                                 /\ r.doc = s.doc => r = s
    BY DEF Request

LEMMA OwnRows ==
    ASSUME NEW q \in Requests, ops[q] \in Request
    PROVE  /\ Own(q) \subseteq Documents \cup Projects \cup Chats
           /\ ops[q].op = "upload" => Own(q) = {ops[q].doc}
           /\ ops[q].op = "open" => Own(q) = {ops[q].chat}
           /\ ops[q].op = "first" => Own(q) = {ops[q].project, ops[q].chat}
           /\ ops[q].op \notin {"upload", "open", "first"} => Own(q) = {}
           /\ ops[q].op # "upload" => Own(q) \cap Documents = {}
    BY RequestFields, Distinct DEF Own, Makes, Ids

-----------------------------------------------------------------------------
(***************************************************************************)
(* A step of a request is about its own transaction.                       *)
(***************************************************************************)
LEMMA OneRequest ==
    ASSUME Types, NEW q \in Requests, Steps(q)
    PROVE  /\ ops' = ops
           /\ pc' = [pc EXCEPT ![q] = pc'[q]] /\ pc'[q] \in Labels
           /\ result' = [result EXCEPT ![q] = result'[q]]
           /\ result'[q] \in Results
           /\ pend' = [pend EXCEPT ![q] = pend'[q]]
           /\ plan' = [plan EXCEPT ![q] = plan'[q]]
           /\ seen' = [seen EXCEPT ![q] = seen'[q]]
  <1> USE DEF Types, Labels, Results
  <1>1. CASE Look(q) \/ CloseProject(q) \/ Abort(q)
    BY <1>1 DEF Look, CloseProject, Abort, Goto, End, Put
  <1>2. CASE Write(q)
    <2>1. CASE InsertDocument(q) \/ UpdateDocument(q) \/ HideDocument(q)
      BY <1>2, <2>1
      DEF Write, InsertDocument, UpdateDocument, HideDocument, Goto, End, Put
    <2>2. CASE DetachChats(q) \/ OpenChat(q) \/ MoveChat(q) \/ Login(q)
      BY <1>2, <2>2
      DEF Write, DetachChats, OpenChat, MoveChat, Login, Goto, End
    <2>3. CASE InsertWorkspace(q)
      BY <1>2, <2>3 DEF Write, InsertWorkspace, Goto, End, Put
    <2> QED  BY <1>2, <2>1, <2>2, <2>3 DEF Write
  <1>3. CASE Select(q)
    BY <1>3 DEF Select, Goto
  <1>4. CASE Link(q)
    BY <1>4 DEF Link, Goto, Put
  <1>5. CASE Commit(q)
    BY <1>5 DEF Commit, End, Goto, Outcome
  <1> QED  BY <1>1, <1>2, <1>3, <1>4, <1>5 DEF Steps

\* Which rows a step of a request may write, and how they stay rows.
LEMMA RowStep ==
    ASSUME BaseInv, NEW q \in Requests, Steps(q)
    PROVE  /\ RowTypes'
           /\ \/ UNCHANGED row
              \/ /\ Commit(q)
                 /\ \A x \in Ids :
                       row'[x] = IF x \in Pended(q) THEN pend[q][x] ELSE row[x]
              \/ /\ OpenChat(q) /\ result'[q] = "ok"
                 /\ row'[ops[q].chat].st = "live"
                 /\ ops[q].chat \in Own(q)
                 /\ \A x \in Ids \ {ops[q].chat} : row'[x] = row[x]
              \/ /\ MoveChat(q) /\ row[ops[q].chat].st = "live"
                 /\ row'[ops[q].chat].st = row[ops[q].chat].st
                 /\ ops[q].chat \in Chats
                 /\ \A x \in Ids \ {ops[q].chat} : row'[x] = row[x]
              \/ /\ Login(q)
                 /\ \A x \in Ids \ {Account} : row'[x] = row[x]
  <1>0. /\ RowTypes /\ ops[q] \in Request /\ Placed(q) /\ Written(q)
        /\ Account \in Ids
    BY DEF BaseInv, Types, OpsInv, Ids
  <1>1. CASE Look(q) \/ Select(q) \/ Link(q) \/ CloseProject(q) \/ Abort(q)
    <2>1. UNCHANGED row
      BY <1>1 DEF Look, Select, Link, CloseProject, Abort
    <2> QED  BY <1>0, <2>1 DEF RowTypes, IsRow
  <1>2. CASE Write(q)
    <2>1. CASE InsertDocument(q) \/ UpdateDocument(q) \/ HideDocument(q)
               \/ DetachChats(q) \/ InsertWorkspace(q)
      <3>1. UNCHANGED row
        BY <2>1 DEF InsertDocument, UpdateDocument, HideDocument, DetachChats,
                    InsertWorkspace
      <3> QED  BY <1>0, <3>1 DEF RowTypes, IsRow
    <2>2. CASE OpenChat(q)
      <3>1. /\ ops[q].op = "open" /\ ops[q].chat \in Chats
            /\ ops[q].chat \in Own(q) /\ ops[q].chat \in Ids \ {Account}
            /\ ops[q].chat \notin Documents \cup Projects \cup {Workspace}
        BY <1>0, <2>2, RequestFields, OwnRows, Distinct DEF OpenChat, Ids
      <3>2. /\ row' = [row EXCEPT ![ops[q].chat] =
                                 [st |-> "live", project |-> {ops[q].project}]]
            /\ result'[q] = "ok"
        BY <2>2, OneRequest DEF OpenChat, End, BaseInv, Types
      <3>3. /\ row'[ops[q].chat] =
                  [st |-> "live", project |-> {ops[q].project}]
            /\ \A x \in Ids \ {ops[q].chat} : row'[x] = row[x]
            /\ row' = [x \in Ids |-> row'[x]]
        BY <1>0, <3>1, <3>2 DEF RowTypes
      <3>4. RowTypes'
        BY <1>0, <3>1, <3>3 DEF RowTypes, IsRow
      <3> QED  BY <2>2, <3>1, <3>2, <3>3, <3>4
    <2>3. CASE MoveChat(q)
      <3>1. /\ ops[q].chat \in Chats /\ ops[q].chat \in Ids \ {Account}
            /\ ops[q].chat \notin Documents \cup Projects \cup {Workspace}
        BY <1>0, <2>3, RequestFields, Distinct DEF MoveChat, Ids
      <3>2. CASE UNCHANGED row
        BY <1>0, <3>2 DEF RowTypes, IsRow
      <3>3. CASE ~UNCHANGED row
        <4> DEFINE c == ops[q].chat
                   new == [row[c] EXCEPT !.project = {ops[q].project}]
        <4>1. /\ row[c].st = "live" /\ row' = [row EXCEPT ![c] = new]
          BY <2>3, <3>3 DEF MoveChat, Live
        <4>2. new = [st |-> row[c].st, project |-> {ops[q].project}]
          <5>1. row[c] = [st |-> row[c].st, project |-> row[c].project]
            BY <1>0, <3>1 DEF RowTypes, IsRow
          <5> QED  BY <5>1
        <4> HIDE DEF new
        <4>3. /\ row'[c] = new /\ new.st = row[c].st
              /\ \A x \in Ids \ {c} : row'[x] = row[x]
              /\ row' = [x \in Ids |-> row'[x]]
          BY <1>0, <3>1, <4>1, <4>2 DEF RowTypes
        <4>4. IsRow(c, new)
          BY <3>1, <4>2 DEF IsRow
        <4>5. RowTypes'
          BY <1>0, <3>1, <4>3, <4>4 DEF RowTypes, IsRow
        <4> QED  BY <2>3, <3>1, <4>1, <4>3, <4>5
      <3> QED  BY <3>2, <3>3
    <2>4. CASE Login(q)
      <3>1. /\ row' = [row EXCEPT ![Account] = row'[Account]]
            /\ row'[Account] \in [failed : Nat, lock : {"none", "on", "past"}]
        BY <1>0, <2>4 DEF Login, Refused, RowTypes
      <3> QED  BY <1>0, <2>4, <3>1, Distinct DEF RowTypes, IsRow
    <2> QED  BY <1>2, <2>1, <2>2, <2>3, <2>4 DEF Write
  <1>3. CASE Commit(q)
    <2>1. /\ row' = [x \in Pended(q) \cup Ids |->
                        IF x \in Pended(q) THEN pend[q][x] ELSE row[x]]
      BY <1>0, <1>3 DEF Commit, Over, RowTypes, Pended
    <2>2. /\ row' = [x \in Ids |-> row'[x]]
          /\ \A x \in Ids :
                row'[x] = IF x \in Pended(q) THEN pend[q][x] ELSE row[x]
          /\ row'[Account] = row[Account]
      BY <1>0, <2>1 DEF Placed
    <2>3. \A x \in Ids : IsRow(x, row'[x])
      BY <1>0, <2>2 DEF RowTypes, Written
    <2>4. RowTypes'
      BY <1>0, <2>2, <2>3 DEF RowTypes, IsRow
    <2> QED  BY <1>3, <2>2, <2>4
  <1> QED  BY <1>1, <1>2, <1>3 DEF Steps

\* A step that keeps the rows a transaction has written keeps what is known
\* of them, as long as no row it knows disappears.
LEMMA WrittenFrame ==
    ASSUME BaseInv, NEW p \in Requests, ops' = ops,
           pend'[p] = pend[p], result'[p] = result[p],
           \A x \in Ids \ {Account} :
              row[x].st # "none" => row'[x].st # "none",
           \A x \in Pended(p) \cap Documents : row'[x].st = row[x].st,
           \A x \in Own(p) : row[x].st = "none" => row'[x].st = "none"
    PROVE  Written(p)'
  <1>1. Written(p) /\ Pended(p) \subseteq Ids \ {Account}
    BY DEF BaseInv, Placed
  <1>2. /\ Own(p)' = Own(p) /\ Pended(p)' = Pended(p)
        /\ \A x : IsRow(x, pend'[p][x]) <=> IsRow(x, pend[p][x])
    BY DEF Own, Pended, Makes, IsRow
  <1> QED  BY <1>1, <1>2 DEF Written, IsRow

LEMMA PutEffect ==
    ASSUME Types, NEW q \in Requests, NEW d, NEW v, Put(q, d, v)
    PROVE  /\ Pended(q)' = Pended(q) \cup {d}
           /\ pend'[q][d] = v
           /\ \A x \in Pended(q) \ {d} : pend'[q][x] = pend[q][x]
    BY DEF Types, Put, Over, Pended

\* A request that puts its own document, hides it or relinks another, or
\* hides what it has found.
LEMMA PutWritten ==
    ASSUME BaseInv, NEW q \in Requests, NEW d \in Ids \ {Account}, NEW v,
           Put(q, d, v), UNCHANGED <<ops, row>>, result'[q] = result[q],
           IsRow(d, v), v.st # "none",
           d \in Own(q) \/ d = Workspace \/ row[d].st # "none",
           d \in Documents =>
              \/ d \in Own(q) /\ v.st = "live"
              \/ d \notin Own(q) /\ v.st = row[d].st
              \/ /\ ops[q].op = "delete" /\ d = ops[q].doc /\ v.st = "gone"
    PROVE  /\ Written(q)'
           /\ Pended(q)' \subseteq Ids \ {Account}
  <1>1. Types /\ Written(q) /\ Pended(q) \subseteq Ids \ {Account}
    BY DEF BaseInv, Placed
  <1>2. /\ Pended(q)' = Pended(q) \cup {d} /\ pend'[q][d] = v
        /\ \A x \in Pended(q) \ {d} : pend'[q][x] = pend[q][x]
    BY <1>1, PutEffect
  <1>3. Own(q)' = Own(q)
    BY DEF Own, Makes
  <1>4. \A x \in Pended(q)' :
            /\ IsRow(x, pend'[q][x]) /\ pend'[q][x].st # "none"
            /\ x \in Own(q) \/ x = Workspace \/ row[x].st # "none"
            /\ x \in Documents =>
                  \/ x \in Own(q) /\ pend'[q][x].st = "live"
                  \/ x \notin Own(q) /\ pend'[q][x].st = row[x].st
                  \/ /\ ops[q].op = "delete" /\ x = ops[q].doc
                     /\ pend'[q][x].st = "gone"
    BY <1>1, <1>2 DEF Written
  <1>5. \A x \in Pended(q)' : IsRow(x, pend[q][x])' <=> IsRow(x, pend'[q][x])
    BY DEF IsRow
  <1> QED  BY <1>1, <1>2, <1>3, <1>4, <1>5 DEF Written

\* A row that no other request has written becomes this one's.
Unlocked(q, d) == \A p \in Requests \ {q} : d \notin Pended(p)

LEMMA FreeRow ==
    ASSUME NEW d, NEW q \in Requests
    PROVE  Free(d, q) <=> Unlocked(q, d)
    BY DEF Free, Unlocked, Pended

LEMMA OwnUnlocked ==
    ASSUME BaseInv, NEW q \in Requests, result[q] # "ok", NEW d \in Own(q)
    PROVE  Unlocked(q, d)
  <1> SUFFICES ASSUME NEW p \in Requests \ {q}, d \in Pended(p)
               PROVE  FALSE
    BY DEF Unlocked
  <1>1. row[d].st = "none" /\ d # Workspace
    BY OwnRows, Distinct DEF BaseInv, Types, OpsInv, Written
  <1>2. d \in Own(p)
    BY <1>1 DEF BaseInv, Written
  <1> QED  BY <1>2 DEF BaseInv, Types, OpsInv

Locks(q) == \A p \in Requests \ {q} : Pended(p) \cap Pended(q)' = {}

\* A request that takes a step has not ended: nobody waits for the one that
\* has, and it waits for nobody.
LEMMA Unfinished ==
    ASSUME BaseInv, NEW q \in Requests, Steps(q)
    PROVE  pc[q] # "done" /\ result[q] = "none"
  <1>1. pc[q] # "done"
    <2>1. CASE Abort(q)
      <3>1. Wanted(q) # {}
        BY <2>1 DEF Abort, Deadlocked, Waits
      <3> QED  BY <3>1 DEF Wanted
    <2> QED  BY <2>1 DEF Steps, Look, Write, Select, Link, CloseProject, Commit
  <1> QED  BY <1>1 DEF BaseInv, Types, Placed, Results

\* Look, UpdateDocument, Select: nothing is written.
LEMMA ReadingStep ==
    ASSUME BaseInv, NEW q \in Requests, Steps(q),
           Look(q) \/ (Write(q) /\ UpdateDocument(q)) \/ Select(q)
    PROVE  Placed(q)' /\ Written(q)' /\ Planned(q)' /\ Locks(q)
  <1>0. /\ Types /\ Placed(q) /\ Written(q) /\ Planned(q) /\ Locked
        /\ result[q] = "none" /\ ops[q] \in Request
        /\ \A p \in Requests : Placed(p)
    BY Unfinished DEF BaseInv, Types, OpsInv
  <1>1. UNCHANGED <<ops, row, pend>>
    BY DEF Look, Write, UpdateDocument, Select
  <1>2. Own(q)' = Own(q) /\ Pended(q)' = Pended(q) /\ Groups(q)' = Groups(q)
    BY <1>1 DEF Own, Makes, Pended, Groups
  <1>3. Written(q)' /\ Locks(q)
    <2>1. \A x : IsRow(x, pend[q][x])' <=> IsRow(x, pend[q][x])
      BY <1>1 DEF IsRow
    <2>2. Locks(q)
      BY <1>0, <1>2 DEF Locked, Locks
    <2> QED  BY <1>0, <1>1, <1>2, <2>1, <2>2 DEF Written
  <1>4. CASE Look(q)
    <2>1. /\ pc[q] = "look" /\ ops[q].op # "backfill"
          /\ \/ pc'[q] = "done" /\ result'[q] # "none"
             \/ pc'[q] = "write" /\ result'[q] = "none"
      BY <1>0, <1>4 DEF Look, End, Goto, Types
    <2> QED  BY <1>0, <1>1, <1>2, <1>3, <2>1 DEF Placed, Planned
  <1>5. CASE Write(q) /\ UpdateDocument(q)
    <2>1. /\ pc[q] = "write" /\ ops[q].op = "status"
          /\ \/ pc'[q] = "done" /\ result'[q] # "none"
             \/ pc'[q] = "select" /\ result'[q] = "none"
      BY <1>0, <1>5 DEF Write, UpdateDocument, End, Goto, Types
    <2> QED  BY <1>0, <1>1, <1>2, <1>3, <2>1 DEF Placed, Planned, Relinks
  <1>6. CASE Select(q)
    <2>1. /\ result'[q] = "none" /\ pc'[q] \in {"link", "commit"}
          /\ ops[q].op \in Relinks /\ (ops[q].op = "upload" => pc[q] = "select")
      BY <1>0, <1>6 DEF Select, Goto, Types, Placed, Relinks
    <2>2. seen'[q] = UNION {Members(g, q) : g \in Groups(q)}
      BY <1>0, <1>6 DEF Select, Types
    <2>3. \A x \in seen'[q] :
              /\ x \in Documents /\ Group[x] \in Groups(q)
              /\ x \in Pended(q) \/ row[x].st # "none"
      BY <2>2 DEF Members, Current, Pended
    <2>4. pc'[q] = "link" =>
              /\ plan'[q].at \in seen'[q] /\ plan'[q].rest \subseteq seen'[q]
              /\ plan'[q].at \notin plan'[q].rest
      <3> SUFFICES ASSUME pc'[q] = "link"
                   PROVE  /\ plan'[q].at \in seen'[q]
                          /\ plan'[q].rest \subseteq seen'[q]
                          /\ plan'[q].at \notin plan'[q].rest
        OBVIOUS
      <3>1. PICK d \in First(seen'[q]) :
                plan'[q] = [at |-> d, rest |-> seen'[q] \ {d},
                            previous |-> {}, predecessor |-> {}]
        BY <1>0, <1>6, <2>2 DEF Select, Goto, Types
      <3> QED  BY <3>1 DEF First
    <2> QED  BY <1>0, <1>1, <1>2, <1>3, <2>1, <2>3, <2>4
             DEF Placed, Planned, Relinks
  <1> QED  BY <1>4, <1>5, <1>6

\* Documents: a row is inserted, hidden or linked, and locked by that.
LEMMA DocumentStep ==
    ASSUME BaseInv, NEW q \in Requests, Steps(q),
           \/ Write(q) /\ (InsertDocument(q) \/ HideDocument(q))
           \/ Link(q)
    PROVE  Placed(q)' /\ Written(q)' /\ Planned(q)' /\ Locks(q)
  <1>0. /\ Types /\ Placed(q) /\ Written(q) /\ Planned(q) /\ Locked
        /\ result[q] = "none" /\ ops[q] \in Request /\ RowTypes
    BY Unfinished DEF BaseInv, Types, OpsInv
  <1>1. UNCHANGED <<ops, row, result>>
    BY DEF Write, InsertDocument, HideDocument, Link
  <1>2. Own(q)' = Own(q) /\ Groups(q)' = Groups(q)
    BY <1>1 DEF Own, Makes, Groups
  <1>3. ASSUME NEW d, Unlocked(q, d), Pended(q)' = Pended(q) \cup {d}
        PROVE  Locks(q)
    BY <1>0, <1>3 DEF Locked, Locks, Unlocked
  <1>4. CASE Write(q) /\ InsertDocument(q)
    <2> DEFINE d == ops[q].doc
    <2>1. /\ pc[q] = "write" /\ ops[q].op = "upload" /\ pc'[q] = "select"
          /\ Put(q, d, [st |-> "live", sup |-> {}]) /\ Pended(q) = {}
          /\ d \in Documents /\ Own(q) = {d} /\ d \in Ids \ {Account}
      BY <1>0, <1>4, RequestFields, OwnRows, Distinct
      DEF Write, InsertDocument, Goto, Types, Placed, Ids
    <2>2. Pended(q)' = {d}
      BY <1>0, <2>1, PutEffect
    <2>3. Unlocked(q, d)
      BY <1>0, <2>1, OwnUnlocked
    <2>4. IsRow(d, [st |-> "live", sup |-> {}])
      BY <2>1, Distinct DEF IsRow
    <2>5. Written(q)'
      BY <1>0, <1>1, <2>1, <2>4, PutWritten
    <2> QED  BY <1>0, <1>1, <1>2, <1>3, <2>1, <2>2, <2>3, <2>5
             DEF Placed, Planned, Relinks, Groups
  <1>5. CASE Write(q) /\ HideDocument(q)
    <2> DEFINE d == ops[q].doc
               new == [row[d] EXCEPT !.st = "gone"]
    <2>1. /\ pc[q] = "write" /\ ops[q].op = "delete" /\ pc'[q] = "select"
          /\ Pended(q) = {} /\ Unlocked(q, d) /\ d \in Documents
          /\ d \in Ids \ {Account} /\ Own(q) = {}
          /\ \/ pend'[q] = pend[q]
             \/ row[d].st = "live" /\ Put(q, d, new)
      BY <1>0, <1>5, RequestFields, OwnRows, Distinct, FreeRow
      DEF Write, HideDocument, Goto, Types, Placed, Ids, Live
    <2>2. CASE pend'[q] = pend[q]
      <3>1. Pended(q)' = Pended(q)
        BY <2>2 DEF Pended
      <3>2. Written(q)' /\ Locks(q)
        BY <1>0, <1>1, <1>2, <2>1, <3>1 DEF Written, Locks
      <3> QED  BY <1>0, <1>1, <1>2, <2>1, <3>1, <3>2
               DEF Placed, Planned, Relinks
    <2>3. CASE row[d].st = "live" /\ Put(q, d, new)
      <3>1. new = [st |-> "gone", sup |-> row[d].sup]
        <4>1. row[d] = [st |-> row[d].st, sup |-> row[d].sup]
          BY <1>0, <2>1 DEF RowTypes, IsRow
        <4> QED  BY <4>1
      <3> HIDE DEF new
      <3>2. IsRow(d, new) /\ new.st = "gone"
        BY <2>1, <3>1, Distinct DEF IsRow
      <3>3. Pended(q)' = {d}
        BY <1>0, <2>1, <2>3, PutEffect
      <3>4. Written(q)'
        BY <1>1, <2>1, <2>3, <3>2, PutWritten
      <3> QED  BY <1>0, <1>1, <1>2, <1>3, <2>1, <3>3, <3>4
               DEF Placed, Planned, Relinks, Groups
    <2> QED  BY <2>1, <2>2, <2>3
  <1>6. CASE Link(q)
    <2> DEFINE d == plan[q].at
               old == Current(d, q)
               new == [old EXCEPT !.sup = Linked(q)]
    <2>1. /\ pc[q] = "link" /\ ops[q].op \in Relinks
          /\ pc'[q] \in {"link", "commit"} /\ seen' = seen
          /\ d \in seen[q] /\ d \in Documents /\ d \in Ids \ {Account}
          /\ Group[d] \in Groups(q)
          /\ d \in Pended(q) \/ row[d].st # "none"
          /\ Unlocked(q, d) /\ Put(q, d, new)
      BY <1>0, <1>6, Distinct, FreeRow DEF Link, Goto, Types, Placed, Planned, Ids
    <2>2. IsRow(d, old) /\ old = IF d \in Pended(q) THEN pend[q][d] ELSE row[d]
      BY <1>0, <2>1 DEF Current, Written, RowTypes, Pended
    <2>3. new = [st |-> old.st, sup |-> Linked(q)]
      <3>1. old = [st |-> old.st, sup |-> old.sup]
        BY <2>1, <2>2 DEF IsRow
      <3> QED  BY <3>1
    <2> HIDE DEF old, new
    <2>4. IsRow(d, new) /\ new.st = old.st
      BY <2>1, <2>3, Distinct DEF IsRow
    <2>5. Pended(q)' = Pended(q) \cup {d}
      BY <1>0, <2>1, PutEffect
    <2>6. new.st # "none"
          /\ (d \in Own(q) \/ row[d].st # "none")
          /\ \/ d \in Own(q) /\ new.st = "live"
             \/ d \notin Own(q) /\ new.st = row[d].st
             \/ /\ ops[q].op = "delete" /\ d = ops[q].doc /\ new.st = "gone"
      BY <1>0, <2>1, <2>2, <2>4, Distinct DEF Written
    <2>7. Written(q)'
      BY <1>1, <2>1, <2>4, <2>6, PutWritten
    <2>8. pc'[q] = "link" =>
              /\ plan'[q].at \in seen[q] /\ plan'[q].rest \subseteq seen[q]
              /\ plan'[q].at \notin plan'[q].rest
      <3> SUFFICES ASSUME pc'[q] = "link"
                   PROVE  /\ plan'[q].at \in seen[q]
                          /\ plan'[q].rest \subseteq seen[q]
                          /\ plan'[q].at \notin plan'[q].rest
        OBVIOUS
      <3> DEFINE rest == plan[q].rest
                 same == {e \in rest : Group[e] = Group[d]}
      <3>1. PICK e \in First(IF same # {} THEN same ELSE rest) :
                plan' = [plan EXCEPT ![q] =
                    [at |-> e, rest |-> rest \ {e},
                     previous |-> IF Previous(q) = {} \/ Newer(q) THEN {d}
                                                                 ELSE Previous(q),
                     predecessor |-> Linked(q)]]
        BY <1>0, <1>6 DEF Link, Goto, Types
      <3>2. plan'[q].at = e /\ plan'[q].rest = rest \ {e} /\ e \in rest
        BY <1>0, <3>1 DEF First, Types
      <3> QED  BY <1>0, <2>1, <3>2 DEF Planned
    <2> QED  BY <1>0, <1>1, <1>2, <1>3, <2>1, <2>5, <2>7, <2>8
             DEF Placed, Planned, Relinks
  <1> QED  BY <1>4, <1>5, <1>6

\* Projects, chats and the first workspace: what is found live is hidden or
\* detached, what is made is the request's own.
LEMMA WorkspaceStep ==
    ASSUME BaseInv, NEW q \in Requests, Steps(q),
           \/ Write(q) /\ (DetachChats(q) \/ InsertWorkspace(q))
           \/ CloseProject(q)
    PROVE  Placed(q)' /\ Written(q)' /\ Planned(q)' /\ Locks(q)
  <1>0. /\ Types /\ Placed(q) /\ Written(q) /\ Planned(q) /\ Locked
        /\ result[q] = "none" /\ ops[q] \in Request /\ RowTypes
    BY Unfinished DEF BaseInv, Types, OpsInv
  <1>1. UNCHANGED <<ops, row>>
    BY DEF Write, DetachChats, InsertWorkspace, CloseProject
  <1>2. Own(q)' = Own(q) /\ Groups(q)' = Groups(q)
    BY <1>1 DEF Own, Makes, Groups
  <1>3. pend'[q] = pend[q] => Pended(q)' = Pended(q)
    BY DEF Pended
  <1>4. CASE Write(q) /\ DetachChats(q)
    <2> DEFINE new(c) == [row[c] EXCEPT !.project = {}]
    <2>1. /\ pc[q] = "write" /\ ops[q].op = "drop" /\ pc'[q] = "close"
          /\ result' = result /\ Own(q) = {}
          /\ \A c \in Detached(q) : Unlocked(q, c)
          /\ pend' = [pend EXCEPT ![q] = [c \in Detached(q) |-> new(c)]]
      BY <1>0, <1>4, OwnRows, FreeRow DEF Write, DetachChats, Goto, Types
    <2>2. /\ Pended(q)' = Detached(q)
          /\ \A c \in Detached(q) : pend'[q][c] = new(c)
      BY <1>0, <2>1 DEF Types, Pended
    <2>3. \A c \in Detached(q) :
              /\ c \in Chats /\ c \in Ids \ {Account} /\ c \notin Documents
              /\ row[c].st = "live"
              /\ c \notin Projects \cup {Workspace}
      BY Distinct DEF Detached, Live, Ids
    <2>4. ASSUME NEW c \in Detached(q)
          PROVE  new(c) = [st |-> "live", project |-> {}]
      <3>1. row[c] = [st |-> row[c].st, project |-> row[c].project]
        BY <1>0, <2>3 DEF RowTypes, IsRow
      <3> QED  BY <2>3, <3>1
    <2>5. \A c \in Detached(q) :
              IsRow(c, pend'[q][c]) /\ pend'[q][c].st = "live"
      BY <2>2, <2>3, <2>4 DEF IsRow
    <2>6. \A c : IsRow(c, pend[q][c])' <=> IsRow(c, pend'[q][c])
      BY DEF IsRow
    <2>7. Written(q)'
      BY <1>0, <1>1, <1>2, <2>1, <2>2, <2>3, <2>5, <2>6 DEF Written
    <2>8. Locks(q)
      BY <2>1, <2>2 DEF Locks, Unlocked
    <2> QED  BY <1>0, <1>1, <2>1, <2>2, <2>3, <2>7, <2>8
             DEF Placed, Planned, Relinks
  <1>5. CASE CloseProject(q)
    <2> DEFINE p == ops[q].project
    <2>1. /\ pc[q] = "close" /\ ops[q].op = "drop" /\ pc'[q] = "commit"
          /\ result' = result /\ Own(q) = {} /\ Unlocked(q, p)
          /\ p \in Projects /\ p \in Ids \ {Account} /\ p \notin Documents
          /\ p \notin Chats
          /\ \/ pend'[q] = pend[q]
             \/ row[p].st = "live" /\ Put(q, p, [st |-> "gone"])
      BY <1>0, <1>5, OwnRows, FreeRow, RequestFields, Distinct
      DEF CloseProject, Goto, Types, Placed, Live, Ids
    <2>2. CASE pend'[q] = pend[q]
      <3>1. Written(q)' /\ Locks(q)
        <4>1. \A x : IsRow(x, pend[q][x])' <=> IsRow(x, pend[q][x])
          BY <2>2 DEF IsRow
        <4>2. Locks(q)
          BY <1>0, <1>3, <2>2 DEF Locked, Locks
        <4> QED  BY <1>0, <1>1, <1>2, <1>3, <2>1, <2>2, <4>1, <4>2 DEF Written
      <3> QED  BY <1>0, <1>1, <1>3, <2>1, <2>2, <3>1
               DEF Placed, Planned, Relinks
    <2>3. CASE row[p].st = "live" /\ Put(q, p, [st |-> "gone"])
      <3>1. IsRow(p, [st |-> "gone"])
        BY <2>1 DEF IsRow
      <3>2. Written(q)'
        BY <1>1, <2>1, <2>3, <3>1, PutWritten
      <3>3. Pended(q)' = Pended(q) \cup {p}
        BY <1>0, <2>3, PutEffect
      <3>4. Locks(q)
        BY <1>0, <2>1, <3>3 DEF Locked, Locks, Unlocked
      <3> QED  BY <1>0, <1>1, <2>1, <3>2, <3>3, <3>4
               DEF Placed, Planned, Relinks
    <2> QED  BY <2>1, <2>2, <2>3
  <1>6. CASE Write(q) /\ InsertWorkspace(q)
    <2> DEFINE p == ops[q].project
               c == ops[q].chat
    <2>1. /\ pc[q] = "write" /\ ops[q].op = "first" /\ Pended(q) = {}
          /\ p \in Projects /\ c \in Chats /\ Own(q) = {p, c}
          /\ {p, c, Workspace} \cap Documents = {} /\ p \notin Chats
          /\ Workspace \notin Chats /\ c \notin Projects \cup {Workspace}
          /\ {p, c, Workspace} \subseteq Ids \ {Account}
          /\ Unlocked(q, Workspace)
      BY <1>0, <1>6, OwnRows, FreeRow, RequestFields, Distinct
      DEF Write, InsertWorkspace, Placed, Ids
    <2>2. CASE Live(Workspace)
      <3>1. pc'[q] = "done" /\ result'[q] = "error" /\ pend' = pend
        BY <1>0, <1>6, <2>2 DEF InsertWorkspace, End, Goto, Types
      <3>2. Written(q)' /\ Locks(q)
        BY <1>0, <1>1, <1>2, <1>3, <2>1, <3>1 DEF Written, Locks
      <3> QED  BY <1>0, <1>1, <1>3, <2>1, <3>1, <3>2
               DEF Placed, Planned, Relinks
    <2>3. CASE ~Live(Workspace)
      <3> DEFINE live == [st |-> "live"]
                 chat == [st |-> "live", project |-> {p}]
      <3>1. /\ pc'[q] = "commit" /\ result' = result
            /\ pend' = [pend EXCEPT ![q] =
                            Over([x \in {p, Workspace} |-> live],
                                 [x \in {c} |-> chat])]
        BY <1>0, <1>6, <2>3 DEF InsertWorkspace, Goto, Types
      <3>2. /\ Pended(q)' = {p, c, Workspace}
            /\ pend'[q] = Over([x \in {p, Workspace} |-> live],
                               [x \in {c} |-> chat])
        BY <1>0, <3>1 DEF Types, Pended, Over
      <3>3. /\ pend'[q][p] = live /\ pend'[q][Workspace] = live
            /\ pend'[q][c] = chat
        BY <2>1, <3>2 DEF Over
      <3>4. \A x \in Pended(q)' :
                IsRow(x, pend'[q][x]) /\ pend'[q][x].st = "live"
        <4>1. IsRow(p, live) /\ IsRow(Workspace, live) /\ IsRow(c, chat)
          BY <2>1 DEF IsRow
        <4>2. live.st = "live" /\ chat.st = "live"
          OBVIOUS
        <4> HIDE DEF live, chat
        <4> QED  BY <3>2, <3>3, <4>1, <4>2
      <3>5. \A x : IsRow(x, pend[q][x])' <=> IsRow(x, pend'[q][x])
        BY DEF IsRow
      <3>6. Written(q)'
        BY <1>0, <1>1, <1>2, <2>1, <3>1, <3>2, <3>4, <3>5 DEF Written
      <3>7. Unlocked(q, p) /\ Unlocked(q, c)
        BY <1>0, <2>1, OwnUnlocked
      <3>8. Locks(q)
        BY <2>1, <3>2, <3>7 DEF Locks, Unlocked
      <3> QED  BY <1>0, <1>1, <2>1, <3>1, <3>2, <3>6, <3>8
               DEF Placed, Planned, Relinks
    <2> QED  BY <2>2, <2>3
  <1> QED  BY <1>4, <1>5, <1>6

\* The ends: a commit, an abort, and the statements that commit at once.
LEMMA EndingStep ==
    ASSUME BaseInv, NEW q \in Requests, Steps(q),
           \/ Write(q) /\ (OpenChat(q) \/ MoveChat(q) \/ Login(q))
           \/ Commit(q) \/ Abort(q)
    PROVE  Placed(q)' /\ Written(q)' /\ Planned(q)' /\ Locks(q)
  <1>0. /\ Types /\ Placed(q) /\ Written(q) /\ result[q] = "none"
        /\ ops[q] \in Request
    BY Unfinished DEF BaseInv, Types, OpsInv
  <1>1. ops' = ops
    BY OneRequest, <1>0
  <1>2. Own(q)' = Own(q) /\ Groups(q)' = Groups(q)
    BY <1>1 DEF Own, Makes, Groups
  <1>3. pc'[q] = "done" /\ result'[q] # "none" /\ Pended(q)' = {}
    <2>1. CASE Write(q) /\ (OpenChat(q) \/ MoveChat(q) \/ Login(q))
      BY <1>0, <2>1
      DEF Write, OpenChat, MoveChat, Login, End, Goto, Types, Placed, Pended
    <2>2. CASE Commit(q)
      BY <1>0, <2>2 DEF Commit, Outcome, End, Goto, Types, Pended
    <2>3. CASE Abort(q)
      BY <1>0, <2>3 DEF Abort, End, Goto, Types, Pended
    <2> QED  BY <2>1, <2>2, <2>3
  <1>4. result'[q] # "ok" => \A x \in Own(q) : row'[x] = row[x]
    <2>1. CASE Commit(q)
      <3>1. result'[q] # "ok" => ops[q].op \in {"delete", "drop"}
        BY <1>0, <2>1 DEF Commit, Outcome, End, Types
      <3> QED  BY <1>0, <3>1, OwnRows
    <2>2. CASE Abort(q)
      BY <2>2 DEF Abort
    <2>3. CASE Write(q) /\ (OpenChat(q) \/ MoveChat(q) \/ Login(q))
      <3>1. result'[q] # "ok" => ops[q].op \in {"move", "login"}
        BY <1>0, <2>3 DEF OpenChat, MoveChat, Login, End, Types
      <3> QED  BY <1>0, <3>1, OwnRows
    <2> QED  BY <2>1, <2>2, <2>3
  <1>5. Written(q)'
    BY <1>0, <1>2, <1>3, <1>4 DEF Written
  <1> QED  BY <1>3, <1>5 DEF Placed, Planned, Locks

LEMMA OwnStep ==
    ASSUME BaseInv, NEW q \in Requests, Steps(q)
    PROVE  Placed(q)' /\ Written(q)' /\ Planned(q)' /\ Locks(q)
    BY ReadingStep, DocumentStep, WorkspaceStep, EndingStep DEF Steps, Write

\* The rest of the invariant is kept for the other requests.
LEMMA OthersStep ==
    ASSUME BaseInv, NEW q \in Requests, Steps(q), NEW p \in Requests \ {q}
    PROVE  Placed(p)' /\ Written(p)' /\ Planned(p)'
  <1>0. /\ Types /\ Placed(p) /\ Written(p) /\ Planned(p) /\ Written(q)
        /\ Placed(q)
        /\ Own(p) \cap Own(q) = {} /\ Pended(p) \cap Pended(q) = {}
        /\ Own(p) \subseteq Ids \ {Account, Workspace}
        /\ ops[p] \in Request
    BY OwnRows, Distinct DEF BaseInv, Types, OpsInv, Locked, Ids
  <1>1. /\ ops' = ops /\ pc'[p] = pc[p] /\ result'[p] = result[p]
        /\ pend'[p] = pend[p] /\ plan'[p] = plan[p] /\ seen'[p] = seen[p]
    BY <1>0, OneRequest DEF Types
  <1>2. /\ Own(p)' = Own(p) /\ Groups(p)' = Groups(p)
        /\ Pended(p)' = Pended(p)
    BY <1>1 DEF Own, Makes, Groups, Pended
  <1>3. /\ \A x \in Ids \ {Account} :
              row[x].st # "none" => row'[x].st # "none"
        /\ \A x \in Pended(p) \cap Documents : row'[x].st = row[x].st
        /\ \A x \in Own(p) : row[x].st = "none" => row'[x].st = "none"
    <2>1. CASE Commit(q) /\ \A x \in Ids :
                  row'[x] = IF x \in Pended(q) THEN pend[q][x] ELSE row[x]
      <3>1. \A x \in Ids \cap Pended(q) :
                /\ row'[x].st # "none"
                /\ x \in Own(p) => row[x].st # "none"
        BY <1>0, <2>1 DEF Written
      <3>2. \A x \in Ids \ Pended(q) : row'[x] = row[x]
        BY <2>1
      <3> QED  BY <1>0, <3>1, <3>2 DEF Placed, Ids
    <2>2. CASE UNCHANGED row
      BY <2>2
    <2>3. CASE /\ row'[ops[q].chat].st = "live" /\ ops[q].chat \in Own(q)
               /\ OpenChat(q)
               /\ \A x \in Ids \ {ops[q].chat} : row'[x] = row[x]
      <3>1. ops[q].chat \notin Documents
        BY <1>0, <2>3, RequestFields, Distinct
        DEF BaseInv, Types, OpsInv, OpenChat
      <3> QED  BY <1>0, <2>3, <3>1 DEF Ids
    <2>4. CASE /\ row[ops[q].chat].st = "live" /\ ops[q].chat \in Chats
               /\ row'[ops[q].chat].st = row[ops[q].chat].st
               /\ \A x \in Ids \ {ops[q].chat} : row'[x] = row[x]
      BY <1>0, <2>4 DEF Ids
    <2>5. CASE \A x \in Ids \ {Account} : row'[x] = row[x]
      BY <1>0, <2>5, Distinct DEF Ids
    <2> QED  BY <2>1, <2>2, <2>3, <2>4, <2>5, RowStep
  <1>4. Written(p)'
    BY <1>1, <1>3, WrittenFrame
  <1>5. Placed(p)'
    BY <1>0, <1>1, <1>2 DEF Placed, Relinks
  <1>6. Planned(p)'
    <2>1. Documents \subseteq Ids \ {Account}
      BY Distinct DEF Ids
    <2> QED  BY <1>0, <1>1, <1>2, <1>3, <2>1 DEF Planned, Relinks
  <1> QED  BY <1>4, <1>5, <1>6

\* A deletion that has found its document: it is there, or deleted.
LEMMA DeletedStep ==
    ASSUME BaseInv, NEW q \in Requests, Steps(q), NEW p \in Requests
    PROVE  Deleted(p)'
  <1> DEFINE d == ops[p].doc
  <1>0. /\ Types /\ Placed(q) /\ Written(q) /\ ops[p] \in Request
        /\ ops[q] \in Request /\ ops' = ops /\ Deleted(p)
        /\ result[q] = "none"
    BY OneRequest, Unfinished DEF BaseInv, Types, OpsInv
  <1> SUFFICES ASSUME ops[p].op = "delete", pc'[p] # "look",
                      result'[p] # "missing"
               PROVE  \/ row'[d].st = "live"
                      \/ \E w \in Requests : result'[w] = "ok" /\ ops[w] = ops[p]
    BY <1>0 DEF Deleted, Live, Requests
  <1>1. d \in Documents /\ d \in Ids \ {Account} /\ d \notin Chats
    BY <1>0, RequestFields, Distinct DEF Ids
  <1>2. \A w \in Requests : result[w] = "ok" => result'[w] = "ok"
    BY <1>0, OneRequest DEF Types
  <1>3. CASE p = q /\ Look(q)
    BY <1>0, <1>3 DEF Look, Target, Live, End, Goto, Types
  <1>4. CASE ~(p = q /\ Look(q))
    <2>1. pc[p] # "look" /\ result[p] # "missing"
      <3>1. CASE p = q
        <4>1. pc[q] # "look"
          BY <1>0, <1>4, <3>1 DEF Steps, Write, Select, Link, CloseProject,
             Commit, Abort, Deadlocked, Waits, Wanted
        <4> QED  BY <1>0, <3>1, <4>1
      <3>2. CASE p # q
        BY <1>0, <3>2, OneRequest DEF Types
      <3> QED  BY <3>1, <3>2
    <2>2. \/ row[d].st = "live"
          \/ \E w \in Requests : result[w] = "ok" /\ ops[w] = ops[p]
      BY <1>0, <2>1 DEF Deleted, Live
    <2>3. CASE row[d].st = "live" /\ row'[d].st # "live"
      <3>1. Commit(q) /\ d \in Pended(q) /\ pend[q][d].st # "live"
        <4>1. CASE \E x \in Chats \cup {Account} :
                      \A y \in Ids \ {x} : row'[y] = row[y]
          BY <1>1, <2>3, <4>1
        <4>2. CASE OpenChat(q) \/ MoveChat(q)
          <5>1. ops[q].chat \in Chats
            BY <1>0, <4>2, RequestFields DEF OpenChat, MoveChat
          <5> QED  BY <1>1, <2>3, <4>1, <5>1, RowStep
        <4> QED  BY <1>1, <2>3, <4>1, <4>2, RowStep
      <3>2. ops[q].op = "delete" /\ ops[q].doc = d
        BY <1>0, <1>1, <2>3, <3>1 DEF Written
      <3>3. ops[q] = ops[p]
        BY <1>0, <3>2, RequestFields
      <3>4. result'[q] = "ok"
        BY <1>0, <3>1, <3>2 DEF Commit, Outcome, Target, End, Types, Pended
      <3> QED  BY <3>3, <3>4
    <2> QED  BY <1>2, <2>2, <2>3
  <1> QED  BY <1>3, <1>4

\* The groups a commit may have relinked are groups.
LEMMA BasisStep ==
    ASSUME BaseInv, NEW q \in Requests, Steps(q)
    PROVE  /\ basis' = [g \in Range(Group) |-> basis'[g]]
           /\ \/ UNCHANGED basis
              \/ /\ Commit(q) /\ ops[q].op \in Relinks
                 /\ \A g \in Range(Group) :
                       basis'[g] = IF g \in Groups(q)
                                   THEN {d \in seen[q] : Group[d] = g}
                                   ELSE basis[g]
  <1>0. /\ basis = [g \in Range(Group) |-> basis[g]] /\ ops[q] \in Request
    BY DEF BaseInv, Types, OpsInv
  <1>1. CASE UNCHANGED basis
    BY <1>0, <1>1
  <1>2. CASE Commit(q) /\ ops[q].op \in Relinks
    <2> DEFINE new == [g \in Groups(q) |-> {d \in seen[q] : Group[d] = g}]
    <2>1. Groups(q) \subseteq Range(Group)
      BY <1>0, <1>2, RequestFields, Distinct DEF Groups, Relinks
    <2>2. basis' = Over(new, basis)
      BY <1>2 DEF Commit
    <2>3. basis' = [g \in Groups(q) \cup Range(Group) |->
                       IF g \in Groups(q) THEN new[g] ELSE basis[g]]
      BY <1>0, <2>2 DEF Over
    <2> QED  BY <1>2, <2>1, <2>3
  <1> QED
    BY <1>1, <1>2 DEF Steps, Look, Write, Select, Link, CloseProject, Commit, Abort

LEMMA TypesStep ==
    ASSUME BaseInv, NEW q \in Requests, Steps(q)
    PROVE  Types'
  <1>0. Types /\ OpsInv
    BY DEF BaseInv, Types
  <1>1. /\ ops' = ops
        /\ pc' = [pc EXCEPT ![q] = pc'[q]] /\ pc'[q] \in Labels
        /\ result' = [result EXCEPT ![q] = result'[q]] /\ result'[q] \in Results
        /\ pend' = [pend EXCEPT ![q] = pend'[q]]
        /\ plan' = [plan EXCEPT ![q] = plan'[q]]
        /\ seen' = [seen EXCEPT ![q] = seen'[q]]
    BY <1>0, OneRequest
  <1>2. OpsInv' /\ Requests' = Requests
    BY <1>0, <1>1 DEF OpsInv, Requests, Own, Makes
  <1>3. RowTypes' /\ basis' = [g \in Range(Group) |-> basis'[g]]
    BY RowStep, BasisStep
  <1> QED  BY <1>0, <1>1, <1>2, <1>3 DEF Types

\* Time passes: only the account's lock changes.
LEMMA ExpiryStep ==
    ASSUME BaseInv, LockExpires
    PROVE  BaseInv'
  <1>0. /\ Types /\ OpsInv /\ RowTypes /\ Locked /\ Account \in Ids
        /\ Account \notin Documents \cup Projects \cup Chats \cup {Workspace}
        /\ Account # Workspace
    BY Distinct DEF BaseInv, Types, Ids
  <1>1. /\ ops' = ops /\ pc' = pc /\ pend' = pend /\ plan' = plan
        /\ result' = result /\ basis' = basis
        /\ row' = [row EXCEPT ![Account].lock = "past"]
        /\ seen' = [q \in Requests |-> seen'[q]]
        /\ \A q \in Requests : ops[q].op # "login" => seen'[q] = seen[q]
    BY DEF LockExpires
  <1>2. Requests' = Requests /\ OpsInv'
    BY <1>0, <1>1 DEF OpsInv, Requests, Own, Makes
  <1>3. /\ row' = [x \in Ids |-> row'[x]]
        /\ \A x \in Ids \ {Account} : row'[x] = row[x]
        /\ row'[Account] \in [failed : Nat, lock : {"none", "on", "past"}]
    BY <1>0, <1>1 DEF RowTypes
  <1>4. RowTypes'
    BY <1>0, <1>3 DEF RowTypes, IsRow
  <1>5. Types'
    BY <1>0, <1>1, <1>2, <1>4 DEF Types
  <1>6. Locked'
    BY <1>0, <1>1, <1>2 DEF Locked, Pended
  <1>7. ASSUME NEW q \in Requests
        PROVE  Placed(q)' /\ Written(q)' /\ Planned(q)' /\ Deleted(q)'
    <2>1. /\ Placed(q) /\ Written(q) /\ Planned(q) /\ Deleted(q)
          /\ ops[q] \in Request
      BY <1>7 DEF BaseInv, Types, OpsInv
    <2>2. Own(q)' = Own(q) /\ Pended(q)' = Pended(q) /\ Groups(q)' = Groups(q)
      BY <1>1 DEF Own, Makes, Pended, Groups
    <2>3. Placed(q)'
      BY <1>1, <2>1, <2>2 DEF Placed
    <2>4. Written(q)'
      <3>1. Own(q) \subseteq Ids \ {Account}
        BY <1>0, <2>1, OwnRows DEF Ids
      <3>2. Documents \subseteq Ids \ {Account}
        BY <1>0 DEF Ids
      <3>3. \A x \in Pended(q) \cap Documents : row'[x].st = row[x].st
        BY <1>3, <3>2
      <3>4. \A x \in Own(q) : row[x].st = "none" => row'[x].st = "none"
        BY <1>3, <3>1
      <3>5. \A x \in Ids \ {Account} :
               row[x].st # "none" => row'[x].st # "none"
        BY <1>3
      <3> QED  BY <1>1, <1>7, <3>3, <3>4, <3>5, WrittenFrame
    <2>5. Planned(q)'
      <3>1. Documents \subseteq Ids \ {Account}
        BY <1>0 DEF Ids
      <3>2. pc[q] = "link" \/ ops[q].op \in Relinks => seen'[q] = seen[q]
        BY <1>1, <2>1 DEF Placed, Relinks
      <3> QED  BY <1>1, <1>3, <1>7, <2>1, <2>2, <3>1, <3>2 DEF Planned
    <2>6. Deleted(q)'
      <3>1. ops[q].op = "delete" => ops[q].doc \in Ids \ {Account}
        BY <1>0, <2>1, RequestFields DEF Ids
      <3> QED  BY <1>1, <1>2, <1>3, <2>1, <3>1 DEF Deleted, Live
    <2> QED  BY <2>3, <2>4, <2>5, <2>6
  <1> QED  BY <1>2, <1>5, <1>6, <1>7 DEF BaseInv

LEMMA BaseStep == BaseInv /\ [Next]_vars => BaseInv'
  <1> SUFFICES ASSUME BaseInv, [Next]_vars
               PROVE  BaseInv'
    OBVIOUS
  <1>1. ASSUME NEW q \in Requests, Steps(q)
        PROVE  BaseInv'
    <2>1. Types /\ Types' /\ Locked
      BY <1>1, TypesStep DEF BaseInv
    <2>2. Requests' = Requests /\ \A p \in Requests \ {q} : pend'[p] = pend[p]
      BY <1>1, <2>1, OneRequest DEF Types, Requests
    <2>3. Locked'
      <3>1. Locks(q)
        BY <1>1, OwnStep
      <3>2. \A p \in Requests \ {q} : Pended(p)' = Pended(p)
        BY <2>2 DEF Pended
      <3> QED  BY <2>1, <2>2, <3>1, <3>2 DEF Locked, Locks
    <2>4. \A p \in Requests : Placed(p)' /\ Written(p)' /\ Planned(p)'
      BY <1>1, OwnStep, OthersStep
    <2>5. \A p \in Requests : Deleted(p)'
      BY <1>1, DeletedStep
    <2> QED  BY <2>1, <2>2, <2>3, <2>4, <2>5 DEF BaseInv
  <1>2. CASE UNCHANGED vars
    <2>0. /\ row' = row /\ ops' = ops /\ pc' = pc /\ seen' = seen /\ pend' = pend
          /\ plan' = plan /\ result' = result /\ basis' = basis
      BY <1>2 DEF vars
    <2>1. Types'
      BY <2>0 DEF BaseInv, Types, OpsInv, RowTypes, IsRow, Requests, Own, Makes
    <2>2. Locked'
      BY <2>0 DEF BaseInv, Locked, Requests, Pended
    <2>3. ASSUME NEW q \in Requests
          PROVE  Placed(q)' /\ Written(q)' /\ Planned(q)' /\ Deleted(q)'
      <3>1. Placed(q) /\ Written(q) /\ Planned(q) /\ Deleted(q)
        BY <2>3 DEF BaseInv
      <3>2. Placed(q)' /\ Planned(q)'
        BY <2>0, <3>1 DEF Placed, Planned, Pended, Groups
      <3>3. Written(q)'
        BY <2>0, <3>1 DEF Written, Own, Makes, Pended, IsRow
      <3>4. Deleted(q)'
        BY <2>0, <3>1 DEF Deleted, Requests, Live
      <3> QED  BY <3>2, <3>3, <3>4
    <2> QED  BY <2>0, <2>1, <2>2, <2>3 DEF BaseInv, Requests
  <1> QED  BY <1>1, <1>2, ExpiryStep DEF Next, Steps

LEMMA BaseInit == Init => BaseInv
  <1> SUFFICES ASSUME Init
               PROVE  BaseInv
    OBVIOUS
  <1>1. PICK m \in Mixes : ops = m.ops /\ row = m.row
    BY DEF Init
  <1>2. OpsInv
    <2>1. \A p, q \in Requests : p # q => Own(p) \cap Own(q) = {}
      BY <1>1, MixesAssumption DEF Own, Requests
    <2> QED  BY <1>1, <2>1, MixesAssumption DEF OpsInv, Requests
  <1>3. RowTypes
    <2>1. row = [x \in Ids |-> row[x]]
      BY <1>1, MixesAssumption
    <2>2. /\ \A d \in Documents : row[d] \in [st : Status, sup : SUBSET Documents]
          /\ \A p \in Projects \cup {Workspace} : row[p] \in [st : Status]
          /\ \A c \in Chats : row[c] \in [st : Status, project : SUBSET Projects]
          /\ row[Account] = [failed |-> 0, lock |-> "none"]
      BY <1>1, MixesAssumption
    <2>3. /\ \A d \in Documents : row[d] = [st |-> row[d].st, sup |-> row[d].sup]
          /\ \A p \in Projects \cup {Workspace} : row[p] = [st |-> row[p].st]
          /\ \A c \in Chats : row[c] = [st |-> row[c].st, project |-> row[c].project]
      BY <2>2
    <2> QED  BY <2>1, <2>2, <2>3 DEF RowTypes, IsRow
  <1>4. Types
    BY <1>2, <1>3 DEF Types, Init, Labels, Results
  <1>5. \A q \in Requests : pc[q] = "look" /\ result[q] = "none" /\ Pended(q) = {}
    <2>1. \A q \in Requests : pend[q] = <<>>
      BY DEF Init
    <2> QED  BY <2>1 DEF Init, Pended
  <1>6. \A q \in Requests : \A x \in Own(q) : row[x].st = "none"
    BY <1>1, MixesAssumption DEF Own, Requests
  <1> QED  BY <1>4, <1>5, <1>6 DEF BaseInv, Locked, Placed, Written, Planned, Deleted

THEOREM RegistryTyped == Spec => []BaseInv
  <1> QED  BY BaseInit, BaseStep, PTL DEF Spec

-----------------------------------------------------------------------------
(***************************************************************************)
(* A request that answers with an error has left nothing behind, whatever  *)
(* transaction PostgreSQL ended (create_document, tombstone_document,      *)
(* ensure_default_workspace).                                              *)
(***************************************************************************)
THEOREM FailedLeavesNothing == Spec => []FailedIsUndone
  <1>1. BaseInv => FailedIsUndone
    <2> SUFFICES ASSUME BaseInv, NEW q \in Requests, result[q] = "error"
                 PROVE  CASE ops[q].op = "upload" -> row[ops[q].doc].st = "none"
                          [] ops[q].op = "delete" ->
                                \/ Live(ops[q].doc)
                                \/ \E w \in Requests : result[w] = "ok" /\ ops[w] = ops[q]
                          [] ops[q].op = "first" ->
                                /\ row[ops[q].project].st = "none"
                                /\ row[ops[q].chat].st = "none"
                          [] OTHER -> TRUE
      BY DEF FailedIsUndone
    <2>1. /\ Written(q) /\ Deleted(q) /\ Placed(q) /\ ops[q] \in Request
      BY DEF BaseInv, Types, OpsInv
    <2>2. \A x \in Own(q) : row[x].st = "none"
      BY <2>1 DEF Written
    <2>3. CASE ops[q].op = "upload"
      BY <2>1, <2>2, <2>3, OwnRows
    <2>4. CASE ops[q].op = "first"
      BY <2>1, <2>2, <2>4, OwnRows
    <2>5. CASE ops[q].op = "delete"
      BY <2>1, <2>5 DEF Deleted, Placed
    <2> QED  BY <2>3, <2>4, <2>5
  <1> QED  BY <1>1, RegistryTyped, PTL

-----------------------------------------------------------------------------
(***************************************************************************)
(* Every wrong attempt is counted, and the last one allowed locks the      *)
(* account (authenticate_credentials).                                     *)
(***************************************************************************)
RefusedLogins == {q \in Requests : ops[q].op = "login" /\ result[q] = "refused"}
AdmittedLogins == {q \in Requests : ops[q].op = "login" /\ result[q] = "ok"}

\* A login is one statement, and nobody holds the account's row.
Tried ==
    /\ \A q \in Requests : ops[q].op = "login" => pc[q] \in {"look", "write", "done"}
    /\ AdmittedLogins = {} => row[Account].failed = Cardinality(RefusedLogins)
    /\ row[Account].failed >= LockAfter => row[Account].lock # "none"

\* What a step does to the logins and to the account.
LEMMA LoginStep ==
    ASSUME BaseInv, Tried, NEW q \in Requests, Steps(q)
    PROVE  /\ ops[q].op = "login" => pc'[q] \in {"look", "write", "done"}
           /\ \/ /\ row'[Account] = row[Account]
                 /\ ops[q].op = "login" => result'[q] = result[q]
              \/ /\ ops[q].op = "login" /\ result'[q] = "ok"
                 /\ row'[Account] = [failed |-> 0, lock |-> "none"]
              \/ /\ ops[q].op = "login" /\ result'[q] = "refused"
                 /\ row'[Account] = Refused(q)
  <1>0. /\ Types /\ Placed(q) /\ Account \in Ids /\ ops[q] \in Request
        /\ pc[q] # "done" /\ result[q] = "none" /\ OpsInv
        /\ RowTypes /\ \A p \in Requests : Placed(p)
    BY Unfinished DEF BaseInv, Types, OpsInv, Ids
  <1>1. CASE ops[q].op # "login"
    <2>1. Account \notin Pended(q)
      BY <1>0 DEF Placed
    <2>2. ~Login(q)
      BY <1>1 DEF Login
    <2>3. OpenChat(q) \/ MoveChat(q) => ops[q].chat # Account
      BY <1>0, RequestFields, Distinct DEF OpenChat, MoveChat
    <2>4. row'[Account] = row[Account]
      BY <1>0, <2>1, <2>2, <2>3, RowStep
    <2> QED  BY <1>1, <2>4
  <1>2. CASE ops[q].op = "login"
    <2>1. pc[q] \in {"look", "write"}
      BY <1>0, <1>2 DEF Tried
    <2>2. CASE Look(q)
      BY <1>0, <1>2, <2>2 DEF Look, End, Goto, Types
    <2>3. CASE Write(q)
      <3>1. Login(q)
        BY <1>2, <2>3 DEF Write, InsertDocument, UpdateDocument, HideDocument,
           DetachChats, OpenChat, MoveChat, InsertWorkspace
      <3>2. /\ pc'[q] = "done"
            /\ \/ /\ result'[q] = "ok"
                  /\ row' = [row EXCEPT ![Account] = [failed |-> 0, lock |-> "none"]]
               \/ /\ result'[q] = "refused"
                  /\ row' = [row EXCEPT ![Account] = Refused(q)]
        BY <1>0, <3>1 DEF Login, End, Goto, Types
      <3>3. \A r : row' = [row EXCEPT ![Account] = r] => row'[Account] = r
        BY <1>0 DEF RowTypes
      <3> QED  BY <1>2, <3>2, <3>3
    <2>4. ~Abort(q)
      <3>1. Wanted(q) \subseteq {Account}
        BY <1>2, <2>1 DEF Wanted, Target
      <3>2. \A w \in Requests : ~Waits(q, w)
        BY <1>0, <3>1 DEF Waits, Placed, Pended
      <3> QED  BY <3>2 DEF Abort, Deadlocked
    <2> QED
      BY <1>0, <1>2, <2>1, <2>2, <2>3, <2>4
      DEF Steps, Select, Link, CloseProject, Commit
  <1> QED  BY <1>1, <1>2

LEMMA TriedStep == BaseInv /\ Tried /\ [Next]_vars => Tried'
  <1> SUFFICES ASSUME BaseInv, Tried, [Next]_vars
               PROVE  Tried'
    OBVIOUS
  <1>0. /\ Types /\ RowTypes /\ IsFiniteSet(Requests) /\ LockAfter \in Nat \ {0}
        /\ RefusedLogins \subseteq Requests
        /\ row[Account] \in [failed : Nat, lock : {"none", "on", "past"}]
    BY RegistryAssumption DEF BaseInv, Types, OpsInv, RowTypes, RefusedLogins
  <1>1. ASSUME NEW q \in Requests, Steps(q)
        PROVE  Tried'
    <2>1. /\ ops' = ops /\ Requests' = Requests /\ result[q] = "none"
          /\ \A p \in Requests \ {q} : result'[p] = result[p] /\ pc'[p] = pc[p]
      BY <1>0, <1>1, OneRequest, Unfinished DEF Types, Requests
    <2>2. \A p \in Requests : ops'[p].op = "login" => pc'[p] \in {"look", "write", "done"}
      BY <1>1, <2>1, LoginStep DEF Tried
    <2>3. CASE /\ row'[Account] = row[Account]
               /\ ops[q].op = "login" => result'[q] = result[q]
      <3>1. RefusedLogins' = RefusedLogins /\ AdmittedLogins' = AdmittedLogins
        BY <2>1, <2>3 DEF RefusedLogins, AdmittedLogins
      <3> QED  BY <2>1, <2>2, <2>3, <3>1 DEF Tried
    <2>4. CASE /\ ops[q].op = "login" /\ result'[q] = "ok"
               /\ row'[Account] = [failed |-> 0, lock |-> "none"]
      <3>1. q \in AdmittedLogins'
        BY <2>1, <2>4 DEF AdmittedLogins
      <3> QED  BY <1>0, <2>1, <2>2, <2>4, <3>1 DEF Tried
    <2>5. CASE /\ ops[q].op = "login" /\ result'[q] = "refused"
               /\ row'[Account] = Refused(q)
      <3>1. /\ RefusedLogins' = RefusedLogins \cup {q} /\ q \notin RefusedLogins
            /\ AdmittedLogins' = AdmittedLogins
        BY <2>1, <2>5 DEF RefusedLogins, AdmittedLogins
      <3>2. IsFiniteSet(RefusedLogins)
        BY <1>0, FS_Subset
      <3>3. Cardinality(RefusedLogins') = Cardinality(RefusedLogins) + 1
        BY <3>1, <3>2, FS_AddElement
      <3>4. /\ row'[Account].failed = row[Account].failed + 1
            /\ row'[Account].failed >= LockAfter => row'[Account].lock = "on"
        BY <2>5 DEF Refused
      <3> QED  BY <2>1, <2>2, <3>1, <3>3, <3>4 DEF Tried
    <2> QED  BY <1>1, <2>3, <2>4, <2>5, LoginStep
  <1>2. CASE LockExpires
    <2>1. /\ ops' = ops /\ pc' = pc /\ result' = result /\ Requests' = Requests
          /\ row' = [row EXCEPT ![Account].lock = "past"]
      BY <1>2 DEF LockExpires, Requests
    <2>2. row'[Account].failed = row[Account].failed /\ row'[Account].lock = "past"
      <3>1. row[Account] = [failed |-> row[Account].failed, lock |-> row[Account].lock]
            /\ Account \in Ids
        BY <1>0 DEF Ids
      <3>2. row' = [row EXCEPT ![Account] = [row[Account] EXCEPT !.lock = "past"]]
        BY <2>1
      <3>3. row'[Account] = [row[Account] EXCEPT !.lock = "past"]
        BY <1>0, <3>1, <3>2 DEF RowTypes
      <3> QED  BY <3>1, <3>3
    <2>3. RefusedLogins' = RefusedLogins /\ AdmittedLogins' = AdmittedLogins
      BY <2>1 DEF RefusedLogins, AdmittedLogins
    <2> QED  BY <2>1, <2>2, <2>3 DEF Tried
  <1>3. CASE UNCHANGED vars
    BY <1>3 DEF vars, Tried, RefusedLogins, AdmittedLogins, Requests
  <1> QED  BY <1>1, <1>2, <1>3 DEF Next, Steps

THEOREM WrongAttemptsCount == Spec => []AttemptsAreCounted
  <1>1. Init => Tried
    <2> SUFFICES ASSUME Init
                 PROVE  Tried
      OBVIOUS
    <2>1. row[Account] = [failed |-> 0, lock |-> "none"]
      BY MixesAssumption DEF Init
    <2>2. RefusedLogins = {} /\ \A q \in Requests : pc[q] = "look"
      BY DEF Init, RefusedLogins
    <2> QED  BY <2>1, <2>2, FS_EmptySet, RegistryAssumption DEF Tried
  <1>2. Tried => AttemptsAreCounted
    BY DEF Tried, AttemptsAreCounted, RefusedLogins, AdmittedLogins
  <1> QED  BY <1>1, <1>2, TriedStep, RegistryTyped, PTL DEF Spec

-----------------------------------------------------------------------------
(***************************************************************************)
(* Version chains follow the keys (_rebuild_document_version_chain).       *)
(***************************************************************************)
LEMMA BeforeIsTotal ==
    ASSUME NEW d \in Documents, NEW e \in Documents, d # e
    PROVE  Before(d, e) \/ Before(e, d)
    BY RegistryAssumption DEF Before

\* What the loop has to know to link the next row d of S: M are the rows of S
\* that come before it, v the newest of them.
Newest(v, M) ==
    /\ v \in M
    /\ \A e \in M : Key[e] < Key[v] \/ (Key[e] = Key[v] /\ Born[v] <= Born[e])

LEMMA PredecessorOfNext ==
    ASSUME NEW S \in SUBSET Documents, NEW M \in SUBSET S, NEW d \in S \ M,
           \A e \in M : Before(e, d),
           \A e \in S \ (M \cup {d}) : Before(d, e)
    PROVE  /\ M = {} => Predecessor(d, S) = {}
           /\ \A v : Newest(v, M) /\ Key[d] > Key[v] => Predecessor(d, S) = {v}
           /\ \A v : Newest(v, M) /\ ~(Key[d] > Key[v]) =>
                        Predecessor(d, S) = Predecessor(v, S)
  <1>0. \A e \in S : Key[e] \in Nat /\ Born[e] \in Nat
    BY RegistryAssumption
  <1> DEFINE older == {e \in S : Key[e] < Key[d]}
             nearest == {e \in older : \A f \in older : Key[f] <= Key[e]}
  <1>1. older \subseteq M
    BY <1>0 DEF Before
  <1>2. Predecessor(d, S) = {e \in nearest : \A f \in nearest : Born[e] <= Born[f]}
    BY DEF Predecessor
  <1>3. M = {} => Predecessor(d, S) = {}
    BY <1>1, <1>2
  <1>4. ASSUME NEW v, Newest(v, M), Key[d] > Key[v]
        PROVE  Predecessor(d, S) = {v}
    <2>1. v \in M /\ v \in S
      BY <1>4 DEF Newest
    <2>2. \A e \in M : Key[e] <= Key[v]
      BY <1>0, <1>4 DEF Newest
    <2>3. older = M
      BY <1>0, <1>1, <1>4, <2>1, <2>2
    <2>4. nearest = {e \in M : Key[e] = Key[v]}
      BY <1>0, <2>1, <2>2, <2>3
    <2>5. \A e \in nearest : Born[v] <= Born[e]
      BY <1>0, <1>4, <2>4 DEF Newest
    <2>6. \A e \in S : Born[e] = Born[v] => e = v
      BY <2>1, RegistryAssumption
    <2> HIDE DEF nearest
    <2>7. nearest \subseteq S /\ v \in nearest
      BY <2>1, <2>4
    <2> QED  BY <1>0, <1>2, <2>1, <2>5, <2>6, <2>7
  <1>5. ASSUME NEW v, Newest(v, M), ~(Key[d] > Key[v])
        PROVE  Predecessor(d, S) = Predecessor(v, S)
    <2>1. v \in S /\ Before(v, d)
      BY <1>5 DEF Newest
    <2>2. Key[v] = Key[d]
      BY <1>0, <1>5, <2>1 DEF Before
    <2> QED  BY <2>2 DEF Predecessor
  <1> QED  BY <1>3, <1>4, <1>5

\* The rows of a rebuild that are linked, and those of the group it is in.
Done(q) == seen[q] \ (plan[q].rest \cup {plan[q].at})
Mine(q) == {e \in Done(q) : Group[e] = Group[plan[q].at]}
Peers(q, d) == {e \in seen[q] : Group[e] = Group[d]}

\* The row is linked to its predecessor among the rows that were read.
IsLinked(q, d) ==
    d \in Pended(q) /\ pend[q][d].sup = Predecessor(d, Peers(q, d))

\* The loop takes the groups one after the other, and the rows of each in
\* order; it remembers the newest row of its group and what that follows.
Looping(q) ==
    /\ \A d \in Done(q) : \A e \in plan[q].rest \cup {plan[q].at} :
          Group[d] = Group[e] => /\ Before(d, e)
                                 /\ Group[d] = Group[plan[q].at]
    /\ \A e \in plan[q].rest : Group[e] = Group[plan[q].at] => Before(plan[q].at, e)
    /\ plan[q].previous \subseteq Done(q)
    /\ Mine(q) # {} =>
          \E v : /\ Newest(v, Mine(q)) /\ Previous(q) = {v}
                 /\ plan[q].predecessor = Predecessor(v, Peers(q, v))
    /\ \A d \in Done(q) : IsLinked(q, d)

Relinked(q) ==
    /\ pc[q] = "link" => Looping(q)
    /\ pc[q] = "commit" /\ ops[q].op \in Relinks => \A d \in seen[q] : IsLinked(q, d)

Chained ==
    \A g \in Range(Group) :
        \A d \in basis[g] : /\ d \in Documents /\ Group[d] = g
                            /\ row[d].sup = Predecessor(d, basis[g])

ChainInv == Chained /\ \A q \in Requests : Relinked(q)

\* The row the loop is at gets its predecessor.
LEMMA LinkedIsPredecessor ==
    ASSUME BaseInv, NEW q \in Requests, pc[q] = "link", Looping(q)
    PROVE  /\ plan[q].at \in Documents /\ seen[q] \subseteq Documents
           /\ plan[q].at \in seen[q] /\ plan[q].rest \subseteq seen[q]
           /\ plan[q].at \notin plan[q].rest
           /\ Linked(q) = Predecessor(plan[q].at, Peers(q, plan[q].at))
           /\ Mine(q) = {} => Previous(q) = {}
           /\ Newest(plan[q].at, Mine(q) \cup {plan[q].at})
                 <=> Previous(q) = {} \/ Newer(q)
           /\ \A v : Newest(v, Mine(q)) /\ ~(Key[plan[q].at] > Key[v])
                        => Newest(v, Mine(q) \cup {plan[q].at})
  <1> DEFINE d == plan[q].at
             S == Peers(q, d)
  <1>0. /\ d \in Documents /\ seen[q] \subseteq Documents
        /\ d \in seen[q] /\ plan[q].rest \subseteq seen[q] /\ d \notin plan[q].rest
    BY DEF BaseInv, Placed, Planned
  <1>1. /\ S \in SUBSET Documents /\ Mine(q) \in SUBSET S /\ d \in S \ Mine(q)
        /\ \A e \in S : Key[e] \in Nat /\ Born[e] \in Nat
    BY <1>0, RegistryAssumption DEF Peers, Mine, Done
  <1>2. \A e \in Mine(q) : Before(e, d)
    BY DEF Looping, Mine
  <1>3. \A e \in S \ (Mine(q) \cup {d}) : Before(d, e)
    BY DEF Looping, Mine, Done, Peers
  <1>4. CASE Mine(q) = {}
    <2>1. Previous(q) = {}
      BY <1>4 DEF Looping, Previous, Mine
    <2>2. Newest(d, Mine(q) \cup {d})
      BY <1>1, <1>4 DEF Newest
    <2>3. \A v : ~Newest(v, Mine(q))
      BY <1>4 DEF Newest
    <2>4. Linked(q) = {}
      BY <2>1 DEF Linked, Newer
    <2> HIDE DEF d, S
    <2>5. Predecessor(d, S) = {}
      BY <1>1, <1>2, <1>3, <1>4, PredecessorOfNext
    <2> QED  BY <1>0, <2>1, <2>2, <2>3, <2>4, <2>5 DEF d, S
  <1>5. CASE Mine(q) # {}
    <2>1. PICK v : /\ Newest(v, Mine(q)) /\ Previous(q) = {v}
                   /\ plan[q].predecessor = Predecessor(v, Peers(q, v))
      BY <1>5 DEF Looping
    <2>2. v \in Mine(q) /\ Peers(q, v) = S
      BY <2>1 DEF Newest, Mine, Peers
    <2>3. Newer(q) <=> Key[d] > Key[v]
      BY <2>1 DEF Newer
    <2>4. Linked(q) = Predecessor(d, S)
      <3>1. Linked(q) = IF Key[d] > Key[v] THEN {v} ELSE Predecessor(v, S)
        BY <2>1, <2>2, <2>3 DEF Linked
      <3> HIDE DEF d, S
      <3> QED  BY <1>1, <1>2, <1>3, <2>1, <3>1, PredecessorOfNext
    <2>5. ASSUME NEW w, Newest(w, Mine(q))
          PROVE  /\ Key[d] > Key[w] => Newest(d, Mine(q) \cup {d})
                 /\ ~(Key[d] > Key[w]) => /\ Newest(w, Mine(q) \cup {d})
                                          /\ ~Newest(d, Mine(q) \cup {d})
      <3>1. w \in S /\ Before(w, d) /\ w \in Mine(q)
        BY <1>1, <1>2, <2>5 DEF Newest
      <3> HIDE DEF d, S
      <3>2. Key[d] > Key[w] => Newest(d, Mine(q) \cup {d})
        BY <1>1, <2>5, <3>1 DEF Newest
      <3>3. ~(Key[d] > Key[w]) => Key[d] = Key[w] /\ Born[w] < Born[d]
        BY <1>1, <3>1 DEF Before
      <3>4. ~(Key[d] > Key[w]) => Newest(w, Mine(q) \cup {d})
        BY <1>1, <2>5, <3>1, <3>3 DEF Newest
      <3>5. ~(Key[d] > Key[w]) => ~Newest(d, Mine(q) \cup {d})
        BY <1>1, <3>1, <3>3 DEF Newest
      <3> QED  BY <3>2, <3>4, <3>5
    <2> QED  BY <1>0, <1>5, <2>1, <2>3, <2>4, <2>5
  <1> QED  BY <1>4, <1>5

\* What is linked stays linked while the request keeps its rows.
LEMMA RelinkedFrame ==
    ASSUME NEW p \in Requests, Relinked(p),
           ops'[p] = ops[p], pc'[p] = pc[p], pend'[p] = pend[p],
           plan'[p] = plan[p],
           pc[p] = "link" \/ ops[p].op \in Relinks => seen'[p] = seen[p]
    PROVE  Relinked(p)'
  <1>1. CASE seen'[p] = seen[p]
    <2>1. /\ Done(p)' = Done(p) /\ Mine(p)' = Mine(p) /\ Previous(p)' = Previous(p)
          /\ \A d : /\ Peers(p, d)' = Peers(p, d)
                    /\ IsLinked(p, d)' <=> IsLinked(p, d)
      BY <1>1 DEF Done, Mine, Peers, IsLinked, Previous, Pended
    <2> QED  BY <1>1, <2>1 DEF Relinked, Looping
  <1>2. CASE seen'[p] # seen[p]
    BY <1>2 DEF Relinked, Relinks
  <1> QED  BY <1>1, <1>2

\* The loop begins with the first row of a group.
LEMMA SelectRelinks ==
    ASSUME BaseInv, NEW q \in Requests, Select(q)
    PROVE  Relinked(q)'
  <1> DEFINE read == UNION {Members(g, q) : g \in Groups(q)}
  <1>1. /\ Types /\ seen'[q] = read /\ read \subseteq Documents
        /\ pc'[q] \in {"link", "commit"}
    BY DEF BaseInv, Types, Select, Members, Goto
  <1>2. CASE read = {} /\ pc'[q] = "commit"
    BY <1>1, <1>2 DEF Relinked
  <1>3. CASE pc'[q] = "link"
    <2>1. PICK d \in First(read) :
              plan' = [plan EXCEPT ![q] = [at |-> d, rest |-> read \ {d},
                                           previous |-> {}, predecessor |-> {}]]
      BY <1>1, <1>3 DEF Select, Goto, Types
    <2>2. /\ plan'[q].at = d /\ plan'[q].rest = read \ {d}
          /\ plan'[q].previous = {} /\ d \in read
      BY <1>1, <2>1 DEF Types, First
    <2> HIDE DEF read
    <2>3. Done(q)' = {} /\ Mine(q)' = {}
      BY <1>1, <2>2 DEF Done, Mine
    <2>4. \A e \in plan'[q].rest : Group[e] = Group[d] => Before(d, e)
      BY <1>1, <2>1, <2>2, BeforeIsTotal DEF First
    <2>5. Looping(q)'
      BY <2>2, <2>3, <2>4 DEF Looping, Before
    <2> QED  BY <1>3, <2>5 DEF Relinked
  <1>4. pc'[q] = "commit" => read = {}
    BY <1>1 DEF Select, Goto, Types
  <1> QED  BY <1>1, <1>2, <1>3, <1>4

LEMMA LinkRelinks ==
    ASSUME BaseInv, NEW q \in Requests, Link(q), Looping(q)
    PROVE  Relinked(q)'
  <1> DEFINE d == plan[q].at
             rest == plan[q].rest
             same == {e \in rest : Group[e] = Group[d]}
             prev == IF Previous(q) = {} \/ Newer(q) THEN {d} ELSE Previous(q)
             new == [Current(d, q) EXCEPT !.sup = Linked(q)]
  <1>1. /\ Types /\ pc[q] = "link" /\ seen' = seen /\ Put(q, d, new)
        /\ pc'[q] \in {"link", "commit"}
    BY DEF BaseInv, Types, Link, Goto
  <1>2. /\ d \in Documents /\ seen[q] \subseteq Documents
        /\ d \in seen[q] /\ rest \subseteq seen[q] /\ d \notin rest
        /\ Linked(q) = Predecessor(d, Peers(q, d))
        /\ Mine(q) = {} => Previous(q) = {}
        /\ Newest(d, Mine(q) \cup {d}) <=> Previous(q) = {} \/ Newer(q)
        /\ \A v : Newest(v, Mine(q)) /\ ~(Key[d] > Key[v])
                     => Newest(v, Mine(q) \cup {d})
    BY <1>1, LinkedIsPredecessor
  <1>3. \A x \in Done(q) \cup {d} : IsLinked(q, x)'
    <2>1. /\ Pended(q)' = Pended(q) \cup {d} /\ pend'[q][d] = new
          /\ \A x \in Pended(q) \ {d} : pend'[q][x] = pend[q][x]
      BY <1>1, PutEffect
    <2>2. new.sup = Linked(q)
      <3>1. Current(d, q) = [st |-> Current(d, q).st, sup |-> Current(d, q).sup]
        <4>1. IsRow(d, Current(d, q))
          <5>1. d \in Ids
            BY <1>2 DEF Ids
          <5>2. d \in Pended(q) => IsRow(d, pend[q][d])
            BY DEF BaseInv, Written
          <5>3. IsRow(d, row[d])
            BY <1>1, <5>1 DEF Types, RowTypes
          <5> QED  BY <5>2, <5>3 DEF Current, Pended
        <4> QED  BY <1>2, <4>1 DEF IsRow
      <3> QED  BY <3>1
    <2>3. \A x : Peers(q, x)' = Peers(q, x)
      BY <1>1 DEF Peers
    <2> HIDE DEF new
    <2>4. \A x : x = d => IsLinked(q, x)'
      <3>1. \A x : IsLinked(q, x)' <=> /\ x \in Pended(q)'
                                       /\ pend'[q][x].sup = Predecessor(x, Peers(q, x))
        BY <2>3 DEF IsLinked, Predecessor
      <3> QED  BY <1>2, <2>1, <2>2, <3>1
    <2>5. \A x \in Done(q) \ {d} : IsLinked(q, x)'
      BY <2>1, <2>3 DEF Looping, IsLinked, Predecessor
    <2> QED  BY <2>4, <2>5
  <1>4. CASE pc'[q] = "commit"
    <2>1. rest = {}
      BY <1>1, <1>4 DEF Link, Goto, Types
    <2>2. seen[q] \subseteq Done(q) \cup {d}
      BY <2>1 DEF Done
    <2> QED  BY <1>1, <1>3, <1>4, <2>2 DEF Relinked
  <1>5. CASE pc'[q] = "link"
    <2>1. PICK e \in First(IF same # {} THEN same ELSE rest) :
              plan' = [plan EXCEPT ![q] =
                  [at |-> e, rest |-> rest \ {e}, previous |-> prev,
                   predecessor |-> Linked(q)]]
      BY <1>1, <1>5 DEF Link, Goto, Types
    <2>2. /\ plan'[q].at = e /\ plan'[q].rest = rest \ {e}
          /\ plan'[q].previous = prev /\ plan'[q].predecessor = Linked(q)
          /\ e \in rest /\ (same # {} => Group[e] = Group[d])
          /\ e # d /\ e \in Documents /\ rest \subseteq Documents
      BY <1>1, <1>2, <2>1 DEF Types, First
    <2>3. Done(q)' = Done(q) \cup {d} /\ prev \subseteq Done(q) \cup {d}
      BY <1>1, <1>2, <2>2 DEF Done, Looping, Previous
    <2>4. \A f \in rest \ {e} : Group[f] = Group[e] => Before(e, f)
      <3> SUFFICES ASSUME NEW f \in rest \ {e}, Group[f] = Group[e]
                   PROVE  Before(e, f)
        OBVIOUS
      <3>1. f \in IF same # {} THEN same ELSE rest
        BY <2>2
      <3>2. ~Before(f, e)
        BY <2>1, <3>1 DEF First
      <3> QED  BY <2>2, <3>2, BeforeIsTotal
    <2>5. \A x \in Done(q) \cup {d} : \A f \in rest :
              Group[x] = Group[f] => Before(x, f) /\ Group[x] = Group[e]
      BY <2>2 DEF Looping
    <2>6. CASE same # {}
      <3>1. Mine(q)' = Mine(q) \cup {d}
        BY <2>2, <2>3, <2>6 DEF Mine
      <3>2. \E v : /\ Newest(v, Mine(q) \cup {d}) /\ prev = {v}
                   /\ Linked(q) = Predecessor(v, Peers(q, v))
        <4>1. CASE Previous(q) = {} \/ Newer(q)
          BY <1>2, <4>1
        <4>2. CASE ~(Previous(q) = {} \/ Newer(q))
          <5>1. PICK v : /\ Newest(v, Mine(q)) /\ Previous(q) = {v}
                         /\ plan[q].predecessor = Predecessor(v, Peers(q, v))
            BY <1>2, <4>2 DEF Looping
          <5>2. ~(Key[d] > Key[v])
            BY <4>2, <5>1 DEF Newer
          <5>3. Linked(q) = plan[q].predecessor
            BY <4>2 DEF Linked
          <5> QED  BY <1>2, <4>2, <5>1, <5>2, <5>3
        <4> QED  BY <4>1, <4>2
      <3>3. prev \subseteq Mine(q) \cup {d}
        BY <3>2 DEF Newest
      <3>4. Previous(q)' = prev
        BY <2>2, <2>6, <3>3 DEF Previous, Mine
      <3>5. \A x : Peers(q, x)' = Peers(q, x)
        BY <1>1 DEF Peers
      <3>6. Mine(q)' # {} =>
                \E v : /\ Newest(v, Mine(q)') /\ Previous(q)' = {v}
                       /\ plan'[q].predecessor = Predecessor(v, Peers(q, v)')
        <4> HIDE DEF prev
        <4> QED  BY <2>2, <3>1, <3>2, <3>4, <3>5
      <3> QED  BY <1>3, <1>5, <2>2, <2>3, <2>4, <2>5, <3>6
               DEF Relinked, Looping, Before, Newest, Predecessor
    <2>7. CASE same = {}
      <3>1. Group[e] # Group[d]
        BY <2>2, <2>7
      <3> HIDE DEF same
      <3>2. \A x \in Done(q) : Group[x] = Group[e] => Group[x] = Group[d]
        BY <2>2 DEF Looping
      <3>3. Mine(q)' = {}
        BY <2>2, <2>3, <3>1, <3>2 DEF Mine
      <3> QED  BY <1>3, <1>5, <2>2, <2>3, <2>4, <2>5, <3>3
               DEF Relinked, Looping, Before, Newest, Predecessor
    <2> QED  BY <2>6, <2>7
  <1> QED  BY <1>1, <1>4, <1>5

\* A step of a request that is not about a chain leads to none.
LEMMA OwnRelinked ==
    ASSUME BaseInv, NEW q \in Requests, Steps(q), Relinked(q)
    PROVE  Relinked(q)'
  <1>0. Types /\ Placed(q)
    BY DEF BaseInv
  <1>1. CASE Look(q) \/ Abort(q) \/ Commit(q)
    <2>1. pc'[q] \notin {"link", "commit"}
      BY <1>0, <1>1 DEF Look, Abort, Commit, End, Goto, Types
    <2> QED  BY <2>1 DEF Relinked
  <1>2. CASE CloseProject(q)
    <2>1. /\ ops'[q] = ops[q] /\ ops[q].op = "drop" /\ pc'[q] = "commit"
      BY <1>0, <1>2 DEF CloseProject, Goto, Types, Placed
    <2> QED  BY <2>1 DEF Relinked, Relinks
  <1>3. CASE Write(q)
    <2>1. /\ ops'[q] = ops[q]
          /\ \/ pc'[q] \notin {"link", "commit"}
             \/ pc'[q] = "commit" /\ ops[q].op = "first"
      BY <1>0, <1>3
      DEF Write, InsertDocument, UpdateDocument, HideDocument, DetachChats,
          OpenChat, MoveChat, InsertWorkspace, Login, End, Goto, Types
    <2> QED  BY <2>1 DEF Relinked, Relinks
  <1>4. CASE Select(q)
    BY <1>4, SelectRelinks
  <1>5. CASE Link(q)
    <2>1. Looping(q)
      BY <1>5 DEF Link, Relinked
    <2> QED  BY <1>5, <2>1, LinkRelinks
  <1> QED  BY <1>1, <1>2, <1>3, <1>4, <1>5 DEF Steps

\* A commit relinks whole groups; nothing else writes a document's version.
LEMMA ChainedStep ==
    ASSUME BaseInv, ChainInv, NEW q \in Requests, Steps(q)
    PROVE  Chained'
  <1> SUFFICES ASSUME NEW g \in Range(Group), NEW d \in basis'[g]
               PROVE  /\ d \in Documents /\ Group[d] = g
                      /\ row'[d].sup = Predecessor(d, basis'[g])
    BY DEF Chained, Predecessor
  <1>0. /\ Types /\ Placed(q) /\ Relinked(q) /\ Chained /\ ops[q] \in Request
        /\ Planned(q) /\ Documents \subseteq Ids \ {Account}
    BY Distinct DEF BaseInv, ChainInv, Types, OpsInv, Ids
  <1>1. CASE Commit(q) /\ ops[q].op \in Relinks /\ g \in Groups(q)
    <2>1. basis'[g] = {x \in seen[q] : Group[x] = g}
      <3>1. basis' = Over([h \in Groups(q) |-> {x \in seen[q] : Group[x] = h}], basis)
        BY <1>1 DEF Commit
      <3> QED  BY <1>1, <3>1 DEF Over
    <2>2. /\ d \in seen[q] /\ Group[d] = g /\ d \in Documents
          /\ Peers(q, d) = basis'[g] /\ IsLinked(q, d)
      BY <1>0, <1>1, <2>1 DEF Planned, Peers, Relinked, Commit
    <2>3. row'[d] = pend[q][d]
      <3>1. d \in Pended(q)
        BY <2>2 DEF IsLinked
      <3> QED  BY <1>1, <3>1 DEF Commit, Over, Pended
    <2> QED  BY <2>2, <2>3 DEF IsLinked
  <1>2. CASE ~(Commit(q) /\ ops[q].op \in Relinks /\ g \in Groups(q))
    <2>1. basis'[g] = basis[g]
      BY <1>2, BasisStep
    <2>2. /\ d \in Documents /\ Group[d] = g
          /\ row[d].sup = Predecessor(d, basis[g])
      BY <1>0, <2>1 DEF Chained
    <2>3. row'[d] = row[d]
      <3>1. Commit(q) => d \notin Pended(q)
        BY <1>0, <1>2, <2>2 DEF Placed
      <3>2. OpenChat(q) \/ MoveChat(q) => d # ops[q].chat
        BY <1>0, <2>2, RequestFields, Distinct DEF OpenChat, MoveChat
      <3> QED  BY <1>0, <2>2, <3>1, <3>2, RowStep
    <2> QED  BY <2>1, <2>2, <2>3
  <1> QED  BY <1>1, <1>2

LEMMA ChainStep == BaseInv /\ ChainInv /\ [Next]_vars => ChainInv'
  <1> SUFFICES ASSUME BaseInv, ChainInv, [Next]_vars
               PROVE  ChainInv'
    OBVIOUS
  <1>1. ASSUME NEW q \in Requests, Steps(q)
        PROVE  ChainInv'
    <2>1. ASSUME NEW p \in Requests
          PROVE  Relinked(p)'
      <3>1. CASE p = q
        BY <1>1, <3>1, OwnRelinked DEF ChainInv
      <3>2. CASE p # q
        <4>1. /\ ops'[p] = ops[p] /\ pc'[p] = pc[p] /\ pend'[p] = pend[p]
              /\ plan'[p] = plan[p] /\ seen'[p] = seen[p]
          BY <1>1, <3>2, OneRequest DEF BaseInv, Types
        <4> QED  BY <4>1, RelinkedFrame DEF ChainInv
      <3> QED  BY <3>1, <3>2
    <2>2. Requests' = Requests
      BY <1>1, OneRequest DEF BaseInv, Types, Requests
    <2> QED  BY <1>1, <2>1, <2>2, ChainedStep DEF ChainInv
  <1>2. CASE LockExpires
    <2>1. Account \in Ids \ Documents
      BY Distinct DEF Ids
    <2>2. \A x \in Documents : row'[x] = row[x]
      BY <1>2, <2>1 DEF LockExpires, BaseInv, Types, RowTypes
    <2>3. Chained'
      BY <1>2, <2>2 DEF LockExpires, Chained, ChainInv, Predecessor
    <2>4. ASSUME NEW p \in Requests
          PROVE  Relinked(p)'
      <3>1. Relinked(p) /\ Placed(p)
        BY DEF ChainInv, BaseInv
      <3>2. /\ ops'[p] = ops[p] /\ pc'[p] = pc[p] /\ pend'[p] = pend[p]
            /\ plan'[p] = plan[p] /\ (ops[p].op # "login" => seen'[p] = seen[p])
        BY <1>2 DEF LockExpires
      <3>3. pc[p] = "link" \/ ops[p].op \in Relinks => seen'[p] = seen[p]
        BY <3>1, <3>2 DEF Placed, Relinks
      <3> QED  BY <3>1, <3>2, <3>3, RelinkedFrame
    <2> QED  BY <1>2, <2>3, <2>4 DEF ChainInv, LockExpires, Requests
  <1>3. CASE UNCHANGED vars
    <2>1. /\ row' = row /\ ops' = ops /\ pc' = pc /\ seen' = seen /\ pend' = pend
          /\ plan' = plan /\ basis' = basis
      BY <1>3 DEF vars
    <2>2. Chained'
      BY <2>1 DEF ChainInv, Chained, Predecessor
    <2>3. \A p \in Requests : Relinked(p)'
      BY <2>1, RelinkedFrame DEF ChainInv
    <2> QED  BY <2>1, <2>2, <2>3 DEF ChainInv, Requests
  <1> QED  BY <1>1, <1>2, <1>3 DEF Next, Steps

THEOREM ChainsAreOrdered == Spec => []ChainsFollowKeys
  <1>1. Init => ChainInv
    BY DEF Init, ChainInv, Chained, Relinked
  <1>2. ChainInv => ChainsFollowKeys
    BY DEF ChainInv, Chained, ChainsFollowKeys
  <1> QED  BY <1>1, <1>2, ChainStep, RegistryTyped, PTL DEF Spec

=============================================================================
