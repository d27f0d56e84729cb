------------------------------ MODULE Registry ------------------------------
(***************************************************************************)
(* The PostgreSQL rows behind the API and the worker (db_store.py,         *)
(* local_auth.py), under requests that run at the same time on             *)
(* connections of their own.                                               *)
(*                                                                         *)
(* A step is one statement, or one transaction of a single statement.      *)
(* PostgreSQL runs READ COMMITTED: a statement sees what is committed and  *)
(* the writes of its own transaction, a row written by an open transaction *)
(* is locked until that ends, and of a circle of waiting transactions one  *)
(* is aborted.  Ownership (get_project, get_chat for another subject) is   *)
(* left out: every request is by the owner of the rows.                    *)
(***************************************************************************)
EXTENDS Naturals, FiniteSets, Functions

CONSTANTS
    Documents,
    Born,       \* Born[d]: created_at, one number per document
    Group,      \* Group[d]: owner, project, chat, family and kind of version
    Key,        \* Key[d]: version_sort_key, one number
    Projects, Chats,
    LockAfter,  \* wrong attempts that lock an account (5)
    Mixes       \* the situations: the requests that run (.ops, by name) and
                \* the committed rows they find (.row)

(* Requests: upload (create_document), status (update_document with the     *)
(* fields its callers send, which are no version fields), delete            *)
(* (tombstone_document), each on .doc; drop (delete_project) on .project;   *)
(* backfill (_backfill_document_versions of a process that starts);         *)
(* open (create_chat) and move (update_chat) of .chat into .project; first  *)
(* (ensure_default_workspace, making .chat in .project); login with the     *)
(* .right password or not.                                                  *)

Account == "account"
Workspace == "workspace"

Ids == Documents \cup Projects \cup Chats \cup {Account, Workspace}

ASSUME RegistryAssumption ==
    /\ LockAfter \in Nat \ {0}
    /\ DOMAIN Group = Documents
    /\ \A d \in Documents : Key[d] \in Nat /\ Born[d] \in Nat
    /\ \A d, e \in Documents : Born[d] = Born[e] => d = e
    /\ Documents \cap Projects = {} /\ Documents \cap Chats = {} /\ Projects \cap Chats = {}
    /\ {Account, Workspace} \cap (Documents \cup Projects \cup Chats) = {}

\* The requests, the rows, and the rows a request makes under ids of its own.
Request == [op : {"upload", "status", "delete"}, doc : Documents]
             \cup [op : {"drop"}, project : Projects] \cup [op : {"backfill"}]
             \cup [op : {"open", "move", "first"}, project : Projects, chat : Chats]
             \cup [op : {"login"}, right : BOOLEAN]
Status == {"none", "live", "gone"}
Rows == [st : Status] \cup [st : Status, sup : SUBSET Documents]
          \cup [st : Status, project : SUBSET Projects] \cup {[failed |-> 0, lock |-> "none"]}
Makes(r) == {x \in Ids : \/ r.op = "upload" /\ x = r.doc
                         \/ r.op = "first" /\ x = r.project
                         \/ r.op \in {"open", "first"} /\ x = r.chat}

ASSUME MixesAssumption ==
    \A m \in Mixes :
        /\ m.row \in [Ids -> Rows]
        /\ \A d \in Documents : m.row[d] \in [st : Status, sup : SUBSET Documents]
        /\ \A p \in Projects \cup {Workspace} : m.row[p] \in [st : Status]
        /\ \A c \in Chats : m.row[c] \in [st : Status, project : SUBSET Projects]
        /\ m.row[Account] = [failed |-> 0, lock |-> "none"]
        /\ IsFiniteSet(DOMAIN m.ops)
        /\ \A q \in DOMAIN m.ops : m.ops[q] \in Request
        /\ \A q \in DOMAIN m.ops : \A x \in Makes(m.ops[q]) : m.row[x].st = "none"
        /\ \A p, q \in DOMAIN m.ops : Makes(m.ops[p]) \cap Makes(m.ops[q]) # {} => p = q

VARIABLES
    row,     \* the committed rows
    ops,     \* the requests
    pc,      \* where each request is
    seen,    \* the row a request read before its transaction
    pend,    \* rows written by the open transaction of a request
    plan,    \* the loop of a rebuild: the row it is at, the rows left, and its
             \* predecessor_id and previous_version_id
    result,  \* how the request ended
    basis    \* per group, the members the last committed relinking had read

vars == <<row, ops, pc, seen, pend, plan, result, basis>>

Live(d) == row[d].st = "live"
Requests == DOMAIN ops
Relinks == {"upload", "status", "delete", "backfill"}

Init ==
    /\ \E m \in Mixes : ops = m.ops /\ row = m.row
    /\ pc = [q \in Requests |-> "look"]
    /\ seen = [q \in Requests |-> <<>>]
    /\ pend = [q \in Requests |-> <<>>]
    /\ plan = [q \in Requests |-> <<>>]
    /\ result = [q \in Requests |-> "none"]
    /\ basis = [g \in Range(Group) |-> {}]

Target(q) ==
    CASE ops[q].op \in {"upload", "status", "delete"} -> ops[q].doc
      [] ops[q].op = "drop" -> ops[q].project
      [] ops[q].op \in {"open", "move"} -> ops[q].chat
      [] ops[q].op = "first" -> Workspace
      [] ops[q].op = "login" -> Account

Goto(q, label) == pc' = [pc EXCEPT ![q] = label]
End(q, how) == Goto(q, "done") /\ result' = [result EXCEPT ![q] = how]

(* Locks.                                                                   *)
Free(d, q) == \A other \in Requests \ {q} : d \notin DOMAIN pend[other]
Current(d, q) == IF d \in DOMAIN pend[q] THEN pend[q][d] ELSE row[d]
Over(f, g) == [x \in DOMAIN f \cup DOMAIN g |-> IF x \in DOMAIN f THEN f[x] ELSE g[x]]
Put(q, d, value) == pend' = [pend EXCEPT ![q] = Over([x \in {d} |-> value], @)]

\* delete_project: the chats its first UPDATE finds
Detached(q) == {c \in Chats : Live(c) /\ ops[q].project \in row[c].project}

\* the rows a request is about to write
Wanted(q) ==
    CASE pc[q] = "write" -> IF ops[q].op = "drop" THEN Detached(q) ELSE {Target(q)}
      [] pc[q] = "link" -> {plan[q].at}
      [] pc[q] = "close" -> {ops[q].project}
      [] OTHER -> {}
Waits(q, w) == q # w /\ Wanted(q) \cap DOMAIN pend[w] # {}
Deadlocked(q) ==
    \E circle \in SUBSET Requests :
        q \in circle /\ \A p \in circle : \E w \in circle : Waits(p, w)

-----------------------------------------------------------------------------
(* Reads that come before the transaction.                                 *)

\* get_document, get_project, get_chat, the SELECTs of authenticate_credentials
\* and ensure_default_workspace
Look(q) ==
    /\ pc[q] = "look"
    /\ ops[q].op # "backfill"
    /\ seen' = [seen EXCEPT ![q] = IF ops[q].op = "upload" THEN <<>> ELSE row[Target(q)]]
    /\ IF \/ ops[q].op \in {"status", "delete", "drop", "move"} /\ ~Live(Target(q))
          \/ ops[q].op \in {"open", "move"} /\ ~Live(ops[q].project)
       THEN End(q, "missing")
       ELSE IF ops[q].op = "first" /\ Live(Workspace) THEN End(q, "ok")
       ELSE Goto(q, "write") /\ UNCHANGED result
    /\ UNCHANGED <<row, ops, pend, plan, basis>>

-----------------------------------------------------------------------------
(* Version chains.                                                         *)

\* the live rows of a group as request q sees them, by key and creation
Members(g, q) == {d \in Documents : Group[d] = g /\ Current(d, q).st = "live"}
Before(d, e) == Key[d] < Key[e] \/ (Key[d] = Key[e] /\ Born[d] < Born[e])
\* the row the loop over S may come to first: groups in any order, and the
\* rows of a group in theirs
First(S) == {d \in S : \A e \in S : Group[e] = Group[d] => ~Before(e, d)}

\* the loop's previous row, forgotten where another group begins
Previous(q) == {e \in plan[q].previous : Group[e] = Group[plan[q].at]}
\* Mutant: a row with the key of the previous one counts as a newer version.
NewerOrEqual(q) == \E e \in Previous(q) : Key[plan[q].at] >= Key[e]
Newer(q) == \E e \in Previous(q) : Key[plan[q].at] > Key[e]
\* predecessor_id at the UPDATE
Linked(q) == IF Newer(q) THEN Previous(q)
             ELSE IF Previous(q) = {} THEN {} ELSE plan[q].predecessor

\* create_document: INSERT, the first statement of its transaction
InsertDocument(q) ==
    /\ ops[q].op = "upload"
    /\ Put(q, ops[q].doc, [st |-> "live", sup |-> {}])
    /\ Goto(q, "select")
    /\ UNCHANGED <<row, result>>

\* _update_entity: committed before the chain is looked at
UpdateDocument(q) ==
    /\ ops[q].op = "status" /\ Free(ops[q].doc, q)
    /\ IF Live(ops[q].doc) THEN Goto(q, "select") /\ UNCHANGED result ELSE End(q, "missing")
    /\ UNCHANGED <<row, pend>>

\* tombstone_document: the chain is rebuilt in the same transaction, and also
\* when the row was gone already
HideDocument(q) ==
    /\ ops[q].op = "delete" /\ Free(ops[q].doc, q)
    /\ IF Live(ops[q].doc) THEN Put(q, ops[q].doc, [row[ops[q].doc] EXCEPT !.st = "gone"])
       ELSE UNCHANGED pend
    /\ Goto(q, "select")
    /\ UNCHANGED <<row, result>>

\* the groups a request relinks
Groups(q) == IF ops[q].op = "backfill" THEN Range(Group) ELSE {Group[ops[q].doc]}

\* the SELECT of the rebuild; the backfill takes the groups in any order
Select(q) ==
    /\ IF ops[q].op = "backfill" THEN pc[q] = "look" ELSE pc[q] = "select"
    /\ LET read == UNION {Members(g, q) : g \in Groups(q)}
       IN /\ seen' = [seen EXCEPT ![q] = read]
          /\ \/ read = {} /\ Goto(q, "commit") /\ UNCHANGED plan
             \/ /\ Goto(q, "link")
                /\ \E d \in First(read) :
                      plan' = [plan EXCEPT ![q] = [at |-> d, rest |-> read \ {d},
                                                   previous |-> {}, predecessor |-> {}]]
    /\ UNCHANGED <<row, ops, pend, result, basis>>

\* one UPDATE of the rebuild, and the loop comes to the next row
Link(q) ==
    /\ pc[q] = "link" /\ Free(plan[q].at, q)
    /\ LET d == plan[q].at
           rest == plan[q].rest
           same == {e \in rest : Group[e] = Group[d]}
           previous == IF Previous(q) = {} \/ Newer(q) THEN {d} ELSE Previous(q)
       IN /\ Put(q, d, [Current(d, q) EXCEPT !.sup = Linked(q)])
          /\ \/ rest = {} /\ Goto(q, "commit") /\ UNCHANGED plan
             \/ /\ Goto(q, "link")
                /\ \E e \in First(IF same # {} THEN same ELSE rest) :
                      plan' = [plan EXCEPT ![q] = [at |-> e, rest |-> rest \ {e}, previous |-> previous,
                                                   predecessor |-> Linked(q)]]
    /\ UNCHANGED <<row, ops, seen, result, basis>>

-----------------------------------------------------------------------------
(* Projects, chats, the first workspace, the account.                      *)

\* delete_project: the chats it finds now are detached
DetachChats(q) ==
    /\ ops[q].op = "drop" /\ \A c \in Detached(q) : Free(c, q)
    /\ pend' = [pend EXCEPT ![q] = [c \in Detached(q) |-> [row[c] EXCEPT !.project = {}]]]
    /\ Goto(q, "close")
    /\ UNCHANGED <<row, result>>

\* then the project is hidden
CloseProject(q) ==
    /\ pc[q] = "close" /\ Free(ops[q].project, q)
    /\ IF Live(ops[q].project) THEN Put(q, ops[q].project, [st |-> "gone"]) ELSE UNCHANGED pend
    /\ Goto(q, "commit")
    /\ UNCHANGED <<row, ops, seen, plan, result, basis>>

\* create_chat: a single INSERT
OpenChat(q) ==
    /\ ops[q].op = "open"
    /\ row' = [row EXCEPT ![ops[q].chat] = [st |-> "live", project |-> {ops[q].project}]]
    /\ End(q, "ok")
    /\ UNCHANGED pend

\* update_chat: a single UPDATE of a row that is still live
MoveChat(q) ==
    /\ ops[q].op = "move" /\ Free(ops[q].chat, q)
    /\ IF Live(ops[q].chat)
       THEN row' = [row EXCEPT ![ops[q].chat].project = {ops[q].project}] /\ End(q, "ok")
       ELSE UNCHANGED row /\ End(q, "missing")
    /\ UNCHANGED pend

\* Mutant: the project and the chat are committed before the workspace.
InsertWorkspaceLast(q) ==
    /\ ops[q].op = "first" /\ Free(Workspace, q)
    /\ row' = [row EXCEPT ![ops[q].project] = [st |-> "live"],
                          ![ops[q].chat] = [st |-> "live", project |-> {ops[q].project}]]
    /\ IF Live(Workspace) THEN End(q, "error") /\ UNCHANGED pend
       ELSE Put(q, Workspace, [st |-> "live"]) /\ Goto(q, "commit") /\ UNCHANGED result
\* ensure_default_workspace: three INSERTs, the last on a unique index
InsertWorkspace(q) ==
    /\ ops[q].op = "first" /\ Free(Workspace, q)
    /\ IF Live(Workspace) THEN End(q, "error") /\ UNCHANGED pend
       ELSE /\ pend' = [pend EXCEPT ![q] =
                 Over([x \in {ops[q].project, Workspace} |-> [st |-> "live"]],
                      [x \in {ops[q].chat} |-> [st |-> "live", project |-> {ops[q].project}]])]
            /\ Goto(q, "commit") /\ UNCHANGED result
    /\ UNCHANGED row

\* Mutant: the counter is written back from the row that was read.
RefusedByRead(q) ==
    LET n == seen[q].failed + 1
    IN [failed |-> n, lock |-> IF n >= LockAfter THEN "on" ELSE row[Account].lock]
\* authenticate_credentials: the UPDATE of a refused attempt
Refused(q) ==
    LET n == row[Account].failed + 1
    IN [failed |-> n, lock |-> IF n >= LockAfter THEN "on" ELSE row[Account].lock]

\* the password and the lock were judged on the row read before
Login(q) ==
    /\ ops[q].op = "login"
    /\ IF ops[q].right /\ seen[q].lock # "on"
       THEN row' = [row EXCEPT ![Account] = [failed |-> 0, lock |-> "none"]] /\ End(q, "ok")
       ELSE row' = [row EXCEPT ![Account] = Refused(q)] /\ End(q, "refused")
    /\ UNCHANGED pend

\* time passes: the lock, and every lock read before, has expired
LockExpires ==
    /\ row[Account].lock = "on"
    /\ row' = [row EXCEPT ![Account].lock = "past"]
    /\ seen' = [q \in Requests |-> IF ops[q].op = "login" /\ seen[q] # <<>> /\ seen[q].lock = "on"
                                   THEN [seen[q] EXCEPT !.lock = "past"] ELSE seen[q]]
    /\ UNCHANGED <<ops, pc, pend, plan, result, basis>>

-----------------------------------------------------------------------------
Write(q) ==
    /\ pc[q] = "write"
    /\ \/ InsertDocument(q) \/ UpdateDocument(q) \/ HideDocument(q) \/ DetachChats(q)
       \/ OpenChat(q) \/ MoveChat(q) \/ InsertWorkspace(q) \/ Login(q)
    /\ UNCHANGED <<ops, seen, plan, basis>>

\* a DELETE that found its row gone answers that there was nothing to delete
Outcome(q) == IF ops[q].op \in {"delete", "drop"} /\ Target(q) \notin DOMAIN pend[q]
              THEN "missing" ELSE "ok"

\* conn.commit() at the end of a transaction
Commit(q) ==
    /\ pc[q] = "commit"
    /\ row' = Over(pend[q], row)
    /\ pend' = [pend EXCEPT ![q] = <<>>]
    /\ basis' = IF ops[q].op \notin Relinks THEN basis
                ELSE Over([g \in Groups(q) |-> {d \in seen[q] : Group[d] = g}], basis)
    /\ End(q, Outcome(q))
    /\ UNCHANGED <<ops, seen, plan>>

\* PostgreSQL ends one of the transactions that wait for each other
Abort(q) ==
    /\ Deadlocked(q)
    /\ pend' = [pend EXCEPT ![q] = <<>>]
    /\ End(q, "error")
    /\ UNCHANGED <<row, ops, seen, plan, basis>>

Next == LockExpires \/ \E q \in Requests :
            Look(q) \/ Write(q) \/ Select(q) \/ Link(q) \/ CloseProject(q) \/ Commit(q) \/ Abort(q)

Spec == Init /\ [][Next]_vars
-----------------------------------------------------------------------------
(* Properties.                                                             *)

\* the version a document follows: of those with the greatest smaller key the
\* one created first
Predecessor(d, S) ==
    LET older == {e \in S : Key[e] < Key[d]}
        nearest == {e \in older : \A f \in older : Key[f] <= Key[e]}
    IN {e \in nearest : \A f \in nearest : Born[e] <= Born[f]}

(* Once a relinking that had read exactly the live versions of a group has  *)
(* been committed last, every version of it names the right predecessor,    *)
(* although uploads, deletions and status updates relink the same rows at   *)
(* the same time, each from what it had read                                *)
(* (_rebuild_document_version_chain).                                       *)
ChainsFollowKeys ==
    \A g \in Range(Group) :
        basis[g] = {d \in Documents : Group[d] = g /\ Live(d)}
          => \A d \in basis[g] : row[d].sup = Predecessor(d, basis[g])

(* A request that answers with an error has left nothing behind: an upload  *)
(* no row, a deletion a visible document, a first visit no project or chat  *)
(* without its workspace, whichever transaction PostgreSQL chose to end     *)
(* (create_document, tombstone_document, ensure_default_workspace).         *)
FailedIsUndone ==
    \A q \in Requests : result[q] = "error" =>
        CASE ops[q].op = "upload" -> row[ops[q].doc].st = "none"
          [] ops[q].op = "delete" -> \/ Live(ops[q].doc)
                                     \/ \E w \in Requests : result[w] = "ok" /\ ops[w] = ops[q]
          [] ops[q].op = "first" -> row[ops[q].project].st = "none" /\ row[ops[q].chat].st = "none"
          [] OTHER -> TRUE

(* No wrong attempt is lost however many run at once, and the last one      *)
(* allowed locks the account; the count only falls to zero with a login     *)
(* that succeeds (authenticate_credentials).                                *)
AttemptsAreCounted ==
    LET refused == {q \in Requests : ops[q].op = "login" /\ result[q] = "refused"}
        admitted == {q \in Requests : ops[q].op = "login" /\ result[q] = "ok"}
    IN /\ admitted = {} => row[Account].failed = Cardinality(refused)
       /\ row[Account].failed >= LockAfter => row[Account].lock # "none"
=============================================================================
