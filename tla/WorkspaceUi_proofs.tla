-------------------------- MODULE WorkspaceUi_proofs --------------------------
(***************************************************************************)
(* One browser tab for any number of chats, turns, handlers under way and  *)
(* lost calls, and any script of the user: the debug tab shows the context *)
(* of the answer in the panel, and the panel an answer of the open chat.   *)
(*                                                                         *)
(* What makes it so is where the ids come from: the browser cannot act on  *)
(* a chat before its creation was answered, so nothing on the screen and   *)
(* no other handler is of that chat when its answer switches to it         *)
(* (Unlisted).                                                             *)
(***************************************************************************)
EXTENDS WorkspaceUi, SequenceTheorems, WellFoundedInduction, TLAPS

Turn == {"asked", "running", "complete", "sending", "failed", "refused"}
AnswerId == {NoAnswer} \cup [chat : Chats, turn : Nat]
TaskType ==
    {t \in [kind : {"poll", "open", "create", "ask", "delete", "inspect"}, chat : Chats,
            step : {"load", "recover", "post", "ask", "make", "drop", "sync", "title", "job"},
            back : BOOLEAN, data : Seq(Turn), turn : Nat, clear : BOOLEAN, was : BOOLEAN,
            current : BOOLEAN] :
       t.kind = "inspect" => t.step = "job"}

\* Whether a handler waits for the chat it asked the server to make.
IsMake(t) == t.kind = "create" /\ t.step = "make"
\* Whether the server made the chat of a handler.
IsMade(t) == IsMake(t) => t.back

Typed ==
    /\ DOMAIN db \subseteq Chats /\ db \in [DOMAIN db -> Seq(Turn)]
    /\ exists \subseteq Chats /\ chats \subseteq Chats
    /\ active \in Chats \cup {None}
    /\ thread \in [chat : Chats \cup {None}, turns : Seq(Turn)]
    /\ panel \in [id : AnswerId, context : BOOLEAN]
    /\ debug \in [shown : AnswerId, busy : BOOLEAN, inFlight : BOOLEAN]
    /\ tasks \in Seq(TaskType)

\* The chats of the handlers, but for those still to be made, are of made.
MadeIn(list, made) == \A i \in DOMAIN list : IsMade(list[i]) => list[i].chat \in made
\* A chat still to be made, or whose creation is not answered yet, is in none
\* of the places, and of one handler only.
Nowhere(list, places) ==
    \A i \in DOMAIN list : IsMake(list[i]) =>
        /\ list[i].chat \notin places
        /\ \A j \in DOMAIN list : list[j].chat = list[i].chat => j = i

\* Where a chat may be met in the tab.
Places == chats \cup {active, thread.chat, panel.id.chat}

\* The chats the tab knows of were created by the server.
Born == Places \subseteq DOMAIN db \cup {None} /\ MadeIn(tasks, DOMAIN db)
Unlisted == Nowhere(tasks, Places)

\* Somebody is fetching the context of an answer.
Owner(list, id) ==
    \E i \in DOMAIN list : /\ list[i].kind = "inspect" /\ list[i].current
                           /\ [chat |-> list[i].chat, turn |-> list[i].turn] = id

Inspecting ==
    /\ debug.shown # NoAnswer => panel.id = debug.shown
    /\ debug.busy => /\ panel.id # NoAnswer
                     /\ panel.id.chat = active => Owner(tasks, panel.id)

UiInv == Typed /\ Born /\ Unlisted /\ Inspecting /\ PanelIsOfThread
-----------------------------------------------------------------------------
(* Lists of handlers.                                                      *)

\* Removing one: the later ones move up.
LEMMA DropIs ==
    ASSUME NEW T, NEW s \in Seq(T), NEW i \in DOMAIN s
    PROVE  /\ RemoveAt(s, i) \in Seq(T)
           /\ DOMAIN RemoveAt(s, i) = 1 .. Len(s) - 1
           /\ \A j \in 1 .. Len(s) - 1 : RemoveAt(s, i)[j] = s[IF j < i THEN j ELSE j + 1]
  <1> DEFINE a == SubSeq(s, 1, i - 1)
             b == SubSeq(s, i + 1, Len(s))
  <1>1. i \in 1 .. Len(s)
    OBVIOUS
  <1>2. a \in Seq(T) /\ Len(a) = i - 1 /\ \A j \in 1 .. i - 1 : a[j] = s[j]
    BY <1>1
  <1>3. b \in Seq(T) /\ Len(b) = Len(s) - i /\ \A j \in 1 .. Len(s) - i : b[j] = s[i + j]
    BY <1>1
  <1> HIDE DEF a, b
  <1>4. /\ a \o b \in Seq(T) /\ Len(a \o b) = Len(s) - 1
        /\ \A j \in 1 .. Len(s) - 1 : (a \o b)[j] = IF j <= Len(a) THEN a[j] ELSE b[j - Len(a)]
    <2>1. \A j \in 1 .. Len(a) + Len(b) :
            (a \o b)[j] = IF j <= Len(a) THEN a[j] ELSE b[j - Len(a)]
      BY <1>2, <1>3, ConcatProperties
    <2>2. Len(a) + Len(b) = Len(s) - 1
      BY <1>1, <1>2, <1>3
    <2>3. a \o b \in Seq(T) /\ Len(a \o b) = Len(a) + Len(b)
      BY <1>2, <1>3, ConcatProperties
    <2> QED  BY <2>1, <2>2, <2>3
  <1>5. ASSUME NEW j \in 1 .. Len(s) - 1
        PROVE  (a \o b)[j] = s[IF j < i THEN j ELSE j + 1]
    <2>1. CASE j < i
      BY <1>1, <1>2, <1>4, <2>1
    <2>2. CASE ~(j < i)
      <3>1. j - (i - 1) \in 1 .. Len(s) - i /\ i + (j - (i - 1)) = j + 1
        BY <1>1, <2>2
      <3>2. (a \o b)[j] = b[j - (i - 1)]
        BY <1>1, <1>2, <1>4, <2>2
      <3> QED  BY <1>3, <2>2, <3>1, <3>2
    <2> QED  BY <2>1, <2>2
  <1>6. DOMAIN (a \o b) = 1 .. Len(s) - 1
    BY <1>4
  <1>7. RemoveAt(s, i) = a \o b
    BY DEF RemoveAt, a, b
  <1> QED  BY <1>4, <1>5, <1>6, <1>7

\* A handler is the same but for where it is in its calls: it waits for no
\* new chat unless it did, and its chat is not made by this.
SameTask(new, old) ==
    /\ new.kind = old.kind /\ new.chat = old.chat
    /\ IsMake(new) => IsMake(old)
    /\ IsMade(new) => IsMade(old)

\* A list derives from another when it holds some of its handlers, each once.
Derives(new, old) ==
    \E from \in [DOMAIN new -> DOMAIN old] :
        /\ \A j, k \in DOMAIN new : from[j] = from[k] => j = k
        /\ \A j \in DOMAIN new : SameTask(new[j], old[from[j]])

LEMMA DropDerives ==
    ASSUME NEW s \in Seq(TaskType), NEW i \in DOMAIN s
    PROVE  Derives(RemoveAt(s, i), s)
  <1> DEFINE from == [j \in 1 .. Len(s) - 1 |-> IF j < i THEN j ELSE j + 1]
  <1>1. /\ DOMAIN RemoveAt(s, i) = 1 .. Len(s) - 1
        /\ \A j \in 1 .. Len(s) - 1 : RemoveAt(s, i)[j] = s[IF j < i THEN j ELSE j + 1]
    BY DropIs
  <1>2. i \in 1 .. Len(s)
    OBVIOUS
  <1>3. from \in [1 .. Len(s) - 1 -> DOMAIN s]
    BY <1>2
  <1>4. \A j, k \in 1 .. Len(s) - 1 : from[j] = from[k] => j = k
    BY <1>2
  <1>5. \A j \in 1 .. Len(s) - 1 : RemoveAt(s, i)[j] = s[from[j]]
    BY <1>1
  <1> HIDE DEF from
  <1> DEFINE new == RemoveAt(s, i)
  <1>6. \A j \in DOMAIN new : SameTask(new[j], s[from[j]])
    BY <1>1, <1>5 DEF SameTask
  <1>7. from \in [DOMAIN new -> DOMAIN s] /\ \A j, k \in DOMAIN new : from[j] = from[k] => j = k
    BY <1>1, <1>3, <1>4
  <1> HIDE DEF new
  <1>8. Derives(new, s)
    BY <1>6, <1>7 DEF Derives
  <1> QED  BY <1>8 DEF new

\* A reply, or the next call of the same handler.
LEMMA ChangeDerives ==
    ASSUME NEW s \in Seq(TaskType), NEW i \in DOMAIN s, NEW t \in TaskType,
           SameTask(t, s[i])
    PROVE  /\ [s EXCEPT ![i] = t] \in Seq(TaskType)
           /\ Derives([s EXCEPT ![i] = t], s)
  <1> DEFINE new == [s EXCEPT ![i] = t]
             from == [j \in DOMAIN s |-> j]
  <1>1. new \in Seq(TaskType) /\ DOMAIN new = DOMAIN s
    OBVIOUS
  <1>2. from \in [DOMAIN s -> DOMAIN s] /\ \A j \in DOMAIN s : from[j] = j
    OBVIOUS
  <1>3. \A j \in DOMAIN s : SameTask(new[j], s[j])
    BY DEF SameTask
  <1> HIDE DEF new, from
  <1>4. Derives(new, s)
    BY <1>1, <1>2, <1>3 DEF Derives
  <1> QED  BY <1>1, <1>4 DEF new

LEMMA CurrentSet ==
    ASSUME NEW t \in TaskType, NEW v \in BOOLEAN
    PROVE  [t EXCEPT !.current = v] \in TaskType /\ SameTask([t EXCEPT !.current = v], t)
  BY DEF TaskType, SameTask, IsMake, IsMade

LEMMA OutdatedIs ==
    ASSUME NEW s \in Seq(TaskType), NEW same \in BOOLEAN
    PROVE  /\ Outdated(same, s) \in Seq(TaskType)
           /\ DOMAIN Outdated(same, s) = DOMAIN s
           /\ \A j \in DOMAIN s : SameTask(Outdated(same, s)[j], s[j])
           /\ same => Outdated(same, s) = s
  <1>1. CASE same
    BY <1>1 DEF Outdated, SameTask
  <1>2. CASE ~same
    <2> DEFINE new == [j \in DOMAIN s |-> [s[j] EXCEPT !.current = @ /\ s[j].kind # "inspect"]]
    <2>1. Outdated(same, s) = new
      BY <1>2 DEF Outdated
    <2>2. ASSUME NEW j \in DOMAIN s
          PROVE  new[j] \in TaskType /\ SameTask(new[j], s[j])
      <3>1. s[j] \in TaskType
        OBVIOUS
      <3>2. (s[j].current /\ s[j].kind # "inspect") \in BOOLEAN
        OBVIOUS
      <3>3. new[j] = [s[j] EXCEPT !.current = s[j].current /\ s[j].kind # "inspect"]
        OBVIOUS
      <3> HIDE DEF new
      <3> QED  BY <3>1, <3>2, <3>3, CurrentSet
    <2>3. new \in Seq(TaskType) /\ DOMAIN new = DOMAIN s
      <3>1. Len(s) \in Nat /\ DOMAIN s = 1 .. Len(s)
        OBVIOUS
      <3>2. DOMAIN new = DOMAIN s
        OBVIOUS
      <3> HIDE DEF new
      <3>3. new = [j \in 1 .. Len(s) |-> new[j]]
        BY <3>1 DEF new
      <3>4. \A j \in 1 .. Len(s) : new[j] \in TaskType
        BY <2>2, <3>1
      <3>5. new \in [1 .. Len(s) -> TaskType]
        BY <3>3, <3>4
      <3> QED  BY <3>1, <3>2, <3>5, SeqDef
    <2> HIDE DEF new
    <2> QED  BY <1>2, <2>1, <2>2, <2>3
  <1> QED  BY <1>1, <1>2

LEMMA DerivesTwice ==
    ASSUME NEW a, NEW b, NEW c, Derives(b, a), DOMAIN c = DOMAIN b,
           \A j \in DOMAIN b : SameTask(c[j], b[j])
    PROVE  Derives(c, a)
  <1>1. PICK from \in [DOMAIN b -> DOMAIN a] :
          /\ \A j, k \in DOMAIN b : from[j] = from[k] => j = k
          /\ \A j \in DOMAIN b : SameTask(b[j], a[from[j]])
    BY DEF Derives
  <1>2. \A j \in DOMAIN b : SameTask(c[j], a[from[j]])
    BY <1>1 DEF SameTask
  <1> QED  BY <1>1, <1>2 DEF Derives
-----------------------------------------------------------------------------
(* What a list of handlers keeps when it changes.                          *)

\* The chats of the handlers that wait for no new one.
Served(list) == {list[k].chat : k \in {k \in DOMAIN list : ~IsMake(list[k])}}

LEMMA NowhereOfDerived ==
    ASSUME NEW old \in Seq(TaskType), NEW new, NEW P, NEW Q, Derives(new, old),
           Nowhere(old, P), Q \subseteq P \cup Served(old) \cup {None}
    PROVE  Nowhere(new, Q)
  <1>1. PICK from \in [DOMAIN new -> DOMAIN old] :
          /\ \A j, k \in DOMAIN new : from[j] = from[k] => j = k
          /\ \A j \in DOMAIN new : SameTask(new[j], old[from[j]])
    BY DEF Derives
  <1>2. SUFFICES ASSUME NEW i \in DOMAIN new, IsMake(new[i])
                 PROVE  /\ new[i].chat \notin Q
                        /\ \A j \in DOMAIN new : new[j].chat = new[i].chat => j = i
    BY DEF Nowhere
  <1>3. from[i] \in DOMAIN old /\ IsMake(old[from[i]]) /\ old[from[i]].chat = new[i].chat
    BY <1>1, <1>2 DEF SameTask
  <1>4. new[i].chat \notin P /\ \A k \in DOMAIN old : old[k].chat = new[i].chat => k = from[i]
    BY <1>3 DEF Nowhere
  <1>5. new[i].chat \notin Served(old)
    BY <1>3, <1>4 DEF Served
  <1>6. new[i].chat # None
    <2>1. old[from[i]] \in TaskType
      BY <1>3
    <2> QED  BY <1>3, <2>1, WorkspaceUiAssumption DEF TaskType
  <1>7. \A j \in DOMAIN new : new[j].chat = new[i].chat => j = i
    BY <1>1, <1>3, <1>4 DEF SameTask
  <1> QED  BY <1>4, <1>5, <1>6, <1>7

LEMMA MadeOfDerived ==
    ASSUME NEW old, NEW new, NEW D, NEW E, Derives(new, old), MadeIn(old, D), D \subseteq E
    PROVE  MadeIn(new, E)
  BY DEF Derives, MadeIn, SameTask

LEMMA NowhereOfMore ==
    ASSUME NEW list \in Seq(TaskType), NEW t \in TaskType, NEW P, NEW D, Nowhere(list, P),
           ~IsMake(t), t.chat \in P, MadeIn(list, D), P \subseteq D \cup {None}
    PROVE  Nowhere(Append(list, t), P) /\ MadeIn(Append(list, t), D)
  <1> DEFINE new == Append(list, t)
  <1>1. /\ DOMAIN new = 1 .. Len(list) + 1 /\ new[Len(list) + 1] = t
        /\ \A k \in 1 .. Len(list) : new[k] = list[k]
    OBVIOUS
  <1>2. DOMAIN list = 1 .. Len(list) /\ Len(list) \in Nat
    OBVIOUS
  <1> HIDE DEF new
  <1>3. ASSUME NEW i \in DOMAIN new, IsMake(new[i])
        PROVE  /\ new[i].chat \notin P
               /\ \A j \in DOMAIN new : new[j].chat = new[i].chat => j = i
    <2>1. i \in DOMAIN list /\ new[i] = list[i]
      BY <1>1, <1>2, <1>3
    <2>2. new[i].chat \notin P
      BY <1>3, <2>1 DEF Nowhere
    <2>3. ASSUME NEW j \in DOMAIN new, new[j].chat = new[i].chat
          PROVE  j = i
      <3>1. j # Len(list) + 1
        BY <1>1, <2>2, <2>3
      <3>2. j \in DOMAIN list /\ new[j] = list[j]
        BY <1>1, <1>2, <3>1
      <3> QED  BY <1>3, <2>1, <2>3, <3>2 DEF Nowhere
    <2> QED  BY <2>2, <2>3
  <1>4. Nowhere(new, P)
    BY <1>3 DEF Nowhere
  <1>5. t.chat \in D
    BY WorkspaceUiAssumption DEF TaskType
  <1>6. MadeIn(new, D)
    BY <1>1, <1>2, <1>5 DEF MadeIn
  <1> QED  BY <1>4, <1>6 DEF new

LEMMA OwnerOfChange ==
    ASSUME NEW s \in Seq(TaskType), NEW i \in DOMAIN s, NEW t, NEW id, Owner(s, id),
           s[i].kind = "inspect" => /\ t.kind = "inspect" /\ t.current = s[i].current
                                    /\ t.chat = s[i].chat /\ t.turn = s[i].turn
    PROVE  Owner([s EXCEPT ![i] = t], id)
  <1>1. PICK k \in DOMAIN s : /\ s[k].kind = "inspect" /\ s[k].current
                             /\ [chat |-> s[k].chat, turn |-> s[k].turn] = id
    BY DEF Owner
  <1> DEFINE new == [s EXCEPT ![i] = t]
  <1>2. DOMAIN new = DOMAIN s /\ new[i] = t /\ \A j \in DOMAIN s : j # i => new[j] = s[j]
    OBVIOUS
  <1> HIDE DEF new
  <1>3. /\ new[k].kind = "inspect" /\ new[k].current
        /\ [chat |-> new[k].chat, turn |-> new[k].turn] = id
    BY <1>1, <1>2
  <1>4. Owner(new, id)
    BY <1>2, <1>3 DEF Owner
  <1> QED  BY <1>4 DEF new

LEMMA OwnerOfDrop ==
    ASSUME NEW s \in Seq(TaskType), NEW i \in DOMAIN s, NEW id, Owner(s, id),
           ~(/\ s[i].kind = "inspect" /\ s[i].current
             /\ [chat |-> s[i].chat, turn |-> s[i].turn] = id)
    PROVE  Owner(RemoveAt(s, i), id)
  <1>1. PICK k \in DOMAIN s : /\ s[k].kind = "inspect" /\ s[k].current
                             /\ [chat |-> s[k].chat, turn |-> s[k].turn] = id
    BY DEF Owner
  <1>2. k # i /\ k \in 1 .. Len(s) /\ i \in 1 .. Len(s)
    BY <1>1
  <1> DEFINE j == IF k < i THEN k ELSE k - 1
             new == RemoveAt(s, i)
  <1>3. j \in 1 .. Len(s) - 1 /\ (IF j < i THEN j ELSE j + 1) = k
    BY <1>2
  <1>4. DOMAIN new = 1 .. Len(s) - 1 /\ new[j] = s[k]
    BY <1>3, DropIs
  <1> HIDE DEF new, j
  <1>5. Owner(new, id)
    BY <1>1, <1>3, <1>4 DEF Owner
  <1> QED  BY <1>5 DEF new

LEMMA OwnerOfMore ==
    ASSUME NEW s \in Seq(TaskType), NEW t, NEW id,
           \/ Owner(s, id)
           \/ /\ t.kind = "inspect" /\ t.current
              /\ [chat |-> t.chat, turn |-> t.turn] = id
    PROVE  Owner(Append(s, t), id)
  <1> DEFINE new == Append(s, t)
  <1>1. /\ DOMAIN new = 1 .. Len(s) + 1 /\ new[Len(s) + 1] = t
        /\ \A k \in 1 .. Len(s) : new[k] = s[k]
    OBVIOUS
  <1>2. DOMAIN s = 1 .. Len(s) /\ Len(s) \in Nat
    OBVIOUS
  <1> HIDE DEF new
  <1>3. Owner(new, id)
    BY <1>1, <1>2 DEF Owner
  <1> QED  BY <1>3 DEF new
-----------------------------------------------------------------------------
(* What a step leaves as it was.                                           *)

LEMMA HasLast ==
    ASSUME NEW n \in Nat, NEW S \in SUBSET (1 .. n), S # {}
    PROVE  \E m \in S : \A j \in S : j <= m
  <1> DEFINE T == {n - i : i \in S}
  <1>1. T \subseteq Nat /\ T # {}
    <2>1. \A i \in S : n - i \in Nat
      OBVIOUS
    <2>2. PICK i \in S : TRUE
      OBVIOUS
    <2> QED  BY <2>1, <2>2
  <1>2. PICK x \in T : \A y \in T : ~(<<y, x>> \in OpToRel(<, Nat))
    <2> HIDE DEF T
    <2> QED  BY <1>1, NatLessThanWellFounded, WFMin, Zenon
  <1>3. PICK m \in S : x = n - m
    OBVIOUS
  <1>4. ASSUME NEW j \in S
        PROVE  j <= m
    <2>1. n - j \in T /\ n - j \in Nat /\ x \in Nat
      BY <1>1
    <2>2. ~(n - j < x)
      BY <1>2, <2>1 DEF OpToRel
    <2> QED  BY <1>3, <2>2
  <1> QED  BY <1>4

LEMMA RestoredIs ==
    ASSUME NEW c \in Chats, NEW list \in Seq(Turn)
    PROVE  /\ Restored(c, list) \in [id : AnswerId, context : BOOLEAN]
           /\ Restored(c, list).id.chat \in {None, c}
  <1> DEFINE answered == {i \in DOMAIN list : list[i] = "complete"}
             last == CHOOSE i \in answered : \A j \in answered : j <= i
  <1>1. CASE answered = {}
    BY <1>1 DEF Restored, NoPanel, NoAnswer, AnswerId
  <1>2. CASE answered # {}
    <2>1. \E m \in answered : \A j \in answered : j <= m
      <3>1. answered \in SUBSET (1 .. Len(list)) /\ Len(list) \in Nat
        OBVIOUS
      <3> HIDE DEF answered
      <3> QED  BY <1>2, <3>1, HasLast
    <2>2. last \in Nat
      <3>1. last \in answered
        BY <2>1
      <3> HIDE DEF last
      <3> QED  BY <3>1
    <2>3. Restored(c, list) = [id |-> [chat |-> c, turn |-> last], context |-> FALSE]
      BY <1>2 DEF Restored
    <2> HIDE DEF last, answered
    <2> QED  BY <2>2, <2>3 DEF AnswerId
  <1> QED  BY <1>1, <1>2

LEMMA TaskIs ==
    ASSUME NEW k \in {"poll", "open", "create", "ask", "delete", "inspect"}, NEW c \in Chats,
           NEW st \in {"load", "recover", "post", "ask", "make", "drop", "sync", "title", "job"},
           k = "inspect" => st = "job"
    PROVE  /\ Task(k, c, st) \in TaskType
           /\ Task(k, c, st).kind = k /\ Task(k, c, st).chat = c /\ Task(k, c, st).step = st
           /\ ~Task(k, c, st).back /\ Task(k, c, st).current
  BY DEF Task, TaskType

LEMMA TaskSet ==
    ASSUME NEW t \in TaskType, NEW b \in BOOLEAN
    PROVE  /\ [t EXCEPT !.back = b] \in TaskType
           /\ [t EXCEPT !.back = b].kind = t.kind /\ [t EXCEPT !.back = b].chat = t.chat
           /\ [t EXCEPT !.was = b] \in TaskType
           /\ [t EXCEPT !.was = b].kind = t.kind /\ [t EXCEPT !.was = b].chat = t.chat
  BY DEF TaskType

LEMMA TurnSet ==
    ASSUME NEW t \in TaskType, NEW n \in Nat
    PROVE  /\ [t EXCEPT !.turn = n, !.back = TRUE] \in TaskType
           /\ [t EXCEPT !.turn = n, !.back = TRUE].kind = t.kind
           /\ [t EXCEPT !.turn = n, !.back = TRUE].chat = t.chat
           /\ [t EXCEPT !.turn = n, !.back = TRUE].turn = n
           /\ [t EXCEPT !.turn = n, !.back = TRUE].current = t.current
  BY DEF TaskType

\* Nothing on the screen but the turns of its thread changes.
LEMMA Waiting ==
    ASSUME UiInv, Typed', chats' \subseteq chats, active' = active, panel' = panel, debug' = debug,
           thread'.chat = thread.chat, Derives(tasks', tasks), DOMAIN db \subseteq DOMAIN db',
           Owner(tasks, panel.id) => Owner(tasks', panel.id)
    PROVE  UiInv'
  <1>1. Places' \subseteq Places
    BY DEF Places
  <1>2. tasks \in Seq(TaskType) /\ Nowhere(tasks, Places) /\ MadeIn(tasks, DOMAIN db)
        /\ Places \subseteq DOMAIN db \cup {None}
    BY DEF UiInv, Typed, Unlisted, Born
  <1>3. Nowhere(tasks', Places')
    <2>1. Places' \subseteq Places \cup Served(tasks) \cup {None}
      BY <1>1
    <2> QED  BY <1>2, <2>1, NowhereOfDerived
  <1>4. MadeIn(tasks', DOMAIN db')
    BY <1>2, MadeOfDerived
  <1>5. Born' /\ Unlisted'
    BY <1>1, <1>2, <1>3, <1>4 DEF Born, Unlisted
  <1>6. Inspecting'
    BY DEF UiInv, Inspecting
  <1>7. PanelIsOfThread'
    BY DEF UiInv, PanelIsOfThread
  <1> QED  BY <1>5, <1>6, <1>7 DEF UiInv

\* The screen moves to chats the tab knew already.
LEMMA Moving ==
    ASSUME UiInv, Derives(tasks', tasks), DOMAIN db' = DOMAIN db,
           Places' \subseteq Places \cup Served(tasks) \cup {None}
    PROVE  Born' /\ Unlisted'
  <1>1. tasks \in Seq(TaskType) /\ Nowhere(tasks, Places) /\ MadeIn(tasks, DOMAIN db)
        /\ Places \subseteq DOMAIN db \cup {None}
    BY DEF UiInv, Typed, Unlisted, Born
  <1>2. Nowhere(tasks', Places')
    BY <1>1, NowhereOfDerived
  <1>3. MadeIn(tasks', DOMAIN db')
    BY <1>1, MadeOfDerived
  <1>4. Served(tasks) \subseteq DOMAIN db
    BY <1>1 DEF Served, MadeIn, IsMade
  <1> QED  BY <1>1, <1>2, <1>3, <1>4 DEF Born, Unlisted

\* The panel is emptied, and with it the inspection of its answer.
LEMMA Emptied ==
    ASSUME UiInv, panel' = NoPanel,
           debug' = [Inspection(Identity(NoPanel)) EXCEPT !.shown = NoAnswer]
    PROVE  /\ Inspecting' /\ PanelIsOfThread'
           /\ panel' \in [id : AnswerId, context : BOOLEAN]
           /\ debug' \in [shown : AnswerId, busy : BOOLEAN, inFlight : BOOLEAN]
           /\ panel'.id.chat = None
  <1>1. /\ debug \in [shown : AnswerId, busy : BOOLEAN, inFlight : BOOLEAN]
        /\ debug.busy => panel.id # NoAnswer
    BY DEF UiInv, Typed, Inspecting
  <1>2. panel'.id = NoAnswer /\ NoAnswer.chat = None /\ NoAnswer \in AnswerId
        /\ panel'.context = FALSE /\ panel' \in [id : AnswerId, context : BOOLEAN]
    BY DEF NoPanel, NoAnswer, AnswerId
  <1>3. /\ debug' \in [shown : AnswerId, busy : BOOLEAN, inFlight : BOOLEAN]
        /\ debug'.shown = NoAnswer /\ ~debug'.busy
    <2>1. CASE Identity(NoPanel)
      <3>1. ~debug.busy
        BY <1>1, <2>1 DEF Identity, NoPanel
      <3>2. debug' = [debug EXCEPT !.shown = NoAnswer]
        BY <2>1 DEF Inspection
      <3> QED  BY <1>1, <1>2, <3>1, <3>2
    <2>2. CASE ~Identity(NoPanel)
      <3>1. debug' = [Idle EXCEPT !.shown = NoAnswer]
        BY <2>2 DEF Inspection
      <3> QED  BY <1>2, <3>1 DEF Idle
    <2> QED  BY <2>1, <2>2
  <1>4. Inspecting'
    BY <1>3 DEF Inspecting
  <1>5. PanelIsOfThread'
    BY <1>2 DEF PanelIsOfThread
  <1> QED  BY <1>2, <1>3, <1>4, <1>5

LEMMA OutdatedDerives ==
    ASSUME NEW s \in Seq(TaskType), NEW same \in BOOLEAN, NEW a, Derives(s, a)
    PROVE  Derives(Outdated(same, s), a)
  <1> DEFINE new == Outdated(same, s)
  <1>1. DOMAIN new = DOMAIN s /\ \A j \in DOMAIN s : SameTask(new[j], s[j])
    BY OutdatedIs
  <1> HIDE DEF new
  <1>2. Derives(new, a)
    BY <1>1, DerivesTwice
  <1> QED  BY <1>2 DEF new

LEMMA DerivesSelf ==
    ASSUME NEW s
    PROVE  Derives(s, s)
  <1> DEFINE from == [j \in DOMAIN s |-> j]
  <1>1. from \in [DOMAIN s -> DOMAIN s] /\ \A j \in DOMAIN s : from[j] = j
    OBVIOUS
  <1> HIDE DEF from
  <1> QED  BY <1>1 DEF Derives, SameTask

\* A handler of a chat in view starts.
LEMMA Starting ==
    ASSUME UiInv, NEW list \in Seq(TaskType), Derives(list, tasks), NEW t \in TaskType,
           ~IsMake(t), tasks' = Append(list, t), t.chat \in Places', DOMAIN db' = DOMAIN db,
           Places' \subseteq Places \cup {None}
    PROVE  Born' /\ Unlisted' /\ tasks' \in Seq(TaskType)
  <1>1. tasks \in Seq(TaskType) /\ Nowhere(tasks, Places) /\ MadeIn(tasks, DOMAIN db)
        /\ Places \subseteq DOMAIN db \cup {None}
    BY DEF UiInv, Typed, Unlisted, Born
  <1>2. Nowhere(list, Places')
    <2>1. Places' \subseteq Places \cup Served(tasks) \cup {None}
      OBVIOUS
    <2> QED  BY <1>1, <2>1, NowhereOfDerived
  <1>3. MadeIn(list, DOMAIN db)
    BY <1>1, MadeOfDerived
  <1>4. Places' \subseteq DOMAIN db \cup {None}
    BY <1>1
  <1>5. Nowhere(Append(list, t), Places') /\ MadeIn(Append(list, t), DOMAIN db)
    BY <1>2, <1>3, <1>4, NowhereOfMore
  <1> QED  BY <1>4, <1>5 DEF Born, Unlisted
-----------------------------------------------------------------------------
(* The user's steps, and the timer's.                                      *)

LEMMA OpenKeeps ==
    ASSUME UiInv, NEW c \in Chats, Open(c)
    PROVE  UiInv'
  <1> DEFINE same == Identity(NoPanel)
             list == Outdated(same, tasks)
             first == Task("open", c, "sync")
             t == [first EXCEPT !.back = TRUE]
  <1>1. /\ c \in chats /\ active' = c /\ panel' = NoPanel
        /\ debug' = [Inspection(Identity(NoPanel)) EXCEPT !.shown = NoAnswer]
        /\ tasks' = Append(list, t)
        /\ UNCHANGED <<db, exists, chats, thread>>
    BY DEF Open
  <1>2. tasks \in Seq(TaskType) /\ same \in BOOLEAN
    BY DEF UiInv, Typed, Identity
  <1>3. list \in Seq(TaskType) /\ Derives(list, tasks)
    <2> HIDE DEF same
    <2> QED  BY <1>2, OutdatedIs, OutdatedDerives, DerivesSelf
  <1>4. t \in TaskType /\ t.kind = "open" /\ t.chat = c
    <2>1. first \in TaskType /\ first.kind = "open" /\ first.chat = c
      BY TaskIs
    <2> HIDE DEF first
    <2> QED  BY <2>1, TaskSet
  <1> HIDE DEF list, t, same
  <1>5. ~IsMake(t)
    BY <1>4 DEF IsMake
  <1>6. /\ Inspecting' /\ PanelIsOfThread' /\ panel'.id.chat = None
        /\ panel' \in [id : AnswerId, context : BOOLEAN]
        /\ debug' \in [shown : AnswerId, busy : BOOLEAN, inFlight : BOOLEAN]
    BY <1>1, Emptied
  <1>7. Places' \subseteq Places \cup {None} /\ t.chat \in Places'
    BY <1>1, <1>4, <1>6 DEF Places
  <1>8. Born' /\ Unlisted' /\ tasks' \in Seq(TaskType)
    BY <1>1, <1>3, <1>4, <1>5, <1>7, Starting
  <1>9. Typed'
    BY <1>1, <1>6, <1>8 DEF UiInv, Typed
  <1> QED  BY <1>6, <1>8, <1>9 DEF UiInv

LEMMA AskKeeps ==
    ASSUME UiInv, Ask
    PROVE  UiInv'
  <1> DEFINE same == Identity(NoPanel)
             list == Outdated(same, tasks)
             t == Task("ask", active, "post")
  <1>1. /\ active # None /\ thread' = [thread EXCEPT !.turns = Append(@, "sending")]
        /\ panel' = NoPanel
        /\ debug' = [Inspection(Identity(NoPanel)) EXCEPT !.shown = NoAnswer]
        /\ tasks' = Append(list, t)
        /\ UNCHANGED <<db, exists, chats, active>>
    BY DEF Ask
  <1>2. tasks \in Seq(TaskType) /\ same \in BOOLEAN /\ active \in Chats
    BY <1>1 DEF UiInv, Typed, Identity
  <1>3. list \in Seq(TaskType) /\ Derives(list, tasks)
    <2> HIDE DEF same
    <2> QED  BY <1>2, OutdatedIs, OutdatedDerives, DerivesSelf
  <1>4. t \in TaskType /\ t.kind = "ask" /\ t.chat = active
    BY <1>2, TaskIs
  <1> HIDE DEF list, t, same
  <1>5. ~IsMake(t)
    BY <1>4 DEF IsMake
  <1>6. /\ Inspecting' /\ PanelIsOfThread' /\ panel'.id.chat = None
        /\ panel' \in [id : AnswerId, context : BOOLEAN]
        /\ debug' \in [shown : AnswerId, busy : BOOLEAN, inFlight : BOOLEAN]
    BY <1>1, Emptied
  <1>7. /\ thread' \in [chat : Chats \cup {None}, turns : Seq(Turn)]
        /\ thread'.chat = thread.chat
    <2>1. thread \in [chat : Chats \cup {None}, turns : Seq(Turn)]
      BY DEF UiInv, Typed
    <2>2. Append(thread.turns, "sending") \in Seq(Turn)
      BY <2>1 DEF Turn
    <2> QED  BY <1>1, <2>1, <2>2
  <1>8. Places' \subseteq Places \cup {None} /\ t.chat \in Places'
    BY <1>1, <1>4, <1>6, <1>7 DEF Places
  <1>9. Born' /\ Unlisted' /\ tasks' \in Seq(TaskType)
    BY <1>1, <1>3, <1>4, <1>5, <1>8, Starting
  <1>10. Typed'
    BY <1>1, <1>6, <1>7, <1>9 DEF UiInv, Typed
  <1> QED  BY <1>6, <1>9, <1>10 DEF UiInv

\* A handler starts and the screen stays, but for "loading".
LEMMA Beginning ==
    ASSUME UiInv, NEW t \in TaskType, ~IsMake(t), t.chat \in Places,
           tasks' = Append(tasks, t), UNCHANGED <<db, exists, chats, active, thread, panel>>,
           \/ debug' = debug
           \/ /\ debug' = [debug EXCEPT !.busy = TRUE, !.inFlight = TRUE]
              /\ t.kind = "inspect" /\ t.current /\ panel.id # NoAnswer
              /\ [chat |-> t.chat, turn |-> t.turn] = panel.id
    PROVE  UiInv'
  <1>1. tasks \in Seq(TaskType) /\ Derives(tasks, tasks)
    BY DerivesSelf DEF UiInv, Typed
  <1>2. Places' = Places
    BY DEF Places
  <1>3. Born' /\ Unlisted' /\ tasks' \in Seq(TaskType)
    BY <1>1, <1>2, Starting
  <1>4. /\ debug \in [shown : AnswerId, busy : BOOLEAN, inFlight : BOOLEAN]
        /\ Inspecting /\ PanelIsOfThread
    BY DEF UiInv, Typed
  <1>5. debug' \in [shown : AnswerId, busy : BOOLEAN, inFlight : BOOLEAN]
        /\ debug'.shown = debug.shown /\ (debug' = debug \/ debug'.busy)
    BY <1>4
  <1>6. Typed'
    BY <1>3, <1>5 DEF UiInv, Typed
  <1>7. Inspecting'
    <2>1. CASE debug' = debug
      <3>1. Owner(tasks, panel.id) => Owner(tasks', panel.id)
        BY <1>1, OwnerOfMore
      <3> QED  BY <1>4, <2>1, <3>1 DEF Inspecting
    <2>2. CASE debug' # debug
      <3>1. Owner(tasks', panel.id)
        BY <1>1, <2>2, OwnerOfMore
      <3> QED  BY <1>4, <1>5, <2>2, <3>1 DEF Inspecting
    <2> QED  BY <2>1, <2>2
  <1>8. PanelIsOfThread'
    BY <1>4 DEF PanelIsOfThread
  <1> QED  BY <1>3, <1>6, <1>7, <1>8 DEF UiInv

LEMMA DeleteKeeps ==
    ASSUME UiInv, NEW c \in Chats, Delete(c)
    PROVE  UiInv'
  <1> DEFINE first == Task("delete", c, "drop")
             t == [first EXCEPT !.was = active = c]
  <1>1. /\ c \in chats /\ tasks' = Append(tasks, t)
        /\ UNCHANGED <<db, exists, chats, active, thread, panel, debug>>
    BY DEF Delete
  <1>2. t \in TaskType /\ t.kind = "delete" /\ t.chat = c
    <2>1. (active = c) \in BOOLEAN
      OBVIOUS
    <2>2. first \in TaskType /\ first.kind = "delete" /\ first.chat = c
      BY TaskIs
    <2> HIDE DEF first
    <2> QED  BY <2>1, <2>2, TaskSet
  <1> HIDE DEF t
  <1>3. ~IsMake(t) /\ t.chat \in Places
    BY <1>1, <1>2 DEF IsMake, Places
  <1> QED  BY <1>1, <1>2, <1>3, Beginning

LEMMA InspectKeeps ==
    ASSUME UiInv, Inspect
    PROVE  UiInv'
  <1>1. /\ panel.id # NoAnswer /\ panel.id.chat = active
        /\ UNCHANGED <<db, exists, chats, active, thread, panel>>
    BY DEF Inspect
  <1>2. CASE panel.context
    <2>1. debug' = [debug EXCEPT !.shown = panel.id] /\ tasks' = tasks
      BY <1>2 DEF Inspect
    <2>2. debug \in [shown : AnswerId, busy : BOOLEAN, inFlight : BOOLEAN] /\ panel.id \in AnswerId
      BY DEF UiInv, Typed
    <2>3. debug' \in [shown : AnswerId, busy : BOOLEAN, inFlight : BOOLEAN]
          /\ debug'.shown = panel.id /\ debug'.busy = debug.busy
      BY <2>1, <2>2
    <2>4. Typed' /\ Born' /\ Unlisted' /\ PanelIsOfThread'
      BY <1>1, <2>1, <2>3 DEF UiInv, Typed, Born, Unlisted, Places, PanelIsOfThread
    <2>5. Inspecting'
      BY <1>1, <2>1, <2>3 DEF UiInv, Inspecting
    <2> QED  BY <2>4, <2>5 DEF UiInv
  <1>3. CASE ~panel.context
    <2> DEFINE first == Task("inspect", active, "job")
               t == [first EXCEPT !.turn = panel.id.turn, !.back = TRUE]
    <2>1. debug' = [debug EXCEPT !.busy = TRUE, !.inFlight = TRUE] /\ tasks' = Append(tasks, t)
      BY <1>3 DEF Inspect
    <2>2. panel.id \in [chat : Chats, turn : Nat]
      BY <1>1 DEF UiInv, Typed, AnswerId
    <2>3. /\ t \in TaskType /\ t.kind = "inspect" /\ t.current
          /\ t.chat = active /\ t.turn = panel.id.turn
      <3>1. active \in Chats /\ panel.id.turn \in Nat
        BY <1>1, <2>2
      <3>2. first \in TaskType /\ first.kind = "inspect" /\ first.chat = active /\ first.current
        BY <3>1, TaskIs
      <3> HIDE DEF first
      <3> QED  BY <3>1, <3>2, TurnSet
    <2> HIDE DEF t
    <2>4. [chat |-> t.chat, turn |-> t.turn] = panel.id
      BY <1>1, <2>2, <2>3
    <2>5. ~IsMake(t) /\ t.chat \in Places
      BY <1>1, <2>3 DEF IsMake, Places
    <2> QED  BY <1>1, <2>1, <2>3, <2>4, <2>5, Beginning
  <1> QED  BY <1>2, <1>3

LEMMA PollKeeps ==
    ASSUME UiInv, Poll
    PROVE  UiInv'
  <1> DEFINE t == Task("poll", active, "load")
  <1>1. /\ active # None /\ tasks' = Append(tasks, t)
        /\ UNCHANGED <<db, exists, chats, active, thread, panel, debug>>
    BY DEF Poll
  <1>2. t \in TaskType /\ t.kind = "poll" /\ t.chat = active
    BY <1>1, TaskIs DEF UiInv, Typed
  <1> HIDE DEF t
  <1>3. ~IsMake(t) /\ t.chat \in Places
    BY <1>2 DEF IsMake, Places
  <1> QED  BY <1>1, <1>2, <1>3, Beginning

LEMMA CreateKeeps ==
    ASSUME UiInv, NEW c \in Chats, Create(c)
    PROVE  UiInv'
  <1> DEFINE t == Task("create", c, "make")
             new == Append(tasks, t)
  <1>1. /\ c \notin DOMAIN db /\ tasks' = new
        /\ \A i \in DOMAIN tasks : tasks[i].kind = "create" => tasks[i].chat # c
        /\ UNCHANGED <<db, exists, chats, active, thread, panel, debug>>
    BY DEF Create
  <1>2. t \in TaskType /\ t.kind = "create" /\ t.chat = c /\ t.step = "make" /\ ~t.back
    BY TaskIs
  <1>3. tasks \in Seq(TaskType) /\ Nowhere(tasks, Places) /\ MadeIn(tasks, DOMAIN db)
        /\ Places \subseteq DOMAIN db \cup {None}
    BY DEF UiInv, Typed, Unlisted, Born
  <1> HIDE DEF t
  <1>4. /\ DOMAIN new = 1 .. Len(tasks) + 1 /\ new[Len(tasks) + 1] = t
        /\ \A k \in 1 .. Len(tasks) : new[k] = tasks[k]
        /\ DOMAIN tasks = 1 .. Len(tasks) /\ Len(tasks) \in Nat
        /\ new \in Seq(TaskType)
    BY <1>2, <1>3
  <1> HIDE DEF new
  <1>5. c \notin Places
    BY <1>1, <1>3, WorkspaceUiAssumption
  <1>6. \A k \in DOMAIN tasks : tasks[k].chat # c
    BY <1>1, <1>3 DEF MadeIn, IsMade, IsMake
  <1>7. Nowhere(new, Places)
    <2>1. SUFFICES ASSUME NEW i \in DOMAIN new, IsMake(new[i])
                   PROVE  /\ new[i].chat \notin Places
                          /\ \A j \in DOMAIN new : new[j].chat = new[i].chat => j = i
      BY DEF Nowhere
    <2>2. CASE i = Len(tasks) + 1
      BY <1>2, <1>4, <1>5, <1>6, <2>2
    <2>3. CASE i # Len(tasks) + 1
      <3>1. i \in DOMAIN tasks /\ new[i] = tasks[i]
        BY <1>4, <2>3
      <3>2. /\ tasks[i].chat \notin Places
            /\ \A j \in DOMAIN tasks : tasks[j].chat = tasks[i].chat => j = i
        BY <1>3, <2>1, <3>1 DEF Nowhere
      <3>3. ASSUME NEW j \in DOMAIN new, new[j].chat = new[i].chat
            PROVE  j = i
        <4>1. j # Len(tasks) + 1
          BY <1>2, <1>4, <1>6, <3>1, <3>3
        <4>2. j \in DOMAIN tasks /\ new[j] = tasks[j]
          BY <1>4, <4>1
        <4> QED  BY <3>1, <3>2, <3>3, <4>2
      <3> QED  BY <3>1, <3>2, <3>3
    <2> QED  BY <2>2, <2>3
  <1>8. MadeIn(new, DOMAIN db)
    BY <1>2, <1>3, <1>4 DEF MadeIn, IsMade, IsMake
  <1>9. Places' = Places
    BY <1>1 DEF Places
  <1>10. Born' /\ Unlisted'
    BY <1>1, <1>3, <1>7, <1>8, <1>9 DEF Born, Unlisted
  <1>11. Typed'
    BY <1>1, <1>4 DEF UiInv, Typed
  <1>12. Inspecting' /\ PanelIsOfThread'
    <2>1. Owner(tasks, panel.id) => Owner(tasks', panel.id)
      BY <1>1, <1>3, OwnerOfMore DEF new
    <2> QED  BY <1>1, <2>1 DEF UiInv, Inspecting, PanelIsOfThread
  <1> QED  BY <1>10, <1>11, <1>12 DEF UiInv
-----------------------------------------------------------------------------
(* The server's steps.                                                     *)

LEMMA SettleKeeps ==
    ASSUME UiInv, NEW c \in Chats, Settle(c)
    PROVE  UiInv'
  <1>1. /\ UNCHANGED <<exists, chats, active, thread, panel, debug, tasks>>
        /\ c \in DOMAIN db
        /\ \E n \in DOMAIN db[c] : db' = [db EXCEPT ![c][n] = "complete"]
    BY DEF Settle
  <1>2. db \in [DOMAIN db -> Seq(Turn)]
    BY DEF UiInv, Typed
  <1>3. PICK n \in DOMAIN db[c] : db' = [db EXCEPT ![c] = [db[c] EXCEPT ![n] = "complete"]]
    BY <1>1
  <1>4. [db[c] EXCEPT ![n] = "complete"] \in Seq(Turn)
    BY <1>1, <1>2 DEF Turn
  <1>5. DOMAIN db' = DOMAIN db /\ db' \in [DOMAIN db -> Seq(Turn)]
    BY <1>1, <1>2, <1>3, <1>4
  <1>6. Typed'
    BY <1>1, <1>5 DEF UiInv, Typed
  <1> QED  BY <1>1, <1>5, <1>6, DerivesSelf, Waiting

\* One handler goes on, the screen stays but for the turns of its thread.
LEMMA Going ==
    ASSUME UiInv, NEW i \in DOMAIN tasks, NEW t \in TaskType, SameTask(t, tasks[i]),
           tasks[i].kind = "inspect" => t.current = tasks[i].current /\ t.turn = tasks[i].turn,
           tasks' = [tasks EXCEPT ![i] = t],
           UNCHANGED <<chats, active, panel, debug>>, exists' \subseteq Chats,
           thread' = thread, DOMAIN db' = DOMAIN db, db' \in [DOMAIN db -> Seq(Turn)]
    PROVE  UiInv'
  <1>1. tasks \in Seq(TaskType)
    BY DEF UiInv, Typed
  <1>2. tasks' \in Seq(TaskType) /\ Derives(tasks', tasks)
    BY <1>1, ChangeDerives
  <1>3. Owner(tasks, panel.id) => Owner(tasks', panel.id)
    BY <1>1, OwnerOfChange DEF SameTask
  <1>4. Typed'
    BY <1>2 DEF UiInv, Typed
  <1> QED  BY <1>2, <1>3, <1>4, Waiting

LEMMA SeqSet ==
    ASSUME NEW T, NEW s \in Seq(T), NEW n, NEW v \in T
    PROVE  [s EXCEPT ![n] = v] \in Seq(T)
  <1>1. CASE n \in DOMAIN s
    BY <1>1
  <1>2. CASE n \notin DOMAIN s
    <2>1. [s EXCEPT ![n] = v] = s
      BY <1>2
    <2> QED  BY <2>1
  <1> QED  BY <1>1, <1>2

LEMMA ReplySet ==
    ASSUME NEW t \in TaskType, NEW data \in Seq(Turn), NEW n \in Nat
    PROVE  /\ [t EXCEPT !.back = TRUE, !.data = data] \in TaskType
           /\ [t EXCEPT !.back = TRUE, !.data = data].kind = t.kind
           /\ [t EXCEPT !.back = TRUE, !.data = data].chat = t.chat
           /\ [t EXCEPT !.back = TRUE, !.data = data].step = t.step
           /\ [t EXCEPT !.back = TRUE, !.data = data].turn = t.turn
           /\ [t EXCEPT !.back = TRUE, !.data = data].current = t.current
           /\ [t EXCEPT !.back = TRUE, !.data = data].back
  BY DEF TaskType

\* A reply that changes nothing of the chats the server has.
LEMMA Replying ==
    ASSUME UiInv, NEW i \in DOMAIN tasks, tasks[i].step # "make", NEW data \in Seq(Turn),
           Reply(i, data), UNCHANGED <<chats, active, thread, panel, debug>>,
           exists' \subseteq Chats, DOMAIN db' = DOMAIN db, db' \in [DOMAIN db -> Seq(Turn)]
    PROVE  UiInv'
  <1> DEFINE t == [tasks[i] EXCEPT !.back = TRUE, !.data = data]
  <1>1. tasks \in Seq(TaskType) /\ tasks[i] \in TaskType
    BY DEF UiInv, Typed
  <1>2. tasks' = [tasks EXCEPT ![i] = t]
    BY DEF Reply
  <1>3. /\ t \in TaskType /\ t.kind = tasks[i].kind /\ t.chat = tasks[i].chat
        /\ t.step = tasks[i].step /\ t.turn = tasks[i].turn /\ t.current = tasks[i].current
    BY <1>1, ReplySet
  <1> HIDE DEF t
  <1>4. SameTask(t, tasks[i])
    BY <1>3 DEF SameTask, IsMake, IsMade
  <1> QED  BY <1>2, <1>3, <1>4, Going

LEMMA MadeNow ==
    ASSUME NEW old \in Seq(TaskType), NEW i \in DOMAIN old, NEW t, NEW P, NEW D,
           t.kind = old[i].kind, t.chat = old[i].chat, t.step = old[i].step,
           Nowhere(old, P), MadeIn(old, D)
    PROVE  /\ Nowhere([old EXCEPT ![i] = t], P)
           /\ MadeIn([old EXCEPT ![i] = t], D \cup {t.chat})
  <1> DEFINE new == [old EXCEPT ![i] = t]
  <1>1. /\ DOMAIN new = DOMAIN old /\ new[i] = t
        /\ \A k \in DOMAIN old : k # i => new[k] = old[k]
    OBVIOUS
  <1> HIDE DEF new
  <1>2. \A k \in DOMAIN old : (IsMake(new[k]) <=> IsMake(old[k])) /\ new[k].chat = old[k].chat
    BY <1>1 DEF IsMake
  <1>3. Nowhere(new, P)
    BY <1>1, <1>2 DEF Nowhere
  <1>4. MadeIn(new, D \cup {t.chat})
    BY <1>1 DEF MadeIn
  <1> QED  BY <1>3, <1>4 DEF new

LEMMA ServeKeeps ==
    ASSUME UiInv, NEW i, Serve(i)
    PROVE  UiInv'
  <1> DEFINE c == tasks[i].chat
  <1>1. /\ i \in DOMAIN tasks /\ ~tasks[i].back
        /\ UNCHANGED <<chats, active, thread, panel, debug>>
    BY DEF Serve
  <1>2. /\ tasks \in Seq(TaskType) /\ tasks[i] \in TaskType /\ c \in Chats
        /\ db \in [DOMAIN db -> Seq(Turn)] /\ exists \subseteq Chats /\ DOMAIN db \subseteq Chats
    <2>1. tasks \in Seq(TaskType) /\ tasks[i] \in TaskType
      BY <1>1 DEF UiInv, Typed
    <2> QED  BY <2>1 DEF UiInv, Typed, TaskType
  <1>3. tasks[i].step # "make" => c \in DOMAIN db
    BY <1>1 DEF UiInv, Born, MadeIn, IsMade, IsMake
  <1>4. CASE tasks[i].step \in {"load", "recover"}
    <2>1. /\ Reply(i, IF c \in exists THEN db[c] ELSE <<>>) /\ UNCHANGED <<db, exists>>
      BY <1>4 DEF Serve
    <2>2. (IF c \in exists THEN db[c] ELSE <<>>) \in Seq(Turn)
      BY <1>2, <1>3, <1>4
    <2> QED  BY <1>1, <1>2, <1>4, <2>1, <2>2, Replying
  <1>5. CASE tasks[i].step \in {"post", "ask"} /\ c \notin exists
    <2>1. Reply(i, <<"refused">>) /\ UNCHANGED <<db, exists>>
      BY <1>5 DEF Serve
    <2>2. <<"refused">> \in Seq(Turn)
      BY DEF Turn
    <2> QED  BY <1>1, <1>2, <1>5, <2>1, <2>2, Replying
  <1>6. CASE tasks[i].step = "post" /\ c \in exists
    <2> DEFINE n == Len(db[c]) + 1
               t == [tasks[i] EXCEPT !.turn = n, !.back = TRUE]
    <2>1. /\ db' = [db EXCEPT ![c] = Append(db[c], "asked")]
          /\ tasks' = [tasks EXCEPT ![i].back = TRUE, ![i].turn = n] /\ exists' = exists
      BY <1>6 DEF Serve
    <2>2. n \in Nat /\ Append(db[c], "asked") \in Seq(Turn)
      BY <1>2, <1>3, <1>6 DEF Turn
    <2> HIDE DEF n
    <2>3. tasks' = [tasks EXCEPT ![i] = t]
      BY <2>1, <1>2
    <2>4. DOMAIN db' = DOMAIN db /\ db' \in [DOMAIN db -> Seq(Turn)]
      BY <1>2, <2>1, <2>2
    <2>5. t \in TaskType /\ t.kind = tasks[i].kind /\ t.chat = tasks[i].chat
      BY <1>2, <2>2, TurnSet
    <2>6. t.step = tasks[i].step /\ t.back
      BY <1>2 DEF TaskType
    <2> HIDE DEF t
    <2>7. SameTask(t, tasks[i]) /\ tasks[i].kind # "inspect"
      <3>1. tasks[i].kind # "inspect"
        BY <1>2, <1>6 DEF TaskType
      <3> QED  BY <1>6, <2>5, <2>6, <3>1 DEF SameTask, IsMake, IsMade
    <2> QED  BY <1>1, <1>2, <2>1, <2>3, <2>4, <2>5, <2>7, Going
  <1>7. CASE tasks[i].step = "ask" /\ c \in exists
    <2>1. PICK how \in {"running", "complete"} :
            db' = [db EXCEPT ![c][tasks[i].turn] = how] /\ Reply(i, <<how>>)
      BY <1>7 DEF Serve
    <2>2. exists' = exists
      BY <1>7 DEF Serve
    <2>3. <<how>> \in Seq(Turn) /\ how \in Turn
      BY DEF Turn
    <2>4. [db[c] EXCEPT ![tasks[i].turn] = how] \in Seq(Turn)
      <3>1. db[c] \in Seq(Turn)
        BY <1>2, <1>3, <1>7
      <3> QED  BY <2>3, <3>1, SeqSet
    <2>5. DOMAIN db' = DOMAIN db /\ db' \in [DOMAIN db -> Seq(Turn)]
      BY <1>2, <2>1, <2>4
    <2> QED  BY <1>1, <1>2, <1>7, <2>1, <2>2, <2>3, <2>5, Replying
  <1>8. CASE tasks[i].step = "drop"
    <2>1. exists' = exists \ {c} /\ Reply(i, <<>>) /\ UNCHANGED db
      BY <1>8 DEF Serve
    <2>2. exists' \subseteq Chats /\ <<>> \in Seq(Turn)
      BY <1>2, <2>1
    <2> QED  BY <1>1, <1>2, <1>8, <2>1, <2>2, Replying
  <1>9. CASE tasks[i].step = "make"
    <2> DEFINE none == <<>>
               t == [tasks[i] EXCEPT !.back = TRUE, !.data = none]
               new == [tasks EXCEPT ![i] = t]
    <2>1. /\ db' = [d \in DOMAIN db \cup {c} |-> IF d = c THEN <<>> ELSE db[d]]
          /\ exists' = exists \cup {c} /\ tasks' = new
      BY <1>9 DEF Serve, Reply
    <2>2. DOMAIN db' = DOMAIN db \cup {c} /\ db' \in [DOMAIN db \cup {c} -> Seq(Turn)]
      BY <1>2, <2>1
    <2>3. /\ t \in TaskType /\ t.kind = tasks[i].kind /\ t.chat = tasks[i].chat
          /\ t.step = tasks[i].step /\ t.turn = tasks[i].turn /\ t.current = tasks[i].current
      <3>1. none \in Seq(Turn)
        OBVIOUS
      <3> HIDE DEF none
      <3> QED  BY <1>2, <3>1, ReplySet
    <2> HIDE DEF t
    <2>4. new \in Seq(TaskType)
      BY <1>1, <1>2, <2>3
    <2>5. Owner(tasks, panel.id) => Owner(new, panel.id)
      BY <1>1, <1>2, <2>3, OwnerOfChange
    <2>6. Places' = Places
      BY <1>1 DEF Places
    <2>7. Nowhere(tasks, Places) /\ MadeIn(tasks, DOMAIN db)
      BY DEF UiInv, Unlisted, Born
    <2>8. Nowhere(new, Places) /\ MadeIn(new, DOMAIN db \cup {c})
      BY <1>1, <1>2, <2>3, <2>7, MadeNow
    <2> HIDE DEF new
    <2>9. Born' /\ Unlisted'
      BY <2>1, <2>2, <2>6, <2>8 DEF UiInv, Born, Unlisted
    <2>10. Typed'
      BY <1>1, <1>2, <2>1, <2>2, <2>4 DEF UiInv, Typed
    <2>11. Inspecting' /\ PanelIsOfThread'
      BY <1>1, <2>1, <2>5 DEF UiInv, Inspecting, PanelIsOfThread
    <2> QED  BY <2>9, <2>10, <2>11 DEF UiInv
  <1> QED  BY <1>4, <1>5, <1>6, <1>7, <1>8, <1>9 DEF Serve
-----------------------------------------------------------------------------
(* The handlers after their replies.                                       *)

\* A handler ends and the screen stays, but for the turns of its thread and
\* what leaves the list of chats.
LEMMA Dropping ==
    ASSUME UiInv, NEW i \in DOMAIN tasks, tasks[i].kind # "inspect", tasks' = Drop(i),
           chats' \subseteq chats, UNCHANGED <<db, exists, active, panel, debug>>,
           thread' \in [chat : Chats \cup {None}, turns : Seq(Turn)], thread'.chat = thread.chat
    PROVE  UiInv'
  <1>1. tasks \in Seq(TaskType)
    BY DEF UiInv, Typed
  <1>2. tasks' \in Seq(TaskType) /\ Derives(tasks', tasks)
    BY <1>1, DropIs, DropDerives DEF Drop
  <1>3. Owner(tasks, panel.id) => Owner(tasks', panel.id)
    BY <1>1, OwnerOfDrop DEF Drop
  <1>4. Typed'
    BY <1>2 DEF UiInv, Typed
  <1> QED  BY <1>2, <1>3, <1>4, Waiting

\* The open chat gets another answer in its panel, or the same again.
LEMMA Turning ==
    ASSUME UiInv, NEW next \in [id : AnswerId, context : BOOLEAN], next.id.chat \in {None, active},
           NEW list \in Seq(TaskType), Derives(list, tasks),
           Owner(tasks, panel.id) => Owner(list, panel.id),
           panel' = next, debug' = Inspection(Identity(next)),
           tasks' = Outdated(Identity(next), list), UNCHANGED <<db, exists, chats, active>>,
           thread' \in [chat : Chats \cup {None}, turns : Seq(Turn)],
           thread'.chat \in {thread.chat, active}
    PROVE  UiInv'
  <1> DEFINE same == Identity(next)
  <1>1. same \in BOOLEAN /\ (same <=> next.id = panel.id)
    BY DEF Identity
  <1>2. tasks' \in Seq(TaskType) /\ Derives(tasks', tasks) /\ (same => tasks' = list)
    <2> HIDE DEF same
    <2>1. tasks' = Outdated(same, list)
      BY DEF same
    <2> QED  BY <1>1, <2>1, OutdatedIs, OutdatedDerives
  <1>3. debug' \in [shown : AnswerId, busy : BOOLEAN, inFlight : BOOLEAN]
    BY DEF UiInv, Typed, Inspection, Idle, AnswerId
  <1>4. Places' \subseteq Places \cup Served(tasks) \cup {None}
    BY DEF Places
  <1>5. Born' /\ Unlisted'
    BY <1>2, <1>4, Moving
  <1>6. Typed'
    BY <1>2, <1>3 DEF UiInv, Typed
  <1>7. Inspecting'
    <2>1. CASE same
      <3>1. debug' = debug /\ panel'.id = panel.id /\ tasks' = list
        BY <1>1, <1>2, <2>1 DEF Inspection
      <3> QED  BY <3>1 DEF UiInv, Inspecting
    <2>2. CASE ~same
      <3>1. debug' = Idle
        BY <2>2 DEF Inspection
      <3> QED  BY <3>1 DEF Inspecting, Idle
    <2> QED  BY <2>1, <2>2
  <1>8. PanelIsOfThread'
    BY DEF PanelIsOfThread
  <1> QED  BY <1>5, <1>6, <1>7, <1>8 DEF UiInv

\* The thread and the panel are emptied.
LEMMA Clearing ==
    ASSUME UiInv, NEW now \in {active, None}, Reset(now), active' = now,
           NEW list \in Seq(TaskType), Derives(list, tasks),
           tasks' = Outdated(Identity(NoPanel), list), chats' \subseteq chats,
           UNCHANGED <<db, exists>>
    PROVE  UiInv'
  <1> DEFINE same == Identity(NoPanel)
  <1>1. same \in BOOLEAN
    BY DEF Identity
  <1>2. tasks' \in Seq(TaskType) /\ Derives(tasks', tasks)
    <2> HIDE DEF same
    <2>1. tasks' = Outdated(same, list)
      BY DEF same
    <2> QED  BY <1>1, <2>1, OutdatedIs, OutdatedDerives
  <1>3. /\ thread' = [chat |-> now, turns |-> <<>>] /\ panel' = NoPanel
        /\ debug' = [Inspection(Identity(NoPanel)) EXCEPT !.shown = NoAnswer]
    BY DEF Reset
  <1>4. /\ Inspecting' /\ PanelIsOfThread' /\ panel'.id.chat = None
        /\ panel' \in [id : AnswerId, context : BOOLEAN]
        /\ debug' \in [shown : AnswerId, busy : BOOLEAN, inFlight : BOOLEAN]
    BY <1>3, Emptied
  <1>5. thread'.chat = now /\ thread' \in [chat : Chats \cup {None}, turns : Seq(Turn)]
    BY <1>3 DEF UiInv, Typed
  <1>6. Places' \subseteq Places \cup Served(tasks) \cup {None}
    BY <1>4, <1>5 DEF Places
  <1>7. Born' /\ Unlisted'
    BY <1>2, <1>6, Moving
  <1>8. Typed'
    BY <1>2, <1>4, <1>5 DEF UiInv, Typed
  <1> QED  BY <1>4, <1>7, <1>8 DEF UiInv

LEMMA DisplayKeeps ==
    ASSUME UiInv, NEW i \in DOMAIN tasks, tasks[i].kind # "inspect",
           NEW clear, NEW list \in Seq(Turn), Display(tasks[i].chat, list, clear),
           tasks' = AfterDisplay(tasks[i].chat, list, Drop(i)),
           UNCHANGED <<db, exists, chats, active>>
    PROVE  UiInv'
  <1> DEFINE c == tasks[i].chat
             found == Restored(c, list)
             next == Preserved(found)
  <1>1. tasks \in Seq(TaskType) /\ c \in Chats
    <2>1. tasks \in Seq(TaskType) /\ tasks[i] \in TaskType
      BY DEF UiInv, Typed
    <2> QED  BY <2>1 DEF TaskType
  <1>2. Drop(i) \in Seq(TaskType) /\ Derives(Drop(i), tasks)
    BY <1>1, DropIs, DropDerives DEF Drop
  <1>3. CASE active = c
    <2>1. found \in [id : AnswerId, context : BOOLEAN] /\ found.id.chat \in {None, c}
      BY <1>1, RestoredIs
    <2>2. /\ thread' = [chat |-> c, turns |-> list] /\ panel' = next
          /\ debug' = Inspection(Identity(next))
      BY <1>3 DEF Display
    <2>3. tasks' = Outdated(Identity(found), Drop(i))
      <3>1. (active # c \/ Identity(found)) <=> Identity(found)
        BY <1>3
      <3>2. (active # c \/ Identity(found)) = Identity(found)
        BY <1>3 DEF Identity
      <3> QED  BY <3>2 DEF AfterDisplay
    <2> HIDE DEF found
    <2>4. next \in [id : AnswerId, context : BOOLEAN] /\ next.id = found.id
      <3>1. (found.id = panel.id /\ panel.context) \in BOOLEAN
        BY DEF UiInv, Typed
      <3> QED  BY <2>1, <3>1 DEF Preserved
    <2> HIDE DEF next
    <2>5. Identity(next) = Identity(found)
      BY <2>4 DEF Identity
    <2>6. Owner(tasks, panel.id) => Owner(Drop(i), panel.id)
      BY <1>1, OwnerOfDrop DEF Drop
    <2>7. /\ thread' \in [chat : Chats \cup {None}, turns : Seq(Turn)]
          /\ thread'.chat = active
      BY <1>1, <1>3, <2>2
    <2> QED  BY <1>2, <1>3, <2>1, <2>2, <2>3, <2>4, <2>5, <2>6, <2>7, Turning
  <1>4. CASE active # c
    <2>1. UNCHANGED <<thread, panel, debug>>
      BY <1>4 DEF Display
    <2>2. tasks' = Drop(i)
      <3>1. tasks' = Outdated(TRUE, Drop(i))
        <4>1. (active # c \/ Identity(found)) = TRUE
          BY <1>4
        <4> QED  BY <4>1 DEF AfterDisplay
      <3> QED  BY <3>1 DEF Outdated
    <2>3. thread \in [chat : Chats \cup {None}, turns : Seq(Turn)]
      BY DEF UiInv, Typed
    <2> QED  BY <2>1, <2>2, <2>3, Dropping
  <1> QED  BY <1>3, <1>4

\* The next call of a handler.
LEMMA KeepIs ==
    ASSUME UiInv, NEW i \in DOMAIN tasks, IsMade(tasks[i]),
           NEW t \in TaskType, t.kind = tasks[i].kind, t.chat = tasks[i].chat,
           t.kind # "inspect", t.step # "make"
    PROVE  \E new \in TaskType : /\ Keep(i, t) = [tasks EXCEPT ![i] = new]
                                 /\ SameTask(new, tasks[i]) /\ ~IsMake(new)
  <1> DEFINE new == [t EXCEPT !.back = t.step = "sync", !.data = <<>>]
  <1>1. Keep(i, t) = [tasks EXCEPT ![i] = new]
    BY DEF Keep
  <1>2. (t.step = "sync") \in BOOLEAN /\ <<>> \in Seq(Turn)
    OBVIOUS
  <1>3. new \in TaskType /\ new.kind = t.kind /\ new.chat = t.chat /\ new.step = t.step
    BY <1>2 DEF TaskType
  <1> HIDE DEF new
  <1>4. ~IsMake(new) /\ SameTask(new, tasks[i])
    BY <1>3 DEF SameTask, IsMake, IsMade
  <1>5. Keep(i, t) = [tasks EXCEPT ![i] = new]
    BY <1>1
  <1> QED  BY <1>3, <1>4, <1>5

LEMMA StepSet ==
    ASSUME NEW t \in TaskType, t.kind # "inspect",
           NEW st \in {"load", "recover", "post", "ask", "make", "drop", "sync", "title", "job"}
    PROVE  /\ [t EXCEPT !.step = st] \in TaskType
           /\ [t EXCEPT !.step = st].kind = t.kind /\ [t EXCEPT !.step = st].chat = t.chat
           /\ [t EXCEPT !.step = st].step = st
  BY DEF TaskType

LEMMA ClearSet ==
    ASSUME NEW t \in TaskType, NEW b \in BOOLEAN
    PROVE  /\ [t EXCEPT !.clear = b] \in TaskType
           /\ [t EXCEPT !.clear = b].kind = t.kind /\ [t EXCEPT !.clear = b].chat = t.chat
           /\ [t EXCEPT !.clear = b].step = t.step
  BY DEF TaskType

\* A handler makes its next call and the screen stays.
LEMMA Calling ==
    ASSUME UiInv, NEW i \in DOMAIN tasks, IsMade(tasks[i]), tasks[i].kind # "inspect",
           NEW st \in {"load", "recover", "post", "ask", "drop", "sync", "title", "job"},
           tasks' = Keep(i, [tasks[i] EXCEPT !.step = st]),
           UNCHANGED <<db, exists, chats, active, thread, panel, debug>>
    PROVE  UiInv'
  <1> DEFINE t == [tasks[i] EXCEPT !.step = st]
  <1>1. tasks[i] \in TaskType /\ exists \subseteq Chats /\ db \in [DOMAIN db -> Seq(Turn)]
    BY DEF UiInv, Typed
  <1>2. t \in TaskType /\ t.kind = tasks[i].kind /\ t.chat = tasks[i].chat /\ t.step = st
    <2>1. st \in {"load", "recover", "post", "ask", "make", "drop", "sync", "title", "job"}
      OBVIOUS
    <2> QED  BY <1>1, <2>1 DEF TaskType
  <1> HIDE DEF t
  <1>3. PICK new \in TaskType : Keep(i, t) = [tasks EXCEPT ![i] = new] /\ SameTask(new, tasks[i])
    BY <1>2, KeepIs
  <1>4. tasks' = Keep(i, t)
    BY DEF t
  <1> QED  BY <1>1, <1>3, <1>4, Going

LEMMA ReceiveOpenKeeps ==
    ASSUME UiInv, NEW i \in DOMAIN tasks, tasks[i].kind \in {"open", "poll"},
           ReceiveOpen(i, tasks[i]), UNCHANGED <<db, exists>>
    PROVE  UiInv'
  <1>1. CASE tasks[i].step = "sync"
    <2>1. /\ tasks' = Keep(i, [tasks[i] EXCEPT !.step = "load"])
          /\ UNCHANGED <<chats, active, thread, panel, debug>>
      BY <1>1 DEF ReceiveOpen
    <2>2. IsMade(tasks[i])
      BY <1>1 DEF IsMade, IsMake
    <2> QED  BY <2>1, <2>2, Calling
  <1>2. CASE tasks[i].step # "sync"
    <2>1. /\ Display(tasks[i].chat, tasks[i].data, FALSE)
          /\ tasks' = AfterDisplay(tasks[i].chat, tasks[i].data, Drop(i))
          /\ UNCHANGED <<chats, active>>
      BY <1>2 DEF ReceiveOpen
    <2>2. tasks[i].data \in Seq(Turn)
      <3>1. tasks[i] \in TaskType
        BY DEF UiInv, Typed
      <3> QED  BY <3>1 DEF TaskType
    <2> QED  BY <2>1, <2>2, DisplayKeeps
  <1> QED  BY <1>1, <1>2

LEMMA NowhereOfMade ==
    ASSUME NEW old \in Seq(TaskType), NEW i \in DOMAIN old, NEW t, NEW P,
           t.chat = old[i].chat, ~IsMake(t), Nowhere(old, P)
    PROVE  Nowhere([old EXCEPT ![i] = t], P \cup {t.chat})
  <1> DEFINE new == [old EXCEPT ![i] = t]
  <1>1. /\ DOMAIN new = DOMAIN old /\ new[i] = t
        /\ \A k \in DOMAIN old : k # i => new[k] = old[k]
    OBVIOUS
  <1> HIDE DEF new
  <1>2. \A k \in DOMAIN old : /\ new[k].chat = old[k].chat
                              /\ IsMake(new[k]) => k # i /\ IsMake(old[k])
    BY <1>1
  <1>3. Nowhere(new, P \cup {t.chat})
    BY <1>1, <1>2 DEF Nowhere
  <1> QED  BY <1>3 DEF new

LEMMA ReceiveCreateKeeps ==
    ASSUME UiInv, NEW i \in DOMAIN tasks, tasks[i].kind = "create", tasks[i].back,
           ReceiveCreate(i, tasks[i]), UNCHANGED <<db, exists>>
    PROVE  UiInv'
  <1> DEFINE c == tasks[i].chat
  <1>1. /\ tasks \in Seq(TaskType) /\ tasks[i] \in TaskType /\ c \in Chats /\ IsMade(tasks[i])
        /\ chats \subseteq Chats
    <2>1. tasks \in Seq(TaskType) /\ tasks[i] \in TaskType /\ chats \subseteq Chats
      BY DEF UiInv, Typed
    <2> QED  BY <2>1 DEF TaskType, IsMade
  <1>2. CASE tasks[i].step = "make"
    <2> DEFINE t == [tasks[i] EXCEPT !.step = "sync"]
    <2>1. /\ chats' = chats \cup {c} /\ active' = c /\ tasks' = Keep(i, t)
          /\ UNCHANGED <<thread, panel, debug>>
      BY <1>2 DEF ReceiveCreate
    <2>2. t \in TaskType /\ t.kind = "create" /\ t.chat = c /\ t.step = "sync"
      BY <1>1, StepSet
    <2> HIDE DEF t
    <2>3. PICK new \in TaskType : /\ tasks' = [tasks EXCEPT ![i] = new]
                                  /\ SameTask(new, tasks[i]) /\ ~IsMake(new)
      <3>1. tasks[i].kind = t.kind /\ tasks[i].chat = t.chat
        BY <2>2
      <3> QED  BY <1>1, <2>1, <2>2, <3>1, KeepIs
    <2>4. Nowhere(tasks, Places) /\ MadeIn(tasks, DOMAIN db) /\ Places \subseteq DOMAIN db \cup {None}
      BY DEF UiInv, Unlisted, Born
    <2>5. tasks' \in Seq(TaskType) /\ Derives(tasks', tasks)
      BY <1>1, <2>3, ChangeDerives
    <2>6. Nowhere(tasks', Places \cup {c}) /\ MadeIn(tasks', DOMAIN db)
      <3>1. new.chat = tasks[i].chat
        BY <2>3 DEF SameTask
      <3>2. Nowhere(tasks', Places \cup {new.chat})
        BY <1>1, <2>3, <2>4, <3>1, NowhereOfMade
      <3> QED  BY <2>4, <2>5, <3>1, <3>2, MadeOfDerived
    <2>7. Places' \subseteq Places \cup {c}
      BY <2>1 DEF Places
    <2>8. Nowhere(tasks', Places')
      BY <2>6, <2>7 DEF Nowhere
    <2>9. c \in DOMAIN db /\ c \notin Places
      BY <1>1, <1>2, <2>4 DEF MadeIn, Nowhere, IsMake
    <2>10. Born' /\ Unlisted'
      BY <2>4, <2>6, <2>7, <2>8, <2>9 DEF Born, Unlisted
    <2>11. Typed'
      BY <1>1, <2>1, <2>5 DEF UiInv, Typed
    <2>12. panel.id.chat # c /\ thread.chat # c
      BY <2>9 DEF Places
    <2>13. Inspecting' /\ PanelIsOfThread'
      BY <2>1, <2>12 DEF UiInv, Inspecting, PanelIsOfThread
    <2> QED  BY <2>10, <2>11, <2>13 DEF UiInv
  <1>3. CASE tasks[i].step # "make"
    <2>1. /\ Reset(active) /\ tasks' = Outdated(Identity(NoPanel), Drop(i))
          /\ UNCHANGED <<chats, active>>
      BY <1>3 DEF ReceiveCreate
    <2>2. Drop(i) \in Seq(TaskType) /\ Derives(Drop(i), tasks)
      BY <1>1, DropIs, DropDerives DEF Drop
    <2> QED  BY <2>1, <2>2, Clearing
  <1> QED  BY <1>2, <1>3

LEMMA CatchKeeps ==
    ASSUME UiInv, NEW i \in DOMAIN tasks, tasks[i].kind = "ask", Catch(i, tasks[i]),
           UNCHANGED <<db, exists>>
    PROVE  UiInv'
  <1>1. UNCHANGED <<chats, active, thread, panel, debug>> /\ IsMade(tasks[i])
        /\ thread \in [chat : Chats \cup {None}, turns : Seq(Turn)]
    BY DEF Catch, IsMade, IsMake, UiInv, Typed
  <1>2. CASE active = tasks[i].chat
    <2>1. tasks' = Keep(i, [tasks[i] EXCEPT !.step = "recover"])
      BY <1>2 DEF Catch
    <2> QED  BY <1>1, <2>1, Calling
  <1>3. CASE active # tasks[i].chat
    <2>1. tasks' = Drop(i)
      BY <1>3 DEF Catch
    <2> QED  BY <1>1, <2>1, Dropping
  <1> QED  BY <1>2, <1>3

LEMMA ShowAnswerKeeps ==
    ASSUME UiInv, NEW i \in DOMAIN tasks, tasks[i].kind = "ask",
           NEW t \in TaskType, t.kind = "ask", t.chat = tasks[i].chat, ShowAnswer(i, t),
           UNCHANGED <<db, exists, chats, active, thread>>
    PROVE  UiInv'
  <1> DEFINE next == [id |-> [chat |-> t.chat, turn |-> t.turn], context |-> t.data = <<"complete">>]
             call == [t EXCEPT !.step = "load"]
  <1>1. /\ tasks \in Seq(TaskType) /\ IsMade(tasks[i])
        /\ thread \in [chat : Chats \cup {None}, turns : Seq(Turn)]
    BY DEF IsMade, IsMake, UiInv, Typed
  <1>2. CASE active = t.chat
    <2>1. /\ panel' = next /\ debug' = Inspection(Identity(next))
          /\ tasks' = Outdated(Identity(next), Keep(i, call))
      BY <1>2 DEF ShowAnswer
    <2>2. next \in [id : AnswerId, context : BOOLEAN] /\ next.id.chat = active
      BY <1>2 DEF TaskType, AnswerId
    <2> HIDE DEF next
    <2>3. call \in TaskType /\ call.kind = "ask" /\ call.chat = t.chat /\ call.step = "load"
      BY StepSet
    <2> HIDE DEF call
    <2>4. PICK new \in TaskType : /\ Keep(i, call) = [tasks EXCEPT ![i] = new]
                                  /\ SameTask(new, tasks[i])
      BY <1>1, <2>3, KeepIs
    <2> DEFINE list == [tasks EXCEPT ![i] = new]
    <2>5. list \in Seq(TaskType) /\ Derives(list, tasks)
      BY <1>1, <2>4, ChangeDerives
    <2>6. Owner(tasks, panel.id) => Owner(list, panel.id)
      BY <1>1, OwnerOfChange
    <2>7. tasks' = Outdated(Identity(next), list)
      BY <2>1, <2>4
    <2> HIDE DEF list
    <2> QED  BY <1>1, <2>1, <2>2, <2>5, <2>6, <2>7, Turning
  <1>3. CASE active # t.chat
    <2>1. tasks' = Drop(i) /\ UNCHANGED <<panel, debug>>
      BY <1>3 DEF ShowAnswer
    <2> QED  BY <1>1, <2>1, Dropping
  <1> QED  BY <1>2, <1>3

LEMMA ReceiveAskKeeps ==
    ASSUME UiInv, NEW i \in DOMAIN tasks, tasks[i].kind = "ask", ReceiveAsk(i, tasks[i]),
           UNCHANGED <<db, exists>>
    PROVE  UiInv'
  <1>1. /\ tasks \in Seq(TaskType) /\ tasks[i] \in TaskType /\ IsMade(tasks[i])
        /\ exists \subseteq Chats /\ db \in [DOMAIN db -> Seq(Turn)]
    BY DEF UiInv, Typed, IsMade, IsMake
  <1>2. CASE Refused(tasks[i]) /\ Catch(i, tasks[i])
    BY <1>2, CatchKeeps
  <1>3. CASE /\ tasks' = Keep(i, [tasks[i] EXCEPT !.step = "ask"])
             /\ UNCHANGED <<chats, active, thread, flagged, panel, debug, overtaken>>
    BY <1>1, <1>3, Calling
  <1>4. CASE /\ tasks' = [tasks EXCEPT ![i].step = "title",
                                        ![i].clear = tasks[i].data # <<"running">>]
             /\ UNCHANGED <<chats, active, thread, flagged, panel, debug, overtaken>>
    <2> DEFINE b == tasks[i].data # <<"running">>
               old == tasks[i]
               t == [old EXCEPT !.step = "title", !.clear = b]
    <2>1. tasks' = [tasks EXCEPT ![i] = t]
      BY <1>1, <1>4
    <2>2. b \in BOOLEAN /\ old \in TaskType /\ old.kind = "ask"
      BY <1>1
    <2> HIDE DEF b, old
    <2>3. t \in TaskType /\ t.kind = old.kind /\ t.chat = old.chat
      BY <2>2 DEF TaskType
    <2> HIDE DEF t
    <2>4. SameTask(t, tasks[i])
      BY <1>1, <2>2, <2>3 DEF SameTask, IsMake, old
    <2> QED  BY <1>1, <1>4, <2>1, <2>3, <2>4, Going
  <1>5. CASE /\ ShowAnswer(i, [tasks[i] EXCEPT !.clear = tasks[i].data # <<"running">>])
             /\ UNCHANGED <<chats, active, thread, overtaken>>
    <2> DEFINE b == tasks[i].data # <<"running">>
               old == tasks[i]
               t == [old EXCEPT !.clear = b]
    <2>1. ShowAnswer(i, t)
      BY <1>5
    <2>2. b \in BOOLEAN /\ old \in TaskType /\ old.kind = "ask" /\ old.chat = tasks[i].chat
      BY <1>1
    <2> HIDE DEF b, old
    <2>3. t \in TaskType /\ t.kind = "ask" /\ t.chat = tasks[i].chat
      BY <2>2, ClearSet
    <2> HIDE DEF t
    <2> QED  BY <1>5, <2>1, <2>3, ShowAnswerKeeps
  <1>6. CASE /\ Display(tasks[i].chat, tasks[i].data, tasks[i].clear)
             /\ tasks' = AfterDisplay(tasks[i].chat, tasks[i].data, Drop(i))
             /\ UNCHANGED <<chats, active>>
    <2>1. tasks[i].data \in Seq(Turn)
      BY <1>1 DEF TaskType
    <2> QED  BY <1>6, <2>1, DisplayKeeps
  <1> QED  BY <1>2, <1>3, <1>4, <1>5, <1>6 DEF ReceiveAsk

LEMMA ReceiveDeleteKeeps ==
    ASSUME UiInv, NEW i \in DOMAIN tasks, tasks[i].kind = "delete",
           ReceiveDelete(i, tasks[i]), UNCHANGED <<db, exists>>
    PROVE  UiInv'
  <1>1. /\ tasks \in Seq(TaskType) /\ tasks[i] \in TaskType /\ IsMade(tasks[i])
        /\ thread \in [chat : Chats \cup {None}, turns : Seq(Turn)]
    BY DEF UiInv, Typed, IsMade, IsMake
  <1>2. chats' \subseteq chats
    BY DEF ReceiveDelete
  <1>3. CASE tasks[i].step = "drop" /\ tasks[i].was
    <2> DEFINE call == [tasks[i] EXCEPT !.step = "sync"]
    <2>1. /\ active' = None /\ Reset(None)
          /\ tasks' = Outdated(Identity(NoPanel), Keep(i, call))
      BY <1>3 DEF ReceiveDelete
    <2>2. call \in TaskType /\ call.kind = "delete" /\ call.chat = tasks[i].chat /\ call.step = "sync"
      BY <1>1 DEF TaskType
    <2> HIDE DEF call
    <2>3. PICK new \in TaskType : /\ Keep(i, call) = [tasks EXCEPT ![i] = new]
                                  /\ SameTask(new, tasks[i])
      BY <1>1, <2>2, KeepIs
    <2> DEFINE list == [tasks EXCEPT ![i] = new]
    <2>4. list \in Seq(TaskType) /\ Derives(list, tasks)
      BY <1>1, <2>3, ChangeDerives
    <2>5. tasks' = Outdated(Identity(NoPanel), list)
      BY <2>1, <2>3
    <2> HIDE DEF list
    <2> QED  BY <1>2, <2>1, <2>4, <2>5, Clearing
  <1>4. CASE ~(tasks[i].step = "drop" /\ tasks[i].was)
    <2>1. tasks' = Drop(i) /\ UNCHANGED <<active, thread, panel, debug>>
      BY <1>4 DEF ReceiveDelete
    <2> QED  BY <1>1, <1>2, <2>1, Dropping
  <1> QED  BY <1>3, <1>4

\* An inspection ends: its answer is the one in the panel, or it is not
\* looked at any more.
LEMMA InspectionEnds ==
    ASSUME UiInv, NEW i \in DOMAIN tasks, tasks[i].kind = "inspect", tasks' = Drop(i),
           UNCHANGED <<db, exists, chats, active, thread>>,
           panel'.id = panel.id, panel' \in [id : AnswerId, context : BOOLEAN],
           debug' \in [shown : AnswerId, busy : BOOLEAN, inFlight : BOOLEAN],
           debug'.shown \in {debug.shown, panel.id},
           debug'.busy => debug.busy /\ ~IsCurrent(tasks[i])
    PROVE  UiInv'
  <1>1. tasks \in Seq(TaskType)
    BY DEF UiInv, Typed
  <1>2. tasks' \in Seq(TaskType) /\ Derives(tasks', tasks)
    BY <1>1, DropIs, DropDerives DEF Drop
  <1>3. Typed'
    BY <1>2 DEF UiInv, Typed
  <1>4. Places' \subseteq Places \cup Served(tasks) \cup {None}
    BY DEF Places
  <1>5. Born' /\ Unlisted'
    BY <1>2, <1>4, Moving
  <1>6. ASSUME debug'.busy, panel.id.chat = active
        PROVE  Owner(tasks', panel.id)
    <2>1. Owner(tasks, panel.id)
      BY <1>6 DEF UiInv, Inspecting
    <2>2. ~(/\ tasks[i].kind = "inspect" /\ tasks[i].current
            /\ [chat |-> tasks[i].chat, turn |-> tasks[i].turn] = panel.id)
      BY <1>6 DEF IsCurrent
    <2> QED  BY <1>1, <2>1, <2>2, OwnerOfDrop DEF Drop
  <1>7. Inspecting'
    BY <1>6 DEF UiInv, Inspecting
  <1>8. PanelIsOfThread'
    BY DEF UiInv, PanelIsOfThread
  <1> QED  BY <1>3, <1>5, <1>7, <1>8 DEF UiInv

LEMMA ReceiveInspectKeeps ==
    ASSUME UiInv, NEW i \in DOMAIN tasks, tasks[i].kind = "inspect",
           ReceiveInspect(i, tasks[i]), UNCHANGED <<db, exists>>
    PROVE  UiInv'
  <1>1. /\ panel \in [id : AnswerId, context : BOOLEAN]
        /\ debug \in [shown : AnswerId, busy : BOOLEAN, inFlight : BOOLEAN]
        /\ tasks' = Drop(i) /\ UNCHANGED <<chats, active, thread>>
    BY DEF UiInv, Typed, ReceiveInspect
  <1>2. CASE IsCurrent(tasks[i])
    <2> DEFINE shown == [chat |-> tasks[i].chat, turn |-> tasks[i].turn]
    <2>1. /\ debug' = [shown |-> shown, busy |-> FALSE, inFlight |-> FALSE]
          /\ panel' = [panel EXCEPT !.context = TRUE]
      BY <1>2 DEF ReceiveInspect
    <2>2. shown = panel.id
      BY <1>2 DEF IsCurrent
    <2> HIDE DEF shown
    <2>3. /\ panel'.id = panel.id /\ panel' \in [id : AnswerId, context : BOOLEAN]
          /\ debug' \in [shown : AnswerId, busy : BOOLEAN, inFlight : BOOLEAN]
          /\ debug'.shown = panel.id /\ ~debug'.busy
      BY <1>1, <2>1, <2>2
    <2> QED  BY <1>1, <2>3, InspectionEnds
  <1>3. CASE ~IsCurrent(tasks[i])
    <2>1. UNCHANGED <<debug, panel>>
      BY <1>3 DEF ReceiveInspect
    <2> QED  BY <1>1, <1>3, <2>1, InspectionEnds
  <1> QED  BY <1>2, <1>3

LEMMA ReceiveKeeps ==
    ASSUME UiInv, NEW i, Receive(i)
    PROVE  UiInv'
  <1>1. i \in DOMAIN tasks /\ tasks[i].back /\ UNCHANGED <<db, exists>>
    BY DEF Receive
  <1>2. CASE tasks[i].kind \in {"open", "poll"} /\ ReceiveOpen(i, tasks[i])
    BY <1>1, <1>2, ReceiveOpenKeeps
  <1>3. CASE tasks[i].kind = "create" /\ ReceiveCreate(i, tasks[i])
    BY <1>1, <1>3, ReceiveCreateKeeps
  <1>4. CASE tasks[i].kind = "ask" /\ ReceiveAsk(i, tasks[i])
    BY <1>1, <1>4, ReceiveAskKeeps
  <1>5. CASE tasks[i].kind = "delete" /\ ReceiveDelete(i, tasks[i])
    BY <1>1, <1>5, ReceiveDeleteKeeps
  <1>6. CASE tasks[i].kind = "inspect" /\ ReceiveInspect(i, tasks[i])
    BY <1>1, <1>6, ReceiveInspectKeeps
  <1> QED  BY <1>2, <1>3, <1>4, <1>5, <1>6 DEF Receive

LEMMA LoseKeeps ==
    ASSUME UiInv, NEW i, Lose(i)
    PROVE  UiInv'
  <1>1. /\ i \in DOMAIN tasks /\ UNCHANGED <<db, exists>>
        /\ thread \in [chat : Chats \cup {None}, turns : Seq(Turn)]
        /\ panel \in [id : AnswerId, context : BOOLEAN]
        /\ debug \in [shown : AnswerId, busy : BOOLEAN, inFlight : BOOLEAN]
    BY DEF Lose, UiInv, Typed
  <1>2. CASE tasks[i].kind = "ask" /\ LoseAsk(i, tasks[i])
    <2>1. CASE tasks[i].step = "recover"
      <3> DEFINE turns == [n \in DOMAIN thread.turns |->
                             IF thread.turns[n] = "sending" THEN "failed" ELSE thread.turns[n]]
      <3>1. /\ thread' = [thread EXCEPT !.turns = turns] /\ tasks' = Drop(i)
            /\ UNCHANGED <<chats, active, panel, debug>>
        BY <1>2, <2>1 DEF LoseAsk
      <3>2. turns \in Seq(Turn)
        <4>1. thread.turns \in Seq(Turn)
          BY <1>1
        <4> QED  BY <4>1 DEF Turn
      <3> HIDE DEF turns
      <3>3. /\ thread' \in [chat : Chats \cup {None}, turns : Seq(Turn)]
            /\ thread'.chat = thread.chat
        BY <1>1, <3>1, <3>2
      <3> QED  BY <1>1, <1>2, <3>1, <3>3, Dropping
    <2>2. CASE tasks[i].step # "recover"
      BY <1>1, <1>2, <2>2, CatchKeeps DEF LoseAsk
    <2> QED  BY <2>1, <2>2
  <1>3. CASE tasks[i].kind = "inspect" /\ LoseInspect(i, tasks[i])
    <2>1. /\ tasks' = Drop(i) /\ UNCHANGED <<chats, active, thread, panel>>
          /\ debug' = IF IsCurrent(tasks[i]) THEN [debug EXCEPT !.busy = FALSE, !.inFlight = FALSE]
                      ELSE debug
      BY <1>3 DEF LoseInspect
    <2>2. /\ debug' \in [shown : AnswerId, busy : BOOLEAN, inFlight : BOOLEAN]
          /\ debug'.shown = debug.shown /\ (debug'.busy => debug.busy /\ ~IsCurrent(tasks[i]))
      BY <1>1, <2>1
    <2> QED  BY <1>1, <1>3, <2>1, <2>2, InspectionEnds
  <1>4. CASE tasks[i].kind \notin {"ask", "inspect"} /\ LoseOther(i)
    <2>1. tasks' = Drop(i) /\ UNCHANGED <<chats, active, thread, panel, debug>>
      BY <1>4 DEF LoseOther
    <2> QED  BY <1>1, <1>4, <2>1, Dropping
  <1> QED  BY <1>2, <1>3, <1>4 DEF Lose
-----------------------------------------------------------------------------
(* The theorems.                                                           *)

LEMMA UiInit == Init => UiInv
  <1> SUFFICES ASSUME Init
               PROVE  UiInv
    OBVIOUS
  <1>1. /\ Held \in [InitialChats -> Seq({"complete"})] /\ InitialChats \subseteq Chats
        /\ Start \in InitialChats /\ None \notin Chats
    BY WorkspaceUiAssumption
  <1>2. /\ db = Held /\ exists = InitialChats /\ chats = InitialChats /\ active = Start
        /\ thread = [chat |-> Start, turns |-> <<>>] /\ panel = NoPanel /\ debug = Idle
        /\ tasks = <<Task("poll", Start, "load")>>
    BY DEF Init
  <1>3. Task("poll", Start, "load") \in TaskType /\ Task("poll", Start, "load").kind = "poll"
        /\ Task("poll", Start, "load").chat = Start
    BY <1>1, TaskIs
  <1>4. /\ tasks \in Seq(TaskType) /\ DOMAIN tasks = {1}
        /\ tasks[1].kind = "poll" /\ tasks[1].chat = Start
    BY <1>2, <1>3
  <1>5. db \in [DOMAIN db -> Seq(Turn)] /\ DOMAIN db = InitialChats
    <2>1. ASSUME NEW c \in InitialChats
          PROVE  Held[c] \in Seq(Turn)
      <3>1. Held[c] \in Seq({"complete"})
        BY <1>1
      <3> QED  BY <3>1 DEF Turn
    <2>2. DOMAIN Held = InitialChats /\ Held = [c \in InitialChats |-> Held[c]]
      BY <1>1
    <2> QED  BY <1>2, <2>1, <2>2
  <1>6. /\ panel \in [id : AnswerId, context : BOOLEAN] /\ panel.id.chat = None
        /\ debug \in [shown : AnswerId, busy : BOOLEAN, inFlight : BOOLEAN]
        /\ debug.shown = NoAnswer /\ ~debug.busy
    BY <1>2 DEF NoPanel, NoAnswer, Idle, AnswerId
  <1>7. Typed
    BY <1>1, <1>2, <1>4, <1>5, <1>6 DEF Typed
  <1>8. Born
    BY <1>1, <1>2, <1>4, <1>5, <1>6 DEF Born, Places, MadeIn
  <1>9. Unlisted
    BY <1>4 DEF Unlisted, Nowhere, IsMake
  <1>10. Inspecting /\ PanelIsOfThread
    BY <1>6 DEF Inspecting, PanelIsOfThread
  <1> QED  BY <1>7, <1>8, <1>9, <1>10 DEF UiInv

LEMMA UiStep == UiInv /\ [Next]_vars => UiInv'
  <1> SUFFICES ASSUME UiInv, [Next]_vars
               PROVE  UiInv'
    OBVIOUS
  <1>1. CASE Ask
    BY <1>1, AskKeeps
  <1>2. CASE Inspect
    BY <1>2, InspectKeeps
  <1>3. ASSUME NEW c \in Chats, Open(c)
        PROVE  UiInv'
    BY <1>3, OpenKeeps
  <1>4. ASSUME NEW c \in Chats, Create(c)
        PROVE  UiInv'
    BY <1>4, CreateKeeps
  <1>5. ASSUME NEW c \in Chats, Delete(c)
        PROVE  UiInv'
    BY <1>5, DeleteKeeps
  <1>6. CASE Poll
    BY <1>6, PollKeeps
  <1>7. ASSUME NEW c \in Chats, Settle(c)
        PROVE  UiInv'
    BY <1>7, SettleKeeps
  <1>8. ASSUME NEW i \in 1 .. MaxTasks, Serve(i)
        PROVE  UiInv'
    BY <1>8, ServeKeeps
  <1>9. ASSUME NEW i \in 1 .. MaxTasks, Receive(i)
        PROVE  UiInv'
    BY <1>9, ReceiveKeeps
  <1>10. ASSUME NEW i \in 1 .. MaxTasks, Lose(i)
         PROVE  UiInv'
    BY <1>10, LoseKeeps
  <1>11. CASE UNCHANGED vars
    BY <1>11 DEF vars, UiInv, Typed, Born, Unlisted, Places, Inspecting, PanelIsOfThread
  <1> QED
    BY <1>1, <1>2, <1>3, <1>4, <1>5, <1>6, <1>7, <1>8, <1>9, <1>10, <1>11 DEF Next, User

(* A tab of any number of chats is well typed, and nothing in it is of a    *)
(* chat whose creation was not answered (createChat, createFreeChat).       *)
THEOREM UiInvariant == FairSpec => []UiInv
  <1>1. FairSpec => Init /\ [][Next]_vars
    BY DEF FairSpec
  <1> QED  BY <1>1, UiInit, UiStep, PTL

(* The context in the debug tab is the one of the answer in the panel, and  *)
(* "loading" has a request under way (runDebug, updatePanelResult).         *)
THEOREM DebugFollowsPanel == FairSpec => []DebugIsOfAnswer
  <1>1. UiInv => DebugIsOfAnswer
    BY DEF UiInv, Inspecting, Owner, DebugIsOfAnswer
  <1> QED  BY <1>1, UiInvariant, PTL

(* The panel beside the messages of the open chat holds no answer of        *)
(* another chat (onNew, loadMessages, resetThreadState).                    *)
THEOREM PanelFollowsThread == FairSpec => []PanelIsOfThread
  <1>1. UiInv => PanelIsOfThread
    BY DEF UiInv
  <1> QED  BY <1>1, UiInvariant, PTL
=============================================================================
