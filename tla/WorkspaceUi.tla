----------------------------- MODULE WorkspaceUi -----------------------------
(***************************************************************************)
(* The browser's workspace (ui/src/App.tsx): asynchronous handlers that    *)
(* share one React state.  A handler runs up to its next await in one      *)
(* step; its call reaches the server, and the reply the browser, in steps  *)
(* of their own, so replies overtake each other and a user acts between    *)
(* them.  A call may be lost on either way (API_TIMEOUT_MS, the network).  *)
(* The values a handler closed over are fields of its task.                *)
(***************************************************************************)
EXTENDS Naturals, SequencesExt

CONSTANTS
    Chats,        \* chats that are there or may be created
    None,         \* no chat
    InitialChats, \* the chats loadWorkspace found
    Start,        \* the chat opened first: of the address, or of the saved workspace
    Held,         \* Held[c]: the turns of such a chat
    Scripts,      \* what the user does: sequences of <<kind, chat>>
    MaxLost,      \* bound on lost calls
    MaxTasks      \* bound on handlers under way

ASSUME WorkspaceUiAssumption ==
    /\ Held \in [InitialChats -> Seq({"complete"})]
    /\ InitialChats \subseteq Chats /\ Start \in InitialChats /\ None \notin Chats
    /\ {MaxLost, MaxTasks} \subseteq Nat

(* A turn of a chat is a question and how its answer stands: "asked" (no    *)
(* assistant message), "running" or "complete", with an answer or an error; *)
(* only in the browser "sending" (the optimistic pair) and "failed".        *)

VARIABLES
    db,        \* db[c]: the turns the server holds for a chat it once created
    exists,    \* the chats that exist
    chats,     \* the chats the browser lists
    active,    \* activeChatId and its ref
    thread,    \* messages: .turns, of chat .chat (the chat is not recorded by the code)
    flagged,   \* runningChatIds
    panel,     \* lastResult: the answer .turn of .chat, with its context or not
    debug,     \* the context shown (.shown), isDebugging (.busy), debugRequestRef.inFlight
    tasks,     \* handlers that wait for a reply
    script,    \* what the user will still do
    lost,      \* calls lost so far
    overtaken  \* a thread that showed a running answer was replaced by an older
               \* list, or emptied by a creation that ended late

vars == <<db, exists, chats, active, thread, flagged, panel, debug, tasks, script, lost, overtaken>>

NoAnswer == [chat |-> None, turn |-> 0]
NoPanel == [id |-> NoAnswer, context |-> FALSE]
Idle == [shown |-> NoAnswer, busy |-> FALSE, inFlight |-> FALSE]
Task(kind, chat, step) ==
    [kind |-> kind, chat |-> chat, step |-> step, back |-> FALSE, data |-> <<>>,
     turn |-> 0, clear |-> FALSE, was |-> FALSE, current |-> TRUE]

Init ==
    /\ db = Held
    /\ exists = InitialChats /\ chats = InitialChats
    /\ active = Start
    /\ thread = [chat |-> Start, turns |-> <<>>]
    /\ flagged = {} /\ panel = NoPanel /\ debug = Idle
    /\ tasks = <<Task("poll", Start, "load")>>
    /\ script \in Scripts /\ lost = 0 /\ overtaken = FALSE

Shows(status) == \E i \in DOMAIN thread.turns : thread.turns[i] = status
Act(kind, c) ==
    /\ script # <<>> /\ Head(script) = <<kind, c>> /\ script' = Tail(script)
    /\ Len(tasks) < MaxTasks
-----------------------------------------------------------------------------
(* State shared by the handlers.                                           *)

\* updatePanelResult(next): another answer ends the inspection of this one;
\* outdated tells the tasks that follow
Identity(next) == next.id = panel.id
Outdated(same, list) ==
    IF same THEN list
    ELSE [i \in DOMAIN list |-> [list[i] EXCEPT !.current = @ /\ list[i].kind # "inspect"]]
Inspection(same) == IF same THEN debug ELSE Idle

\* resetThreadState
Reset(now) ==
    /\ thread' = [chat |-> now, turns |-> <<>>]
    /\ panel' = NoPanel
    /\ debug' = [Inspection(Identity(NoPanel)) EXCEPT !.shown = NoAnswer]
    /\ overtaken' = (overtaken \/ (thread.chat = now /\ Shows("running")))

\* panelStateFromMessageRecords: the last answer that is not running
Restored(c, list) ==
    LET answered == {i \in DOMAIN list : list[i] = "complete"}
    IN IF answered = {} THEN NoPanel
       ELSE [id |-> [chat |-> c, turn |-> CHOOSE i \in answered : \A j \in answered : j <= i],
             context |-> FALSE]
\* preserveContextSnapshot
Preserved(next) == [next EXCEPT !.context = next.id = panel.id /\ panel.context]

\* a list that was read before a running answer on display was begun
Older(list) ==
    \E n \in DOMAIN thread.turns :
        thread.turns[n] = "running" /\ (n \in DOMAIN list => list[n] = "asked")

\* loadMessages, after its reply, and the finally of onNew (clear)
Display(c, list, clear) ==
    /\ flagged' = IF ~clear /\ \E i \in DOMAIN list : list[i] = "running"
                  THEN flagged \cup {c} ELSE flagged \ {c}
    /\ IF active = c
       THEN LET next == Preserved(Restored(c, list))
            IN /\ thread' = [chat |-> c, turns |-> list]
               /\ panel' = next
               /\ debug' = Inspection(Identity(next))
               /\ overtaken' = (overtaken \/ (thread.chat = c /\ Older(list)))
       ELSE UNCHANGED <<thread, panel, debug, overtaken>>
\* what Display does to the tasks that inspect an answer
AfterDisplay(c, list, rest) ==
    Outdated(active # c \/ Identity(Restored(c, list)), rest)

\* the next call of a handler; what the server does for "sync" and "job"
\* changes nothing here, so only their replies are steps
Keep(i, t) == [tasks EXCEPT ![i] = [t EXCEPT !.back = t.step = "sync", !.data = <<>>]]
Drop(i) == RemoveAt(tasks, i)
-----------------------------------------------------------------------------
(* What the user does.                                                     *)

\* openChat, up to syncWorkspace
Open(c) ==
    /\ Act("open", c) /\ c \in chats
    /\ active' = c
    /\ panel' = NoPanel
    /\ debug' = [Inspection(Identity(NoPanel)) EXCEPT !.shown = NoAnswer]
    /\ tasks' = Append(Outdated(Identity(NoPanel), tasks), [Task("open", c, "sync") EXCEPT !.back = TRUE])
    /\ UNCHANGED <<db, exists, chats, thread, flagged, lost, overtaken>>

\* createChat, createFreeChat: the POST comes first; the id is a fresh one
Create(c) ==
    /\ Act("create", c) /\ c \notin DOMAIN db
    /\ \A i \in DOMAIN tasks : tasks[i].kind = "create" => tasks[i].chat # c
    /\ tasks' = Append(tasks, Task("create", c, "make"))
    /\ UNCHANGED <<db, exists, chats, active, thread, flagged, panel, debug, lost, overtaken>>

\* onNew: the question and an answer being awaited are displayed at once
Ask ==
    /\ Act("ask", active) /\ active # None /\ active \notin flagged
    /\ thread' = [thread EXCEPT !.turns = Append(@, "sending")]
    /\ flagged' = flagged \cup {active}
    /\ panel' = NoPanel
    /\ debug' = [Inspection(Identity(NoPanel)) EXCEPT !.shown = NoAnswer]
    /\ tasks' = Append(Outdated(Identity(NoPanel), tasks), Task("ask", active, "post"))
    /\ UNCHANGED <<db, exists, chats, active, lost, overtaken>>

\* deleteChat; it remembers whether the chat was the active one
Delete(c) ==
    /\ Act("delete", c) /\ c \in chats
    /\ \A i \in DOMAIN tasks : tasks[i].kind = "delete" => tasks[i].chat # c
    /\ tasks' = Append(tasks, [Task("delete", c, "drop") EXCEPT !.was = active = c])
    /\ UNCHANGED <<db, exists, chats, active, thread, flagged, panel, debug, lost, overtaken>>

\* runDebug: the context in hand, or the one of the stored job
Inspect ==
    /\ Act("inspect", active) /\ active \notin flagged /\ ~debug.inFlight
    /\ panel.id # NoAnswer /\ panel.id.chat = active
    /\ IF panel.context
       THEN debug' = [debug EXCEPT !.shown = panel.id] /\ UNCHANGED tasks
       ELSE /\ debug' = [debug EXCEPT !.busy = TRUE, !.inFlight = TRUE]
            /\ tasks' = Append(tasks, [Task("inspect", active, "job") EXCEPT !.turn = panel.id.turn, !.back = TRUE])
    /\ UNCHANGED <<db, exists, chats, active, thread, flagged, panel, lost, overtaken>>

\* Mutant: only the optimistic message keeps the timer running.
PollUnpersisted ==
    /\ active # None /\ Shows("sending")
    /\ Len(tasks) < MaxTasks
    /\ \A i \in DOMAIN tasks : tasks[i].kind = "poll" => tasks[i].chat # active
    /\ tasks' = Append(tasks, Task("poll", active, "load"))
    /\ UNCHANGED <<db, exists, chats, active, thread, flagged, panel, debug, script, lost, overtaken>>
\* the timer that runs while a running answer is displayed
Poll ==
    /\ active # None /\ (Shows("running") \/ Shows("sending"))
    /\ Len(tasks) < MaxTasks
    /\ \A i \in DOMAIN tasks : tasks[i].kind = "poll" => tasks[i].chat # active
    /\ tasks' = Append(tasks, Task("poll", active, "load"))
    /\ UNCHANGED <<db, exists, chats, active, thread, flagged, panel, debug, script, lost, overtaken>>
-----------------------------------------------------------------------------
(* The server.                                                             *)

Reply(i, data) == tasks' = [tasks EXCEPT ![i].back = TRUE, ![i].data = data]

\* an answer is finished by the worker
Settle(c) ==
    /\ c \in DOMAIN db
    /\ \E n \in DOMAIN db[c] : db[c][n] = "running" /\ db' = [db EXCEPT ![c][n] = "complete"]
    /\ UNCHANGED <<exists, chats, active, thread, flagged, panel, debug, tasks, script, lost, overtaken>>

\* a call is handled; on a deleted chat it is refused
Serve(i) ==
    /\ i \in DOMAIN tasks /\ ~tasks[i].back
    /\ LET t == tasks[i]
           c == t.chat
       IN \/ /\ t.step \in {"load", "recover"}
             /\ Reply(i, IF c \in exists THEN db[c] ELSE <<>>) /\ UNCHANGED <<db, exists>>
          \/ /\ t.step \in {"post", "ask"} /\ c \notin exists
             /\ Reply(i, <<"refused">>) /\ UNCHANGED <<db, exists>>
          \/ /\ t.step = "post" /\ c \in exists
             /\ db' = [db EXCEPT ![c] = Append(@, "asked")]
             /\ tasks' = [tasks EXCEPT ![i].back = TRUE, ![i].turn = Len(db[c]) + 1]
             /\ UNCHANGED exists
          \/ /\ t.step = "ask" /\ c \in exists
             /\ \E how \in {"running", "complete"} :
                  db' = [db EXCEPT ![c][t.turn] = how] /\ Reply(i, <<how>>)
             /\ UNCHANGED exists
          \/ /\ t.step = "make"
             /\ db' = [d \in DOMAIN db \cup {c} |-> IF d = c THEN <<>> ELSE db[d]]
             /\ exists' = exists \cup {c} /\ Reply(i, <<>>)
          \/ /\ t.step = "drop"
             /\ exists' = exists \ {c} /\ Reply(i, <<>>) /\ UNCHANGED db
    /\ UNCHANGED <<chats, active, thread, flagged, panel, debug, script, lost, overtaken>>
-----------------------------------------------------------------------------
(* The handlers, after their replies.                                      *)

Refused(t) == t.data = <<"refused">>

ReceiveOpen(i, t) ==
    /\ IF t.step = "sync"
       THEN /\ tasks' = Keep(i, [t EXCEPT !.step = "load"])
            /\ UNCHANGED <<thread, flagged, panel, debug, overtaken>>
       ELSE /\ Display(t.chat, t.data, FALSE)
            /\ tasks' = AfterDisplay(t.chat, t.data, Drop(i))
    /\ UNCHANGED <<chats, active>>

\* the thread is emptied only after the workspace was saved
ReceiveCreate(i, t) ==
    /\ IF t.step = "make"
       THEN /\ chats' = chats \cup {t.chat} /\ active' = t.chat
            /\ tasks' = Keep(i, [t EXCEPT !.step = "sync"])
            /\ UNCHANGED <<thread, panel, debug, overtaken>>
       ELSE /\ Reset(active)
            /\ tasks' = Outdated(Identity(NoPanel), Drop(i))
            /\ UNCHANGED <<chats, active>>
    /\ UNCHANGED flagged

\* catch of onNew: what was stored is shown, if the chat is still open
Catch(i, t) ==
    /\ IF active = t.chat
       THEN tasks' = Keep(i, [t EXCEPT !.step = "recover"]) /\ UNCHANGED flagged
       ELSE tasks' = Drop(i) /\ flagged' = IF t.clear THEN flagged \ {t.chat} ELSE flagged
    /\ UNCHANGED <<chats, active, thread, panel, debug, overtaken>>

\* Mutant: the answer is shown whatever chat is open now.
ShowAnswerAnywhere(i, t) ==
    LET next == [id |-> [chat |-> t.chat, turn |-> t.turn], context |-> t.data = <<"complete">>]
    IN /\ panel' = next /\ debug' = Inspection(Identity(next))
       /\ tasks' = Outdated(Identity(next), Keep(i, [t EXCEPT !.step = "load"]))
       /\ UNCHANGED flagged
\* onNew, once the answer is there: it is shown if its chat is still open
ShowAnswer(i, t) ==
    IF active = t.chat
    THEN LET next == [id |-> [chat |-> t.chat, turn |-> t.turn], context |-> t.data = <<"complete">>]
         IN /\ panel' = next /\ debug' = Inspection(Identity(next))
            /\ tasks' = Outdated(Identity(next), Keep(i, [t EXCEPT !.step = "load"]))
            /\ UNCHANGED flagged
    ELSE /\ tasks' = Drop(i)
         /\ flagged' = IF t.clear THEN flagged \ {t.chat} ELSE flagged
         /\ UNCHANGED <<panel, debug>>

\* onNew, reply by reply; a new chat gets its title before the answer is shown
ReceiveAsk(i, t) ==
    \/ Refused(t) /\ Catch(i, t)
    \/ /\ ~Refused(t) /\ t.step = "post"
       /\ tasks' = Keep(i, [t EXCEPT !.step = "ask"])
       /\ UNCHANGED <<chats, active, thread, flagged, panel, debug, overtaken>>
    \/ /\ ~Refused(t) /\ t.step = "ask" /\ t.turn = 1
       /\ tasks' = [tasks EXCEPT ![i].step = "title", ![i].clear = t.data # <<"running">>]
       /\ UNCHANGED <<chats, active, thread, flagged, panel, debug, overtaken>>
    \/ /\ ~Refused(t) /\ (t.step = "title" \/ (t.step = "ask" /\ t.turn > 1))
       /\ ShowAnswer(i, [t EXCEPT !.clear = t.data # <<"running">>])
       /\ UNCHANGED <<chats, active, thread, overtaken>>
    \/ /\ ~Refused(t) /\ t.step \in {"load", "recover"}
       /\ Display(t.chat, t.data, t.clear)
       /\ tasks' = AfterDisplay(t.chat, t.data, Drop(i))
       /\ UNCHANGED <<chats, active>>

\* the chat leaves the list; the open one leaves the screen too
ReceiveDelete(i, t) ==
    /\ chats' = IF t.step = "drop" THEN chats \ {t.chat} ELSE chats
    /\ IF t.step = "drop" /\ t.was
       THEN /\ active' = None /\ Reset(None)
            /\ tasks' = Outdated(Identity(NoPanel), Keep(i, [t EXCEPT !.step = "sync"]))
       ELSE tasks' = Drop(i) /\ UNCHANGED <<active, thread, panel, debug, overtaken>>
    /\ UNCHANGED flagged

\* isCurrent of runDebug
\* Mutant: the number of the request is not compared.
IsCurrentByIds(t) == active = t.chat /\ panel.id.chat = t.chat
IsCurrent(t) == active = t.chat /\ panel.id = [chat |-> t.chat, turn |-> t.turn] /\ t.current
ReceiveInspect(i, t) ==
    /\ IF IsCurrent(t)
       THEN /\ debug' = [shown |-> [chat |-> t.chat, turn |-> t.turn], busy |-> FALSE, inFlight |-> FALSE]
            /\ panel' = [panel EXCEPT !.context = TRUE]
       ELSE UNCHANGED <<debug, panel>>
    /\ tasks' = Drop(i)
    /\ UNCHANGED <<chats, active, thread, flagged, overtaken>>

Receive(i) ==
    /\ i \in DOMAIN tasks /\ tasks[i].back
    /\ LET t == tasks[i]
       IN \/ t.kind \in {"open", "poll"} /\ ReceiveOpen(i, t)
          \/ t.kind = "create" /\ ReceiveCreate(i, t)
          \/ t.kind = "ask" /\ ReceiveAsk(i, t)
          \/ t.kind = "delete" /\ ReceiveDelete(i, t)
          \/ t.kind = "inspect" /\ ReceiveInspect(i, t)
    /\ UNCHANGED <<db, exists, script, lost>>

\* the catch of a handler whose call or reply is lost
LoseAsk(i, t) ==
    IF t.step = "recover"
    THEN /\ thread' = [thread EXCEPT !.turns = [n \in DOMAIN @ |-> IF @[n] = "sending" THEN "failed" ELSE @[n]]]
         /\ tasks' = Drop(i)
         /\ flagged' = IF t.clear THEN flagged \ {t.chat} ELSE flagged
         /\ UNCHANGED <<chats, active, panel, debug, overtaken>>
    ELSE Catch(i, t)
LoseInspect(i, t) ==
    /\ debug' = IF IsCurrent(t) THEN [debug EXCEPT !.busy = FALSE, !.inFlight = FALSE] ELSE debug
    /\ tasks' = Drop(i)
    /\ UNCHANGED <<chats, active, thread, flagged, panel, overtaken>>
LoseOther(i) ==
    tasks' = Drop(i) /\ UNCHANGED <<chats, active, thread, flagged, panel, debug, overtaken>>
Lose(i) ==
    /\ i \in DOMAIN tasks /\ lost < MaxLost /\ lost' = lost + 1
    /\ LET t == tasks[i]
       IN \/ t.kind = "ask" /\ LoseAsk(i, t)
          \/ t.kind = "inspect" /\ LoseInspect(i, t)
          \/ t.kind \notin {"ask", "inspect"} /\ LoseOther(i)
    /\ UNCHANGED <<db, exists, script>>

User == Ask \/ Inspect \/ \E c \in Chats : Open(c) \/ Create(c) \/ Delete(c)
Next ==
    \/ User \/ Poll
    \/ \E c \in Chats : Settle(c)
    \/ \E i \in 1 .. MaxTasks : Serve(i) \/ Receive(i) \/ Lose(i)

(* Calls are answered, answers finished, and the timer fires; no user has   *)
(* to act.                                                                  *)
Network == \E i \in 1 .. MaxTasks : Serve(i) \/ Receive(i)
Fairness == WF_vars(Poll) /\ WF_vars(Network) /\ WF_vars(\E c \in Chats : Settle(c))
FairSpec == Init /\ [][Next]_vars /\ Fairness
-----------------------------------------------------------------------------
(* Properties.                                                             *)

(* The context in the debug tab is the one of the answer in the panel, also *)
(* when its job is answered after another chat was opened, a question       *)
(* asked, or the chat deleted; and "loading" is never left on for an answer *)
(* whose request is no longer under way (runDebug, updatePanelResult).      *)
DebugIsOfAnswer ==
    /\ debug.shown # NoAnswer => panel.id = debug.shown
    /\ debug.busy /\ panel.id.chat = active =>
         \E i \in DOMAIN tasks : tasks[i].kind = "inspect" /\ tasks[i].current
                                /\ [chat |-> tasks[i].chat, turn |-> tasks[i].turn] = panel.id

(* When the messages of the open chat are displayed, the panel beside them  *)
(* holds no answer of another chat, in whatever order the replies of lists, *)
(* answers and creations arrive (onNew, loadMessages, resetThreadState).    *)
PanelIsOfThread ==
    thread.chat = active => panel.id.chat \in {None, active}

(* A running answer on display does not stay so: with nobody leaving the    *)
(* chat, the thread comes to show it ended and the chat takes questions     *)
(* again, although replies are lost and overtake each other (the timer,     *)
(* hasRunningAssistantMessage); but for the two ways "overtaken" names.     *)
Answered(c) == thread.chat = c /\ ~Shows("running") /\ c \notin flagged
AnswerIsShown ==
    \A c \in Chats :
        (active = c /\ thread.chat = c /\ Shows("running")) ~> (active # c \/ overtaken \/ Answered(c))
=============================================================================
