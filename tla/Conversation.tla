----------------------------- MODULE Conversation -----------------------------
(***************************************************************************)
(* What a question means in its chat: the persisted turns that are read    *)
(* for it, and how its subject, its conditions and its exclusions are      *)
(* resolved from them.  A text is what the resolver tells apart in it; two *)
(* equal texts are the same message typed twice.                           *)
(***************************************************************************)
EXTENDS Naturals, Sequences, FiniteSets

CONSTANTS
    Topic,          \* subjects that can be excluded or asked for
    Window,         \* active_user_history_limit
    MaxConstraints  \* conditions that are retained (6)

ASSUME ConversationAssumption ==
    /\ Window \in Nat \ {0}
    /\ MaxConstraints \in Nat \ {0}

\* follow: it refers to what was said before; only, without, also: topics it
\* narrows to, excludes or takes in again; style: it asks for a form of answer.
Text == [follow : BOOLEAN, only : SUBSET Topic, without : SUBSET Topic,
         also : SUBSET Topic, style : BOOLEAN]
Message == [chat : STRING, role : {"user", "assistant"}, complete : BOOLEAN,
            text : Text]

\* The last n of some positions.
Latest(S, n) == {i \in S : Cardinality({j \in S : j > i}) < n}

\* get_project_conversation, current_chat_user_messages: the latest complete
\* messages of the user in this chat, whatever its project heard meanwhile;
\* messages are named by their place in the history.
Own(history, chat) == {i \in DOMAIN history : /\ history[i].chat = chat
                                             /\ history[i].role = "user"
                                             /\ history[i].complete}
Heard(history, chat) == Latest(Own(history, chat), Window)

\* The question itself may be the last message already.
Turns(history, chat, question) ==
    LET heard == Heard(history, chat)
    IN {i \in heard : history[i].text = question => \E j \in heard : j > i}

\* What has been understood so far: the place of the subject, 0 before a first
\* one, those of the conditions and of the wishes of style since, and topics.
NoSubject == [subject |-> 0, constraints |-> {}, styles |-> {},
              only |-> {}, without |-> {}]

Mentions(text) == text.only \cup text.without \cup text.also

\* _updated_constraints: what a text asks for again is excluded no longer,
\* nor is any condition kept that speaks of it.
Reopened(text) == IF text.only # {} THEN text.only ELSE text.also
Updated(acc, said, k) ==
    LET lifted == acc.without \cap Reopened(said[k])
        Stays(c) == Mentions(said[c]) \cap lifted = {} /\ said[c].only = {}
    IN IF lifted = {} /\ said[k].only = {} THEN acc
       ELSE [acc EXCEPT !.constraints = {c \in @ : Stays(c)},
                        !.only = {},
                        !.without = @ \ lifted]

\* The text then adds its own conditions.
Extended(acc, said, k) ==
    LET now == Updated(acc, said, k)
        styles == said[k].style /\ said[k].only \cup said[k].without = {}
    IN [subject |-> now.subject,
        constraints |-> IF styles THEN now.constraints ELSE now.constraints \cup {k},
        styles |-> IF styles THEN now.styles \cup {k} ELSE now.styles,
        only |-> now.only \cup said[k].only,
        without |-> now.without \cup said[k].without]

Begun(said, k, without) ==
    [subject |-> k, constraints |-> {}, styles |-> {},
     only |-> said[k].only, without |-> without]

\* Mutant: a new subject leaves the exclusions of the old one in force.
HeardOneMore(acc, said, k) ==
    IF ~said[k].follow THEN Begun(said, k, acc.without \cup said[k].without)
    ELSE IF acc.subject = 0 THEN acc
    ELSE Extended(acc, said, k)

\* One more turn: a new subject starts afresh, a refinement of none is lost.
HeardOne(acc, said, k) ==
    IF ~said[k].follow THEN Begun(said, k, said[k].without)
    ELSE IF acc.subject = 0 THEN acc
    ELSE Extended(acc, said, k)

Understood(said, turns) ==
    LET after[k \in 0 .. Len(said)] ==
            IF k = 0 THEN NoSubject
            ELSE IF k \in turns THEN HeardOne(after[k - 1], said, k)
            ELSE after[k - 1]
    IN after[Len(said)]

\* _unique: the first of equal texts.
Distinct(said, S) == {i \in S : \A j \in S : said[j] = said[i] => i <= j}

\* resolve_conversation_context: the question comes after all that was said.
Resolution(history, chat, question) ==
    LET said == [i \in 1 .. Len(history) + 1 |->
                    IF i \in DOMAIN history THEN history[i].text ELSE question]
        past == Understood(said, Turns(history, chat, question))
        now == Extended(past, said, Len(said))
        kept == Latest(Distinct(said, now.constraints), MaxConstraints)
        alone == [mode |-> "standalone", subject |-> {question},
                  constraints |-> {}, only |-> question.only,
                  without |-> question.without]
    IN IF ~question.follow THEN alone
       ELSE IF past.subject = 0
       THEN [alone EXCEPT !.mode = "unresolved", !.subject = {}]
       ELSE [mode |-> "follow_up", subject |-> {said[past.subject]},
             constraints |-> {said[c] : c \in kept},
             only |-> now.only, without |-> now.without]
===============================================================================
