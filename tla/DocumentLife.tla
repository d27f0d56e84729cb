----------------------------- MODULE DocumentLife -----------------------------
(***************************************************************************)
(* What the service promises of an uploaded document, in terms of what it  *)
(* offers and what it holds: a document is offered once its file is held,  *)
(* nothing of an offered document is taken away, a hidden one is never     *)
(* offered again, and while it is reported gone nothing of it is held or   *)
(* comes back.  Documents implements this specification.                   *)
(***************************************************************************)
CONSTANT Docs  \* uploads

Part == {"file", "nodes"}  \* the upload on the disk, the text in the index

VARIABLES
    offer,  \* "none", "offered" or "hidden", by document
    held,   \* parts of it that are held
    gone    \* documents whose deletion is reported completed

vars == <<offer, held, gone>>

Init ==
    /\ offer = [d \in Docs |-> "none"]
    /\ held = [d \in Docs |-> {}]
    /\ gone = {}

\* The file first, and then, offered or not any more, what is made of it.
Store(d) ==
    /\ d \notin gone
    /\ \/ offer[d] = "none" /\ held' = [held EXCEPT ![d] = {"file"}]
       \/ offer[d] # "none" /\ held' = [held EXCEPT ![d] = @ \cup {"nodes"}]
    /\ UNCHANGED <<offer, gone>>

Offer(d) ==
    /\ offer[d] = "none" /\ "file" \in held[d]
    /\ offer' = [offer EXCEPT ![d] = "offered"]
    /\ UNCHANGED <<held, gone>>

Hide(d) ==
    /\ offer[d] = "offered"
    /\ offer' = [offer EXCEPT ![d] = "hidden"]
    /\ UNCHANGED <<held, gone>>

\* What is hidden, and the file of an upload that was refused.
Erase(d) ==
    /\ offer[d] # "offered"
    /\ \E part \in held[d] : held' = [held EXCEPT ![d] = @ \ {part}]
    /\ UNCHANGED <<offer, gone>>

ReportGone(d) ==
    /\ offer[d] = "hidden" /\ held[d] = {}
    /\ gone' = gone \cup {d}
    /\ UNCHANGED <<offer, held>>

\* A request that never learned its job was taken reports a failure instead.
Retract(d) ==
    /\ d \in gone
    /\ gone' = gone \ {d}
    /\ UNCHANGED <<offer, held>>

Next ==
    \E d \in Docs : \/ Store(d) \/ Offer(d) \/ Hide(d) \/ Erase(d)
                    \/ ReportGone(d) \/ Retract(d)

Spec == Init /\ [][Next]_vars
===============================================================================
