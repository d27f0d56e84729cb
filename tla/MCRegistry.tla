----------------------------- MODULE MCRegistry -----------------------------
(***************************************************************************)
(* Small situations of Registry: three versions of one family, two of them *)
(* with the same key, and one of another; two projects; one account that   *)
(* two wrong attempts lock.                                                *)
(***************************************************************************)
EXTENDS Registry, TLC

MCDocuments == {"d1", "d2", "d3", "d4"}
MCBorn == [d1 |-> 1, d2 |-> 2, d3 |-> 3, d4 |-> 4]
MCGroup == [d1 |-> "rules", d2 |-> "rules", d3 |-> "rules", d4 |-> "prices"]
MCKey == [d1 |-> 1, d2 |-> 2, d3 |-> 2, d4 |-> 1]
MCProjects == {"p1", "p2", "p3"}
MCChats == {"c1", "c2"}

NoneYet ==
    [x \in MCDocuments |-> [st |-> "none", sup |-> {}]]
      @@ [x \in MCProjects |-> [st |-> "none"]]
      @@ [x \in MCChats |-> [st |-> "none", project |-> {}]]
      @@ (Account :> [failed |-> 0, lock |-> "none"]) @@ (Workspace :> [st |-> "none"])
Holding(docs) == [x \in docs |-> [st |-> "live", sup |-> IF x = "d2" /\ "d1" \in docs THEN {"d1"} ELSE {}]] @@ NoneYet
InUse == ("p1" :> [st |-> "live"]) @@ ("p2" :> [st |-> "live"])
           @@ ("c1" :> [st |-> "live", project |-> {"p1"}]) @@ (Workspace :> [st |-> "live"]) @@ NoneYet

Doc(op, d) == [op |-> op, doc |-> d]
Chat(op, p, c) == [op |-> op, project |-> p, chat |-> c]
Try(right) == [op |-> "login", right |-> right]

MCMixes ==
    { [row |-> Holding({"d1", "d2"}), ops |-> <<Doc("upload", "d3"), Doc("delete", "d2"), Doc("status", "d1"), Doc("status", "d3")>>],
      [row |-> Holding({"d1"}), ops |-> <<Doc("upload", "d2"), Doc("upload", "d3"), Doc("status", "d1"), Doc("upload", "d4")>>],
      [row |-> Holding({"d1", "d2"}), ops |-> <<Doc("upload", "d3"), [op |-> "backfill"], Doc("delete", "d1"), [op |-> "backfill"]>>],
      [row |-> Holding({"d1", "d2", "d4"}), ops |-> <<Doc("delete", "d1"), Doc("delete", "d2"), Doc("status", "d2"), Doc("delete", "d2")>>],
      [row |-> InUse, ops |-> <<[op |-> "drop", project |-> "p1"], Chat("open", "p1", "c2"), Chat("move", "p2", "c1")>>],
      [row |-> InUse, ops |-> <<[op |-> "drop", project |-> "p1"], [op |-> "drop", project |-> "p1"],
                                Chat("first", "p3", "c2"), Try(FALSE)>>],
      [row |-> NoneYet, ops |-> <<Chat("first", "p1", "c1"), Chat("first", "p2", "c2")>>],
      [row |-> NoneYet, ops |-> <<Try(FALSE), Try(FALSE), Try(FALSE), Try(TRUE), Try(TRUE)>>] }
=============================================================================
