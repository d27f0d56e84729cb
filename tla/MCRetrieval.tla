---------------------------- MODULE MCRetrieval ----------------------------
(***************************************************************************)
(* Retrieval over a docstore of nine chunks in four files:                 *)
(*   manual   chapter: 1;  chapter/a: 2 (an equation), 3 (its condition),  *)
(*            4 (repealed);  chapter/b: 5, 6 (hostile)                     *)
(*   note     a private file of the chat: 7                                *)
(*   other    a file the user may not see: 8                               *)
(*   draft    a file of both domains: 9                                    *)
(***************************************************************************)
EXTENDS Retrieval

ChunkDef == 1 .. 9
PositionDef == [c \in ChunkDef |-> c]
FileDef == [c \in ChunkDef |-> IF c <= 6 THEN "manual" ELSE IF c = 7 THEN "note" ELSE IF c = 8 THEN "other" ELSE "draft"]
DocumentDef == [f \in {"manual", "note", "other", "draft"} |-> f]
SectionDef == [c \in ChunkDef |->
    CASE c = 1 -> "chapter" [] c \in {2, 3, 4} -> "a" [] c \in {5, 6} -> "b"
      [] c = 7 -> "note" [] c = 8 -> "other" [] c = 9 -> "draft"]
ParentDef == [s \in {"chapter", "a", "b", "note", "other", "draft"} |->
                IF s \in {"a", "b"} THEN "chapter" ELSE s]
SizeDef == [c \in ChunkDef |-> IF c = 1 THEN 3 ELSE IF c = 7 THEN 2 ELSE 1]
SubjectDef == [c \in ChunkDef |-> IF c \in {1, 2, 5} THEN {"x"} ELSE IF c \in {7, 9} THEN {"y"} ELSE {}]
GuardsDef == [c \in ChunkDef |-> IF c = 2 THEN {3} ELSE {}]
UsesDef == [c \in ChunkDef |-> IF c = 2 THEN {5} ELSE {}]
LegendDef == [c \in ChunkDef |-> IF c = 5 THEN {6} ELSE {}]
DomainsDef == [f \in {"manual", "note", "other", "draft"} |->
    IF f = "manual" THEN {"rre"} ELSE IF f = "draft" THEN {"rre", "orem"} ELSE {"shared"}]
RelatedDef == [c \in ChunkDef |-> IF c = 1 THEN {2, 5, 6} ELSE IF c = 2 THEN {3, 4} ELSE {}]
VectorHitsDef == {{1, 4, 6, 8}, {2, 7, 8, 9}, {1, 5, 9}, {}}

ChannelSet == {"body", "probe", "procedural", "exact", "lexical", "section", "entity",
               "clause", "concept", "occurrence", "category", "scoped", "domain"}
None == [ch \in ChannelSet |-> {}]
Plain ==
    [excluded |-> {}, aliases |-> {"manual", "note", "draft"}, named |-> {}, private |-> {},
     domains |-> <<>>, hits |-> None, direct |-> {}, entity |-> {}, target |-> {}, heads |-> {},
     unfit |-> {}, refs |-> {}, subjects |-> {}, topics |-> <<>>, occurrence |-> FALSE,
     pool |-> FALSE, coverage |-> FALSE, formula |-> FALSE, procedure |-> FALSE,
     reader |-> FALSE, overview |-> FALSE, exceptions |-> FALSE, category |-> "none",
     value |-> FALSE, frontiers |-> FALSE, topk |-> 2]
Coverage == [Plain EXCEPT !.coverage = TRUE, !.reader = TRUE, !.subjects = {"x", "y"}]

RequestsDef == {
    [Plain EXCEPT !.occurrence = TRUE, !.entity = {1, 4, 7, 8, 9}, !.excluded = {"draft"}],
    [Plain EXCEPT !.private = {"note"}, !.heads = {"chapter"},
                  !.hits = [None EXCEPT !["scoped"] = {7, 8}, !["lexical"] = {1, 5, 8}, !["probe"] = {3}]],
    [Plain EXCEPT !.named = {"manual"}, !.target = {"a", "b"}, !.formula = TRUE,
                  !.hits = [None EXCEPT !["exact"] = {2, 3, 8}, !["procedural"] = {4}]],
    [Plain EXCEPT !.domains = <<"orem">>, !.topk = 1, !.value = TRUE,
                  !.hits = [None EXCEPT !["lexical"] = {1, 2, 3, 5}, !["section"] = {5, 9}]],
    [Plain EXCEPT !.domains = <<"rre", "orem">>, !.category = "one", !.topics = <<"note", "manual">>,
                  !.hits = [None EXCEPT !["category"] = {2, 5, 7}, !["domain"] = {1, 9}, !["concept"] = {3, 8}]],
    [Plain EXCEPT !.domains = <<"orem">>, !.procedure = TRUE, !.category = "generic", !.pool = TRUE,
                  !.hits = [None EXCEPT !["category"] = {2, 7}, !["domain"] = {1, 9}]],
    [Plain EXCEPT !.domains = <<"orem">>, !.procedure = TRUE, !.category = "generic", !.unfit = {"a"},
                  !.hits = [None EXCEPT !["category"] = {2, 7}, !["domain"] = {1, 9}]],
    [Coverage EXCEPT !.heads = {"chapter"}, !.overview = TRUE, !.direct = {3, 5},
                     !.hits = [None EXCEPT !["body"] = {1, 7}]],
    [Coverage EXCEPT !.private = {"note"}, !.topics = <<"manual">>, !.topk = 1,
                     !.hits = [None EXCEPT !["scoped"] = {7}, !["lexical"] = {1, 5}]],
    [Coverage EXCEPT !.heads = {"a"}, !.refs = {<<"a", "b">>}, !.frontiers = TRUE, !.exceptions = TRUE,
                     !.hits = [None EXCEPT !["entity"] = {2, 7, 8}, !["clause"] = {5}]] }
=============================================================================
