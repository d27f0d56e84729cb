----------------------------- MODULE MCAlgorithms -----------------------------
(* Inputs of bounded size for Algorithms.                                    *)
EXTENDS Algorithms, TLC

CONSTANTS s1, s2, e1, e2, e3, v1, r1, r2, r3, r4, r5

MCDocument == s1 :> 1 @@ s2 :> 2
MCRelation == s1 :> (e1 :> "native" @@ e2 :> "none" @@ e3 :> "native")
              @@ s2 :> (e1 :> "unclear" @@ e2 :> "ocr" @@ e3 :> "none")
MCDerivation == e1 :> {} @@ e2 :> {s1} @@ e3 :> {}

Heading(n) == [kind |-> "head", level |-> n, joined |-> FALSE, cites |-> {},
            eq |-> NoEquation]
Claim(c, e) == [kind |-> "text", level |-> 0, joined |-> FALSE, cites |-> c,
               eq |-> e]
Joined(b) == [b EXCEPT !.joined = TRUE]
Foot(c) == [Claim(c, NoEquation) EXCEPT !.kind = "foot"]

MCBlocks ==
    {Heading(1), Heading(2), [Heading(2) EXCEPT !.cites = {s1}], [Heading(1) EXCEPT !.eq = e2],
     Claim({}, NoEquation), Claim({s1}, NoEquation), Claim({s1}, e1),
     Claim({}, e1), Claim({s1, s2}, NoEquation), Claim({Unknown}, NoEquation),
     Foot({s1}), Foot({s2})}
MCAnswers ==
    LET Follows(b) == {b} \cup {Joined(c) : c \in {d \in {b} : d.kind = "text"}}
        Next2(a) == {Append(a, b) : b \in UNION {Follows(x) : x \in MCBlocks}}
        Proper(a) == \A i \in DOMAIN a :
                         a[i].joined => i > 1 /\ a[i - 1].kind = "text"
        two == UNION {Next2(<<b>>) : b \in MCBlocks}
        three == UNION {Next2(a) : a \in two}
    IN {a \in {<<b>> : b \in MCBlocks} \cup two \cup three : Proper(a)}

Says(support, passages) == [support |-> support, passages |-> passages,
                            contexts |-> TRUE, fit |-> "matched",
                            scope |-> "in_scope"]
Supports == Says("supported", {s1})
MCRows ==
    {{}, {Supports}, {Says("supported", {s2})}, {Says("unsupported", {})},
     {Says("uncertain", {})}, {[Supports EXCEPT !.contexts = FALSE]},
     {[Supports EXCEPT !.fit = "mismatch"]},
     {[Supports EXCEPT !.scope = "excluded"]},
     {Supports, Says("contradicted", {s1})}}
MCDemands == {[task |-> TRUE, own |-> FALSE, topics |-> TRUE],
              [task |-> FALSE, own |-> FALSE, topics |-> FALSE]}

\* Drafts of two blocks, and of three whose last text no review can list.
MCDrafts ==
    LET Blocks == {Heading(1), Claim({}, NoEquation), Claim({s1}, NoEquation),
                   Claim({s1}, e1), Claim({s1}, e3), Claim({s2}, e2),
                   Claim({s1, s2}, NoEquation), Claim({Unknown}, NoEquation),
                   Foot({s1})}
        Lines == {Claim({}, NoEquation), Claim({s2}, NoEquation)}
        two == {<<b, c>> : b \in Blocks, c \in Blocks}
               \cup {<<b, Joined(c)>> : b \in Blocks \ {Heading(1), Foot({s1})},
                                       c \in Lines}
    IN [text : two \cup {Append(a, c) : a \in two, c \in Lines},
        copied : BOOLEAN, whole : {TRUE}]

Packet == [limits |-> FALSE, tables |-> FALSE, members |-> <<>>,
           requested |-> FALSE, rules |-> {}]
MCPackets == {Packet, [Packet EXCEPT !.tables = TRUE],
              [Packet EXCEPT !.limits = TRUE],
              [Packet EXCEPT !.requested = TRUE, !.rules = {<<e1, s1>>}],
              [Packet EXCEPT !.requested = TRUE],
              [Packet EXCEPT !.members = v1 :> {s1}],
              [Packet EXCEPT !.members = v1 :> {}]}

Row1(support, passages) == [support |-> support, passages |-> passages,
                            exact |-> TRUE]
MCClaimRows == {Row1("supported", {s1}), Row1("supported", {s2}),
                Row1("unsupported", {}),
                [Row1("supported", {s1}) EXCEPT !.exact = FALSE]}

MCSize == r1 :> 1 @@ r2 :> 1 @@ r3 :> 2 @@ r4 :> 1 @@ r5 :> 1
MCLists == {<<r3, r1, r2, r4>>, <<r1, r2, r3, r4, r1>>, <<r2, r5, r1, r4>>}
MCFound == {<<r1, r2>>, <<r3, r4>>, <<r4>>, <<r2, r3, r1>>}
MCFrontiers ==
    {<<[raw |-> own = 1, channels |-> <<c1, c2>>],
       [raw |-> own = 2, channels |-> <<c3>>],
       [raw |-> own = 3, channels |-> <<c4>>]>> :
           c1 \in MCFound, c2 \in MCFound, c3 \in MCFound, c4 \in MCFound,
           own \in {0, 1, 2}}

\* A record may rank in either group, in both or in none.
MCRanks ==
    LET Ranked(raw, other) == "raw" :> raw @@ "other" :> other
        Some(ranks) == [r \in Record |-> IF r \in DOMAIN ranks THEN ranks[r] ELSE << >>]
    IN {Some(r1 :> Ranked(0, 2) @@ r2 :> Ranked(1, 0)
             @@ r3 :> ("other" :> 1) @@ r4 :> Ranked(2, 3)),
        Some(r1 :> Ranked(0, 0) @@ r2 :> Ranked(1, 1) @@ r4 :> ("raw" :> 0)),
        Some(r1 :> ("raw" :> 1) @@ r2 :> ("raw" :> 0)),
        Some(r2 :> Ranked(2, 1) @@ r3 :> Ranked(0, 2) @@ r4 :> Ranked(1, 1))}

\* Five rows of two documents: one record twice, one without an identity.
MCNative == <<[rec |-> r1, doc |-> 1], [rec |-> r3, doc |-> 2],
              [rec |-> r1, doc |-> 1], [rec |-> r2, doc |-> 1],
              [rec |-> r5, doc |-> 2]>>
MCTerms == [user |-> <<1, 2, 1, 1, 0>>, gap |-> <<0, 1, 2, 0, 2>>]

MCRevision == r1 :> 1 @@ r2 :> 1 @@ r3 :> 2 @@ r4 :> 3 @@ r5 :> 4
MCParts == r1 :> 2 @@ r2 :> 1 @@ r3 :> 1 @@ r4 :> 1 @@ r5 :> 1
Is(r, n) == [rec |-> r, eid |-> n]
MCBundles == {<<>>, <<Is(r1, 1), Is(r2, 2)>>, <<Is(r1, 1), Is(r3, 2)>>,
              <<Is(r2, 1), Is(r3, 2)>>, <<Is(r3, 2), Is(r1, 1)>>}
Card(kind, groups) == [kind |-> kind, groups |-> groups, related |-> {}]
MCGroups == {{<<1, 1>>}, {<<1, 1>>, <<1, 2>>}, {<<1, 1>>, <<2, 1>>}, {<<2, 1>>},
             {<<3, 1>>}}
MCCards ==
    LET single == {Card(k, <<g>>) : k \in {"rule", "uncertainty"}, g \in MCGroups}
        conflict == {Card("conflict", <<g, h>>) : g \in MCGroups, h \in MCGroups}
    IN {<<>>} \cup {<<c>> : c \in single \cup conflict}
       \cup {<<c, [d EXCEPT !.related = {1}]>> : c \in single, d \in single}

\* What can be said of two topics, to whom, and what others say meanwhile.
Saying(follow, only, without, also, style) ==
    [follow |-> follow, only |-> only, without |-> without, also |-> also,
     style |-> style]
MCTexts ==
    {Saying(FALSE, {}, {}, {}, FALSE), Saying(FALSE, {}, {"x"}, {}, FALSE),
     Saying(TRUE, {}, {"x"}, {}, FALSE), Saying(TRUE, {}, {}, {"x"}, FALSE),
     Saying(TRUE, {"x"}, {}, {}, FALSE), Saying(TRUE, {}, {"y"}, {"x"}, FALSE),
     Saying(TRUE, {}, {}, {}, TRUE)}
Mine(text) == [chat |-> "a", role |-> "user", complete |-> TRUE, text |-> text]
MCMessages ==
    LET m == Mine(Saying(FALSE, {}, {"y"}, {}, FALSE))
    IN {Mine(t) : t \in MCTexts}
       \cup {[m EXCEPT !.chat = "b"], [m EXCEPT !.role = "assistant"],
             [m EXCEPT !.complete = FALSE]}
MCHistories == UNION {[1 .. n -> MCMessages] : n \in 1 .. 4}

\* Tables of a header and one or two rows, merged cells among them.
At(row, column, span, len) ==
    [row |-> row, column |-> column, span |-> span, len |-> len]
Over(header, cells) == [header |-> header, cells |-> cells]
Lengths == {0, 1, 3, 6}
MCGrids ==
    LET Two(i, a, b) == <<At(i, 0, 1, a), At(i, 1, 1, b)>>
        One(i, a) == <<At(i, 0, 2, a)>>
        Bodies(i) == {Two(i, a, b) : a \in {0, 1, 6}, b \in {1, 3}}
                     \cup {One(i, a) : a \in Lengths} \cup {<<>>}
        heads == {Two(1, a, b) : a \in Lengths, b \in Lengths}
                 \cup {One(1, a) : a \in Lengths}
    IN {<<Over(h, top), Over(FALSE, body)>> :
            h \in BOOLEAN, top \in heads, body \in Bodies(2)}
       \cup {<<Over(TRUE, One(1, a)), Over(h, second), Over(FALSE, body)>> :
                a \in {1, 6}, h \in BOOLEAN, second \in Bodies(2),
                body \in Bodies(3)}

\* Files of up to four lines of each kind, and those of five below a heading
\* that hold two formulas.
MCMarks(names) == {[kind |-> "marker", name |-> n] : n \in names}
MCHeads(levels) == {[kind |-> "heading", level |-> l, formula |-> f] : l \in levels, f \in BOOLEAN}
MCRules == {[kind |-> "row", width |-> 2, rule |-> r] : r \in BOOLEAN}
MCPlain == {[kind |-> k] : k \in {"clause", "text"}}
MCLines == MCMarks({"a", "b"}) \cup MCHeads({1, 2}) \cup MCRules \cup MCPlain
             \cup {[kind |-> "fence"], [kind |-> "row", width |-> 1, rule |-> TRUE]}
MCFiles ==
    UNION {[1 .. n -> MCLines] : n \in 1 .. 4}
      \cup {<<h>> \o rest : h \in MCHeads({1}),
                          rest \in [1 .. 4 -> MCHeads({1}) \cup MCRules \cup {[kind |-> "text"]}]}
===============================================================================
