------------------------------ MODULE MCSearch ------------------------------
(* Instances of SearchQuery for TLC: a mirror with a message of each sort  *)
(* that the clauses tell apart.                                            *)
EXTENDS SearchQuery, TLC

Words == {"ops", "nylon", "polyamide", "pdf"}
Says(w) == [v \in Words |-> IF v = w THEN "token" ELSE "no"]

Message(user, channel, text, thread, time, files, rare) ==
    [user |-> user, channel |-> channel, text |-> text, thread |-> thread, time |-> time,
     files |-> files, link |-> rare, edited |-> rare, deleted |-> FALSE, embedded |-> TRUE]

SmallMirror == {
    Message("ann", "#ops", Says("nylon"), "null", 0, {}, FALSE),
    Message("bob", "#ops", Says("polyamide"), "root", 1, {{"pdf"}}, TRUE),
    Message("null", "#lab", Says("ops"), "reply", 2, {{"pdf", "a.pdf"}, {}}, FALSE),
    Message("bob", "#lab", [Says("nylon") EXCEPT !["ops"] = "within"], "null", 3, {{"a.pdf"}}, TRUE),
    [Message("ann", "#lab", Says("nylon"), "null", 3, {}, FALSE) EXCEPT !.embedded = FALSE],
    [Message("ann", "#ops", Says("ops"), "reply", 1, {}, FALSE) EXCEPT !.deleted = TRUE]}

SmallTexts == {
    [source |-> "file", file |-> {"pdf", "a.pdf"}, text |-> Says("nylon"), chunks |-> {{"nylon"}, {}}],
    [source |-> "canvas", file |-> {}, text |-> Says("ops"), chunks |-> {}]}

ChannelLabels == [w \in Words |-> IF w = "ops" THEN {"#ops"} ELSE {}]
DomainAliases ==
    [w \in Words |-> CASE w = "nylon" -> {"polyamide"} [] w = "polyamide" -> {"nylon"} [] OTHER -> {}]

Token(op, value) == {[op |-> op, value |-> value, neg |-> n] : n \in BOOLEAN}
Times == {[kind |-> k, at |-> n] : k \in {"date", "number"}, n \in {1}}
SmallTokens ==
    UNION {Token("term", w) : w \in {"ops", "nylon"}}
    \union Token("from", "ann") \union Token("in", {"#ops"}) \union Token("in", {})
    \union Token("channel", {"#lab"}) \union Token("on", 0)
    \union UNION {Token(op, v) : op \in {"after", "before"}, v \in Times}
    \union UNION {Token("has", v) : v \in {"link", "attachment", "nothing"}}
    \union UNION {Token("is", v) : v \in {"thread", "reply", "edited", "nothing"}}
    \union Token("filename", "a.pdf") \union Token("mime", "pdf")
=============================================================================
