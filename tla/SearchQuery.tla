---------------------------- MODULE SearchQuery ----------------------------
(***************************************************************************)
(* What a search finds: the tokens of a query as clauses over messages     *)
(* (search/keyword.py) and over extracted texts (search/query_syntax.py,   *)
(* search/derived_text.py), and the candidates of each lane.               *)
(*                                                                         *)
(* A user types a query token by token over a mirror that does not change. *)
(* How many candidates a lane keeps, and in what order, is in SearchPages. *)
(* What a text says of a word is "token" if the word is one of its tokens, *)
(* "within" if it is only part of one, else "no": the index finds tokens,  *)
(* LIKE finds both.  SQL's third truth value is "null".                    *)
(***************************************************************************)
EXTENDS Naturals, Sequences, FiniteSets

CONSTANTS
    Mirror,        \* the messages of a workspace
    Texts,         \* its extracted texts
    Labels,        \* for each word, the channels whose name has it
    Aliases,       \* for each word, its aliases
    Tokens,        \* what a user may type
    MaxTokens      \* bound: the length of a query

(* A token has an operator, a value and a sign.                            *)
ASSUME QueryAssumption ==
    /\ \A t \in Tokens : t = [op |-> t.op, value |-> t.value, neg |-> t.neg] /\ t.neg \in BOOLEAN
    /\ MaxTokens \in Nat

VARIABLE query     \* the tokens typed so far

QueryInit == query = <<>>

Typed == {query[i] : i \in DOMAIN query}

AddToken ==
    /\ Len(query) < MaxTokens
    /\ \E t \in Tokens : query' = Append(query, t)

QueryNext == AddToken
QuerySpec == QueryInit /\ [][QueryNext]_query

-----------------------------------------------------------------------------
(* Clauses over messages *)

Sql(b) == IF b THEN "yes" ELSE "no"
Not(v) == CASE v = "yes" -> "no" [] v = "no" -> "yes" [] OTHER -> "null"

FileOps == {"filename", "mime", "extension", "attachment-type"}
Attachments == {"attachment", "file"}

(* A message of a bot or the system has no user, and what compares with it *)
(* is null.                                                                *)
FromUser(m, value) == IF m.user = "null" THEN "null" ELSE Sql(m.user = value)

IsReply(m) == Sql(m.thread = "reply")

(* A date stands for its first second; a day has two seconds here.         *)
Second(value) == IF value.kind = "date" THEN 2 * value.at ELSE value.at

Clause(t, m) ==
    CASE t.op = "term" -> Sql(m.text[t.value] # "no")
      [] t.op = "from" -> FromUser(m, t.value)
      [] t.op \in {"in", "channel"} -> Sql(m.channel \in t.value)
      [] t.op = "after" -> Sql(m.time >= Second(t.value))
      [] t.op = "before" -> Sql(IF t.value.kind = "date" THEN m.time < Second(t.value)
                                ELSE m.time <= Second(t.value))
      [] t.op = "on" -> Sql(m.time \div 2 = t.value)
      [] t.op = "has" /\ t.value = "link" -> Sql(m.link)
      [] t.op = "has" /\ t.value \in Attachments -> Sql(m.files # {})
      [] t.op = "is" /\ t.value = "thread" -> Sql(m.thread # "null")
      [] t.op = "is" /\ t.value = "reply" -> IsReply(m)
      [] t.op = "is" /\ t.value = "edited" -> Sql(m.edited)
      [] OTHER -> "yes"

(* File operators, negated or not, and what has: and is: do not know make  *)
(* no clause; nor does in: without a channel.  has:attachment makes one    *)
(* of its own only when negated.                                           *)
HasClause(t) ==
    /\ t.op \notin FileOps
    /\ t.op = "in" => t.value # {}
    /\ t.op = "has" => t.value = "link" \/ (t.value \in Attachments /\ t.neg)
    /\ t.op = "is" => t.value \in {"thread", "reply", "edited"}

Signed(t, m) == IF t.neg THEN Not(Clause(t, m)) ELSE Clause(t, m)

(* One file must satisfy all that the query asks of files.                 *)
FileWanted(q) == {t \in q : t.op \in FileOps /\ ~t.neg}
AsksFiles(q) ==
    FileWanted(q) # {} \/ \E t \in q : t.op = "has" /\ t.value \in Attachments /\ ~t.neg
FileHolds(f, q) == \A t \in FileWanted(q) : t.value \in f

Where(q, m) ==
    /\ ~m.deleted
    /\ \A t \in q : HasClause(t) => Signed(t, m) = "yes"
    /\ AsksFiles(q) => \E f \in m.files : FileHolds(f, q)

Terms(q) == {t.value : t \in {u \in q : u.op = "term" /\ ~u.neg}}

-----------------------------------------------------------------------------
(* The lexical and semantic lanes of messages *)

InIndex(q) == {m \in Mirror : Where(q, m) /\ \A w \in Terms(q) : m.text[w] = "token"}

NamesChannel(q) == \E w \in Terms(q) : Labels[w] # {}

(* Without the index when it has nothing and a term names a channel.       *)
LexicalCandidates(q) ==
    IF NamesChannel(q) /\ InIndex(q) = {} THEN {m \in Mirror : Where(q, m)} ELSE InIndex(q)

(* Rows found by the name of their channel, or by aliases, are those that  *)
(* have every term one way or another; no other clause is applied.         *)
ChannelLabelCandidates(q) ==
    {m \in Mirror : ~m.deleted /\ \A w \in Terms(q) : m.text[w] # "no" \/ m.channel \in Labels[w]}

DomainAliasCandidates(q) ==
    {m \in Mirror : ~m.deleted /\ \A w \in Terms(q) :
        \E v \in {w} \union Aliases[w] : m.text[v] = "token"}

SearchLexical(q) ==
    LexicalCandidates(q)
    \union (IF NamesChannel(q) THEN ChannelLabelCandidates(q) ELSE {})
    \union (IF \E w \in Terms(q) : Aliases[w] # {} THEN DomainAliasCandidates(q) ELSE {})

(* Terms are embedded, not matched, but for the negated ones.              *)
SearchSemantic(q) ==
    {m \in Mirror : m.embedded /\ Where({t \in q : t.op # "term" \/ t.neg}, m)}

-----------------------------------------------------------------------------
(* Extracted texts *)

(* What only messages have keeps extracted texts out of the results.       *)
MessageContext(q) ==
    \E t \in q : \/ t.op \in {"from", "in", "channel", "after", "before", "on", "is"}
                 \/ t.op = "has" /\ t.value = "link"

(* A negated file operator is taken for a word the text must not have.     *)
Unwanted(q) == {t.value : t \in {u \in q : u.neg /\ u.op \in FileOps \union {"term"}}}

DocClauses(q, d) ==
    /\ (\E t \in q : t.op = "has" /\ t.value \in Attachments /\ ~t.neg) => d.source = "file"
    /\ FileHolds(d.file, q)
    /\ \A w \in Unwanted(q) : w \in DOMAIN d.text => d.text[w] = "no"

(* All terms in one chunk; of a text without chunks, anywhere in it.       *)
InChunk(d, words) == \E c \in d.chunks : words \subseteq c
InWholeText(d, words) == d.chunks = {} /\ \A w \in words : d.text[w] = "token"

SearchDerivedText(q) ==
    {d \in Texts : DocClauses(q, d) /\ (InChunk(d, Terms(q)) \/ InWholeText(d, Terms(q)))}

(* Every text that the filters leave is compared with the query.           *)
SearchDerivedSemantic(q) == {d \in Texts : DocClauses(q, d)}

(* The rows of a search, by mode.                                          *)
Found(q, mode) ==
    IF q = {} THEN {}
    ELSE (IF mode # "semantic" THEN SearchLexical(q) ELSE {})
         \union (IF mode # "lexical" THEN SearchSemantic(q) ELSE {})
         \union (IF MessageContext(q) THEN {}
                 ELSE (IF mode # "semantic" THEN SearchDerivedText(q) ELSE {})
                      \union (IF mode # "lexical" THEN SearchDerivedSemantic(q) ELSE {}))

-----------------------------------------------------------------------------
(* Properties *)

QueryTypeOK == Typed \subseteq Tokens /\ Len(query) <= MaxTokens

Opposite(t) == [t EXCEPT !.neg = ~t.neg]

(* A message that is there satisfies an operator or its negation, never    *)
(* both, whatever columns of it are null; but those without a user satisfy *)
(* neither from: nor -from:, and file operators are ignored when negated   *)
(* (_parse_query).                                                         *)
NegationSplits ==
    \A t \in Typed, m \in Mirror :
        (HasClause(t) \/ HasClause(Opposite(t))) /\ ~m.deleted
            => \/ Where({t}, m) # Where({Opposite(t)}, m)
               \/ t.op = "from" /\ m.user = "null"

(* "Message-lane operators constrain the message lane" (README.md): every  *)
(* message found satisfies every operator of the query.                    *)
OperatorsConstrain ==
    \A m \in Mirror, mode \in {"lexical", "semantic", "hybrid"} :
        m \in Found(Typed, mode)
            => \A t \in Typed : t.op # "term" => Where({t}, m)
=============================================================================
