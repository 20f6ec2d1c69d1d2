---------------------------- MODULE SearchPages ----------------------------
(***************************************************************************)
(* The pages of a search (search/corpus.py): each lane keeps the best of   *)
(* what it found, the lanes are merged and scored, sources take turns, the *)
(* head may be reranked, and a page is a slice of that.                    *)
(*                                                                         *)
(* Every page is a search of its own, over pools that grow with the offset.*)
(* A row is a message or an extracted text: "lex" and "sem" hold the       *)
(* scores it was found with, one per chunk of a text, none if it was not;  *)
(* "judged" is what the reranker adds.  What is found is in SearchQuery.   *)
(***************************************************************************)
EXTENDS Integers, Sequences, FiniteSets

CONSTANTS
    Rows,          \* all that may be found
    Late,          \* those of them that may be mirrored between two pages
    Spaces,        \* the enabled workspaces
    MinPool,       \* the least a lane keeps (20 in the code)
    FusionK,       \* the offset of ranks in rank fusion (60 in the code)
    TopN,          \* how many rows are reranked
    Limits,        \* page sizes a reader asks for
    MaxOffset      \* bound: how far a reader goes

LaneNames == {"lex", "sem"}
Kinds == {"message", "derived_text"}

(* Rows have keys of their own, and a score for each chunk found.          *)
ASSUME PagesAssumption ==
    /\ IsFiniteSet(Rows) /\ Late \subseteq Rows /\ IsFiniteSet(Spaces)
    /\ \A r, s \in Rows : r.key = s.key => r = s
    /\ \A r \in Rows :
         /\ r.key \in Nat /\ r.ts \in Nat /\ r.judged \in Nat
         /\ r.kind \in Kinds /\ r.ws \in Spaces
         /\ \A lane \in LaneNames : r[lane] \in SUBSET Nat /\ IsFiniteSet(r[lane])
    /\ Limits \subseteq Nat \ {0}
    /\ MinPool \in Nat /\ FusionK \in Nat /\ TopN \in Nat /\ MaxOffset \in Nat

VARIABLES
    search,        \* what is asked: mode, scope, limit, rerank
    mirror,        \* the rows mirrored
    got,           \* the rows of the pages read, in order
    lastPage,      \* how many rows the last page had, and its total
    moved          \* history: a row came after the first page

pageVars == <<search, mirror, got, lastPage, moved>>

Modes == {"lexical", "semantic", "weighted", "rrf"}

-----------------------------------------------------------------------------
(* Order *)

(* S as a sequence; before is a strict total order of it.                  *)
Sorted(S, before(_, _)) ==
    LET place == [x \in S |-> 1 + Cardinality({y \in S : before(y, x)})]
    IN  [i \in 1..Cardinality(S) |-> CHOOSE x \in S : place[x] = i]

(* The higher score, then the later time, first; else as they were found.  *)
Ahead(r, a, s, b) ==
    \/ a > b
    \/ a = b /\ r.ts > s.ts
    \/ a = b /\ r.ts = s.ts /\ r.key < s.key

Head_(s, n) == SubSeq(s, 1, IF n < Len(s) THEN n ELSE Len(s))
Elements(s) == {s[i] : i \in DOMAIN s}

-----------------------------------------------------------------------------
(* Lanes *)

(* A text is found once, with its best chunk.                              *)
Best(r, lane) ==
    IF r[lane] = {} THEN 0 ELSE CHOOSE x \in r[lane] : \A y \in r[lane] : y <= x

Lane(lane, kind, ws, pool) ==
    Head_(Sorted({r \in mirror : r.kind = kind /\ r.ws = ws /\ r[lane] # {}},
                 LAMBDA r, s : Ahead(r, Best(r, lane), s, Best(s, lane))), pool)

(* Where a row is in its lane, 0 if the lane did not keep it.              *)
RankIn(lane, r, pool) ==
    LET s == Lane(lane, r.kind, r.ws, pool)
    IN  IF r \in Elements(s) THEN CHOOSE i \in DOMAIN s : s[i] = r ELSE 0

KeptRows(lane, pool) ==
    UNION {Elements(Lane(lane, k, ws, pool)) : k \in Kinds, ws \in search.scope}

-----------------------------------------------------------------------------
(* Merging *)

Weight(lane) == IF lane = "lex" THEN 6 ELSE 4

(* What a lane adds to a row's score: its score or its rank, weighed.      *)
Part(lane, r, pool) ==
    LET rank == RankIn(lane, r, pool)
    IN  IF rank = 0 THEN 0
        ELSE IF search.mode = "rrf" THEN (Weight(lane) * 1000) \div (FusionK + rank)
        ELSE Weight(lane) * Best(r, lane)

Score(r, pool) ==
    CASE search.mode = "lexical" -> Best(r, "lex")
      [] search.mode = "semantic" -> Best(r, "sem")
      [] OTHER -> Part("lex", r, pool) + Part("sem", r, pool)

Merged(pool) ==
    CASE search.mode = "lexical" -> KeptRows("lex", pool)
      [] search.mode = "semantic" -> KeptRows("sem", pool)
      [] OTHER -> KeptRows("lex", pool) \union KeptRows("sem", pool)

(* Sources take turns, in the order in which they first come: rows ordered *)
(* by how many of their source come before them, then by their source.  As *)
(* in the code, two rows, and rows of one source, stay as they are.        *)
Depth(s, i) == Cardinality({j \in 1..(i - 1) : s[j].source = s[i].source})
First(s, i) == CHOOSE j \in 1..i : s[j].source = s[i].source /\ Depth(s, j) = 0

Diversified(s) ==
    LET turn == Sorted(DOMAIN s, LAMBDA i, j : \/ Depth(s, i) < Depth(s, j)
                                               \/ Depth(s, i) = Depth(s, j) /\ First(s, i) < First(s, j))
    IN  [i \in DOMAIN s |-> s[turn[i]]]

Reranked(s, pool) ==
    LET head == Head_(s, TopN)
        judged == [i \in DOMAIN head |-> Score(head[i], pool) + head[i].judged]
        turn == Sorted(DOMAIN head, LAMBDA i, j : \/ judged[i] > judged[j]
                                                  \/ judged[i] = judged[j] /\ i < j)
    IN  [i \in DOMAIN head |-> head[turn[i]]] \o SubSeq(s, Len(head) + 1, Len(s))

-----------------------------------------------------------------------------
(* Pages *)

Pool_offsetIgnored(offset) == IF search.limit * 2 < MinPool THEN MinPool ELSE search.limit * 2

(* A lane keeps twice what is asked for up to the page's end; over several *)
(* workspaces the offset is counted once more.                             *)
Pool(offset) ==
    LET asked == search.limit + offset
        each == IF Cardinality(search.scope) > 1
                THEN (IF asked < MinPool \div 2 THEN MinPool \div 2 ELSE asked) + offset
                ELSE asked
    IN  IF each * 2 < MinPool THEN MinPool ELSE each * 2

SearchRows(pool) ==
    LET score == [r \in Merged(pool) |-> Score(r, pool)]
        rows == Diversified(Sorted(DOMAIN score, LAMBDA r, s : Ahead(r, score[r], s, score[s])))
    IN  IF search.rerank THEN Reranked(rows, pool) ELSE rows

NoSearch == [mode |-> "none", scope |-> {}, limit |-> 0, rerank |-> FALSE]

Ask ==
    /\ search = NoSearch
    /\ search' \in [mode : Modes, scope : {{ws} : ws \in Spaces} \union {Spaces},
                    limit : Limits, rerank : BOOLEAN]
    /\ lastPage' = [size |-> search'.limit, total |-> 0]
    /\ UNCHANGED <<mirror, got, moved>>

(* Offsets are where the pages read so far end.                            *)
ReadPage ==
    /\ search # NoSearch /\ lastPage.size = search.limit /\ Len(got) < MaxOffset
    /\ LET rows == SearchRows(Pool(Len(got)))
           page == Head_(SubSeq(rows, Len(got) + 1, Len(rows)), search.limit)
       IN  /\ got' = got \o page
           /\ lastPage' = [size |-> Len(page), total |-> Len(rows)]
    /\ UNCHANGED <<search, mirror, moved>>

(* A row is mirrored while someone reads.                                  *)
Arrive ==
    /\ \E r \in Late \ mirror : mirror' = mirror \union {r}
    /\ moved' = (moved \/ got # <<>> \/ lastPage.size < search.limit)
    /\ UNCHANGED <<search, got, lastPage>>

PagesInit ==
    /\ search = NoSearch /\ mirror = Rows \ Late /\ got = <<>> /\ moved = FALSE
    /\ lastPage = [size |-> 0, total |-> 0]

PagesNext == Ask \/ ReadPage \/ Arrive

PagesSpec == PagesInit /\ [][PagesNext]_pageVars

-----------------------------------------------------------------------------
(* Properties *)

PagesTypeOK ==
    /\ mirror \subseteq Rows /\ Elements(got) \subseteq mirror
    /\ lastPage.size \in 0..search.limit /\ lastPage.total <= Cardinality(Rows)

Lanes == IF search.mode = "lexical" THEN {"lex"} ELSE
         IF search.mode = "semantic" THEN {"sem"} ELSE LaneNames

Matches == {r \in mirror : r.ws \in search.scope /\ \E lane \in Lanes : r[lane] # {}}

Fits ==
    \A lane \in Lanes, k \in Kinds, ws \in Spaces :
        Cardinality({r \in Matches : r[lane] # {} /\ r.kind = k /\ r.ws = ws}) <= Pool(0)

(* If nothing was mirrored in between, a page that comes short is the last *)
(* and its total counts every match; and if what each lane found fits its  *)
(* first pool, the pages read until then have every match exactly once,    *)
(* in whatever mode and however it is reranked (search_corpus_page,        *)
(* search_corpus_multi_page).  Where pools grow from page to page, the     *)
(* order changes under the reader: rows may come twice and others never.   *)
PagesPartition ==
    ~moved /\ search # NoSearch =>
        /\ lastPage.size < search.limit => lastPage.total = Cardinality(Matches)
        /\ Fits => /\ Cardinality(Elements(got)) = Len(got)
                   /\ lastPage.size < search.limit => Elements(got) = Matches
=============================================================================
