----------------------------- MODULE Benchmarks -----------------------------
(***************************************************************************)
(* Retrieval benchmarks (search/eval.py, service/app.py).  A dataset gives *)
(* the labels a query should find, with weights; a report resolves them    *)
(* and says which are embedded, a backfill embeds what they name, an       *)
(* evaluation scores what a search found, and diagnostics rank each label. *)
(*                                                                         *)
(* An item, a message or an extracted text, has a label of its own and one *)
(* by its title: a message's is its channel's name with its time, a text's *)
(* the title of its file, which several texts of that file share and which *)
(* may read like a label of another kind.                                  *)
(***************************************************************************)
EXTENDS Integers, Sequences, FiniteSets, Sorting

CONSTANTS
    ItemTexts,     \* items that are texts
    ItemMessages,  \* items that are messages
    ChannelNames,  \* names of the messages' channel; "" is none, "own" its id
    FileTitles,    \* titles of the texts' files
    Colons,        \* those that read like a message's or a text's own label
    Truths,        \* datasets of one query: labels with their grades
    ModelNames,    \* models
    TopK,          \* how many results are asked for
    Discount,      \* what a result counts for, by its place
    MaxEdits       \* bound: changes of the mirror

Untitled == ""

(* A later place counts no more than an earlier one.                       *)
ASSUME BenchmarksAssumption ==
    /\ IsFiniteSet(ItemTexts) /\ IsFiniteSet(ItemMessages) /\ "none" \notin ModelNames
    /\ \A t \in Truths : IsFiniteSet(DOMAIN t) /\ \A l \in DOMAIN t : t[l] \in Nat
    /\ TopK \in Nat /\ \A i, j \in 1..TopK :
        Discount[i] \in Nat /\ (i <= j => Discount[j] <= Discount[i])

VARIABLES
    titles,        \* the title of each item
    gone,          \* messages deleted
    chunked,       \* texts that have chunks
    vectors,       \* items embedded, with the model
    truth,         \* the dataset
    results,       \* what the search found, best first
    report,        \* what the last report said
    backfilled,    \* history: models whose targets were embedded since the last edit
    edits          \* counts changes

benchmarkVars == <<titles, gone, chunked, vectors, truth, results, report, backfilled, edits>>

Items == ItemTexts \union ItemMessages
NoReport == [model |-> "none", status |-> "none", covered |-> 0, picked |-> <<>>]

OwnLabel(i) == <<"own", i>>
TitleLabel(i) == IF i \in ItemMessages THEN <<titles[i], i>> ELSE <<"title", titles[i]>>

(* What a row answers to.                                                  *)
RowLabels(i) == {OwnLabel(i)} \union (IF titles[i] = Untitled THEN {} ELSE {TitleLabel(i)})

-----------------------------------------------------------------------------
(* Labels *)

(* All that a label names, of deleted messages too; a text's title with    *)
(* colons names nothing.                                                   *)
Resolve(label) ==
    {i \in Items : label \in RowLabels(i) /\ (label[1] = "title" => label[2] \notin Colons)}

Unresolved == {l \in DOMAIN truth : Resolve(l) = {}}
Ambiguous == {l \in DOMAIN truth : Cardinality(Resolve(l)) > 1}
Targets == UNION {Resolve(l) : l \in DOMAIN truth}

Covered(i, model) == <<i, model>> \in vectors

(* One of what a label names stands for it, whichever comes first.         *)
Status(ratioFull) ==
    IF Unresolved # {} THEN "fail"
    ELSE IF Ambiguous # {} \/ ~ratioFull THEN "pass_with_warnings" ELSE "pass"

DatasetReport(model) ==
    LET known == DOMAIN truth \ Unresolved
    IN  \E pick \in [known -> Items] :
            /\ \A l \in known : pick[l] \in Resolve(l)
            /\ LET covered == {l \in known : Covered(pick[l], model)}
               IN  report' = [model |-> model, picked |-> pick, covered |-> Cardinality(covered),
                              status |-> Status(known # {} /\ covered = known)]
    /\ results' = <<>>
    /\ UNCHANGED <<titles, gone, chunked, vectors, truth, backfilled, edits>>

(* Deleted messages, and texts without chunks, are counted as missing.     *)
EmbeddableMessages == (Targets \intersect ItemMessages) \ gone
EmbeddableTexts == Targets \intersect chunked
Embeddable == EmbeddableMessages \union EmbeddableTexts

BackfillTargets(model) ==
    /\ vectors' = vectors \union (Embeddable \X {model})
    /\ backfilled' = backfilled \union {model}
    /\ results' = <<>> /\ report' = NoReport
    /\ UNCHANGED <<titles, gone, chunked, truth, edits>>

-----------------------------------------------------------------------------
(* Metrics *)

MaxWeight(labels) ==
    LET weights == {0} \union {truth[l] : l \in labels \intersect DOMAIN truth}
    IN  CHOOSE w \in weights : \A v \in weights : v <= w

(* A search's results score by row, each with the best of its labels.      *)
RowRelevances_ownOnly == [j \in DOMAIN results |-> MaxWeight({OwnLabel(results[j])})]
RowRelevances == [j \in DOMAIN results |-> MaxWeight(RowLabels(results[j]))]

(* Where only messages, or only texts, are searched every label of a row   *)
(* takes a place of its own.                                               *)
Places(i) ==
    <<MaxWeight({OwnLabel(i)})>>
    \o (IF titles[i] = Untitled THEN <<>> ELSE <<MaxWeight({TitleLabel(i)})>>)

LabelRelevances ==
    LET upTo[n \in 0..Len(results)] ==
            IF n = 0 THEN <<>> ELSE upTo[n - 1] \o Places(results[n])
    IN  upTo[Len(results)]

TopOf(rels) == SubSeq(rels, 1, IF TopK < Len(rels) THEN TopK ELSE Len(rels))

Gain(rel) == 2^rel - 1
Dcg(rels) == Total([j \in DOMAIN rels |-> Gain(rels[j]) * Discount[j]], Len(rels))

Ideal ==
    LET Before(l, m) == truth[l] > truth[m] \/ (truth[l] = truth[m] /\ l # m)
        orders == {s \in [1..Cardinality(DOMAIN truth) -> DOMAIN truth] :
                      \A i, j \in DOMAIN s : i < j => Before(s[i], s[j])}
        order == CHOOSE s \in orders : TRUE
    IN  Dcg(TopOf([i \in DOMAIN order |-> truth[order[i]]]))

(* The place of the first that is relevant, 0 if none of the first n is.   *)
FirstHit(rels, n) ==
    LET hits == {j \in DOMAIN rels : j <= n /\ rels[j] > 0}
    IN  IF hits = {} THEN 0 ELSE CHOOSE j \in hits : \A h \in hits : j <= h

-----------------------------------------------------------------------------
(* Diagnostics *)

(* A text resolved by its title is looked for by its own label.            *)
MatchLabels(i) == IF i \in ItemMessages THEN RowLabels(i) ELSE {OwnLabel(i)}
ResultLabels(i) == MatchLabels(i)

TargetRank(label) ==
    LET wanted == UNION {MatchLabels(i) : i \in Resolve(label)}
        at == {j \in DOMAIN results : ResultLabels(results[j]) \intersect wanted # {}}
    IN  IF at = {} THEN 0 ELSE CHOOSE j \in at : \A h \in at : j <= h

-----------------------------------------------------------------------------
(* Behaviours *)

(* The dataset that the commands are given from then on.                   *)
TakeDataset ==
    /\ truth = <<>> /\ truth' \in Truths
    /\ results' = <<>> /\ report' = NoReport /\ backfilled' = {}
    /\ UNCHANGED <<titles, gone, chunked, vectors, edits>>

(* A query finds some of what is there, in some order.                     *)
Evaluate ==
    /\ \E n \in 0..TopK : \E found \in [1..n -> Items \ gone] :
        /\ \A j, h \in 1..n : found[j] = found[h] => j = h
        /\ results' = found
    /\ report' = NoReport
    /\ UNCHANGED <<titles, gone, chunked, vectors, truth, backfilled, edits>>

Edited ==
    /\ edits < MaxEdits /\ edits' = edits + 1
    /\ results' = <<>> /\ report' = NoReport /\ backfilled' = {}

Retitle ==
    /\ Edited
    /\ \/ \E i \in ItemTexts, t \in FileTitles : titles' = [titles EXCEPT ![i] = t]
       \/ \E n \in ChannelNames :
            titles' = [i \in Items |-> IF i \in ItemMessages THEN n ELSE titles[i]]
    /\ UNCHANGED <<gone, chunked, vectors, truth>>

DeleteMessage ==
    /\ Edited
    /\ \E i \in ItemMessages \ gone : gone' = gone \union {i}
    /\ UNCHANGED <<titles, chunked, vectors, truth>>

(* A text extracted anew has other chunks, none of them embedded.          *)
Reextract ==
    /\ Edited
    /\ \E i \in ItemTexts, some \in BOOLEAN :
        /\ chunked' = IF some THEN chunked \union {i} ELSE chunked \ {i}
        /\ vectors' = {v \in vectors : v[1] # i}
    /\ UNCHANGED <<titles, gone, truth>>

BenchmarksInit ==
    /\ titles = [i \in Items |-> IF i \in ItemMessages THEN Untitled
                                ELSE CHOOSE t \in FileTitles \ Colons : TRUE]
    /\ gone = {} /\ chunked = ItemTexts /\ vectors = {} /\ truth = <<>>
    /\ results = <<>> /\ report = NoReport /\ backfilled = {} /\ edits = 0

BenchmarksNext ==
    \/ \E model \in ModelNames : DatasetReport(model) \/ BackfillTargets(model)
    \/ TakeDataset \/ Evaluate \/ Retitle \/ DeleteMessage \/ Reextract

BenchmarksSpec == BenchmarksInit /\ [][BenchmarksNext]_benchmarkVars

-----------------------------------------------------------------------------
(* Properties *)

BenchmarksTypeOK ==
    /\ gone \subseteq ItemMessages /\ chunked \subseteq ItemTexts
    /\ vectors \subseteq Items \X ModelNames /\ report.covered <= Cardinality(DOMAIN truth)

(* No search scores better than the ideal one unless a label names two     *)
(* rows that it found or, where a score is by labels, a row answers to the *)
(* same label twice, as a message of a channel with its id for a name; and *)
(* a score by labels never takes for a hit among the first three what a    *)
(* score by rows does not (evaluate_corpus_search,                         *)
(* evaluate_message_search).                                               *)
ScoresStand ==
    /\ (\A l \in DOMAIN truth : Cardinality({j \in DOMAIN results : l \in RowLabels(results[j])}) <= 1)
        => /\ Dcg(TopOf(RowRelevances)) <= Ideal
           /\ (\A j \in DOMAIN results : TitleLabel(results[j]) # OwnLabel(results[j]))
                => Dcg(TopOf(LabelRelevances)) <= Ideal
    /\ FirstHit(LabelRelevances, 3) > 0
        => FirstHit(RowRelevances, 3) \in 1..FirstHit(LabelRelevances, 3)

(* The first row that counts as a hit is where the diagnostics rank the    *)
(* best placed label with a weight, when every label names something       *)
(* (benchmark_profile_diagnostics).                                        *)
DiagnosticsAgree ==
    Unresolved = {} =>
    LET ranks == {TargetRank(l) : l \in {k \in DOMAIN truth : truth[k] > 0}} \ {0}
        first == FirstHit(RowRelevances, Len(results))
    IN  IF ranks = {} THEN first = 0 ELSE first \in ranks /\ \A r \in ranks : first <= r

(* A report that finds every label right after their targets were embedded *)
(* for its model finds them covered, but for deleted messages and texts    *)
(* without chunks (backfill_benchmark_dataset_embeddings); and what passes *)
(* without warnings is one embedded row for each label.                    *)
CoverageStands ==
    /\ report.model \in backfilled /\ report.status # "fail"
        => \A l \in DOMAIN truth : \/ Covered(report.picked[l], report.model)
                                   \/ report.picked[l] \notin Embeddable
    /\ report.status = "pass" =>
        \A l \in DOMAIN truth : \E i \in Items :
            Resolve(l) = {i} /\ Covered(i, report.model)

BenchmarksStand == ScoresStand /\ DiagnosticsAgree /\ CoverageStands
=============================================================================
