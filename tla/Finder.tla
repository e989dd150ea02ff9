------------------------------ MODULE Finder ------------------------------
(***************************************************************************)
(* The fuzzy finder and the command palette (majestic-core/finder.rs,      *)
(* fuzzy.rs): a query that filters and ranks a fixed list of labels, and   *)
(* the selection in what is left.  A character is a letter, "/" for the    *)
(* ones that separate words.                                               *)
(***************************************************************************)
EXTENDS Integers, Sequences, FiniteSets

CONSTANTS
    Labels,         \* the items, in their order
    QueryChars,     \* bound: the characters typed
    MaxQuery        \* bound: the length of the query

ASSUME FinderAssumption ==
    Labels \in Seq(Seq(STRING)) /\ QueryChars \subseteq STRING /\ MaxQuery \in Nat

VARIABLES
    query,
    filtered,       \* indices of Labels, the best first
    chosen          \* the selected row, from 0

finderVars == <<query, filtered, chosen>>

\* Greedy: each character of the query takes its first place in the label; a run
\* and the beginning of a word score more.  NoMatch when some are left.
NoMatch == -1

\* A character of the label is taken if it is the next one that the query asks for.
IsHit(q, label, scan, i) == scan.matched < Len(q) /\ label[i] = q[scan.matched + 1]

ScanChar(q, label, scan, i) ==
    IF IsHit(q, label, scan, i)
    THEN [matched |-> scan.matched + 1,
          score |-> scan.score + 1 + (IF scan.run THEN 10 ELSE 0)
                    + (IF i = 1 \/ label[i - 1] = "/" THEN 5 ELSE 0),
          run |-> TRUE]
    ELSE [scan EXCEPT !.run = FALSE]

NothingScanned == [matched |-> 0, score |-> 0, run |-> FALSE]

FuzzyMatch(q, label) ==
    LET Scan[i \in 0..Len(label)] ==
            IF i = 0 THEN NothingScanned ELSE ScanChar(q, label, Scan[i - 1], i)
        end == Scan[Len(label)]
    IN  IF end.matched = Len(q) THEN end.score ELSE NoMatch

Score(q, i) == FuzzyMatch(q, Labels[i])

\* The better score, and with equal scores the earlier item.
RanksBefore(q, i, j) ==
    \/ Score(q, i) > Score(q, j)
    \/ Score(q, i) = Score(q, j) /\ i < j

FuzzyRank(q) ==
    LET matching == {i \in DOMAIN Labels : Score(q, i) # NoMatch}
        place(i) == 1 + Cardinality({j \in matching : RanksBefore(q, j, i)})
    IN  [k \in 1..Cardinality(matching) |->
            CHOOSE i \in matching : place(i) = k]

Refilter(q) == query' = q /\ filtered' = FuzzyRank(q) /\ chosen' = 0

FinderInit == query = <<>> /\ filtered = FuzzyRank(<<>>) /\ chosen = 0

FinderPush == Len(query) < MaxQuery /\ \E c \in QueryChars : Refilter(Append(query, c))

FinderBackspace ==
    Refilter(IF query = <<>> THEN query ELSE SubSeq(query, 1, Len(query) - 1))

FinderUp ==
    /\ chosen' = IF chosen = 0 THEN 0 ELSE chosen - 1
    /\ UNCHANGED <<query, filtered>>

FinderDown ==
    /\ chosen' = IF chosen + 1 < Len(filtered) THEN chosen + 1 ELSE chosen
    /\ UNCHANGED <<query, filtered>>

FinderNext == FinderPush \/ FinderBackspace \/ FinderUp \/ FinderDown

\* The first row drawn, for the selection to be the last one or above.
ScrollStart(height) == IF height = 0 \/ chosen < height THEN 0 ELSE chosen + 1 - height

-----------------------------------------------------------------------------
\* q is what is left of the label when some characters are taken out.
IsWithin(q, label) ==
    \E places \in SUBSET DOMAIN label :
        /\ Cardinality(places) = Len(q)
        /\ \A p \in places : label[p] = q[Cardinality({r \in places : r <= p})]

\* The list is exactly the items the query is within, each once, no worse one before
\* a better one; and Enter takes a row that is drawn, unless there is none.
FinderListsTheMatches ==
    /\ {filtered[k] : k \in DOMAIN filtered} = {i \in DOMAIN Labels : IsWithin(query, Labels[i])}
    /\ \A j, k \in DOMAIN filtered : j < k =>
           /\ filtered[j] # filtered[k]
           /\ Score(query, filtered[j]) >= Score(query, filtered[k])
    /\ IF filtered = <<>> THEN chosen = 0
       ELSE /\ chosen < Len(filtered)
            /\ \A height \in 1..3 : chosen \in ScrollStart(height)..ScrollStart(height) + height - 1
=============================================================================
