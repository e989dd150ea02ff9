---------------------------- MODULE FindReplace ----------------------------
(***************************************************************************)
(* The matches of an incremental search (majestic-core/search.rs) and      *)
(* replacing all of them (mj/tui.rs replace_all).  A range is a pair of    *)
(* bytes; Fold gives the small letter of a large one.                      *)
(***************************************************************************)
EXTENDS TextBytes

CONSTANT Fold       \* character -> the character it is found as

FoldText(t) == [i \in DOMAIN t |-> Fold[t[i]]]

\* A query of small letters only finds both, any other one what it says.
Found(query, window) ==
    IF FoldText(query) = query THEN FoldText(window) = query ELSE window = query

WindowAt(t, i, query) == SubSeq(t, i + 1, i + Len(query))

Places(t, query, Holds(_)) == {i \in 0..Len(t) - Len(query) : Holds(WindowAt(t, i, query))}

\* The first of the places, then the first one that is behind it, and so on.
RECURSIVE FromTheLeft(_, _)
FromTheLeft(places, length) ==
    IF places = {} THEN <<>>
    ELSE <<Min(places)>>
         \o FromTheLeft({i \in places : i >= Min(places) + length}, length)

\* An empty query matches nothing.
Matches(t, query) ==
    LET holds(w) == Found(query, w)
    IN  IF query = <<>> THEN <<>> ELSE FromTheLeft(Places(t, query, holds), Len(query))

Ranges(t, query, starts) ==
    [k \in DOMAIN starts |-> <<ByteOf(t, starts[k]), ByteOf(t, starts[k] + Len(query))>>]

\* The first match at or after a byte, else the first of all; 0 for none.
ActiveMatch(ranges, from) ==
    LET later == {k \in DOMAIN ranges : ranges[k][1] >= from}
    IN  IF ranges = <<>> THEN 0 ELSE IF later = {} THEN 1 ELSE Min(later)

NextMatch(n, active) == (active % n) + 1
PrevMatch(n, active) == ((active + n - 2) % n) + 1

\* Mutant of ReplaceRanges: the ranges are replaced from the front.
ReplaceFromFront(t, ranges, new) ==
    FoldLeft(LAMBDA u, r : Splice(u, r[1], Smaller(r[2], Bytes(u)), new), t, ranges)

\* Ranges found in one text, replaced from the back so that the others stay where they are.
ReplaceRanges(t, ranges, new) ==
    FoldLeft(LAMBDA u, r : Splice(u, r[1], r[2], new), t, Reverse(ranges))

\* Replace-all tells small and large letters apart.
ReplaceEverywhere(t, query, new) ==
    LET holds(w) == w = query
    IN  IF query = <<>> THEN t
        ELSE ReplaceRanges(t, Ranges(t, query, FromTheLeft(Places(t, query, holds), Len(query))),
                           new)

-----------------------------------------------------------------------------
\* Rewriting a text from the left in one pass.
RECURSIVE Rewritten(_, _, _)
Rewritten(t, query, new) ==
    IF Len(t) < Len(query) THEN t
    ELSE IF WindowAt(t, 0, query) = query
         THEN new \o Rewritten(SubSeq(t, Len(query) + 1, Len(t)), query, new)
         ELSE <<Head(t)>> \o Rewritten(Tail(t), query, new)

\* Matches are places where the query is found, one behind the other, and every place
\* where it is found touches one; the active match is never before the origin while one
\* is behind it, and going on or back through them comes around to each; replacing
\* all is the one rewriting of the text.
SearchesAgree(t, query, new) ==
    LET starts == Matches(t, query)
        ranges == Ranges(t, query, starts)
        places == {i \in 0..Len(t) - Len(query) : Found(query, WindowAt(t, i, query))}
    IN  query # <<>> =>
        /\ \A k \in DOMAIN starts : starts[k] \in places
        /\ \A k \in 1..Len(starts) - 1 : ranges[k][2] <= ranges[k + 1][1]
        /\ \A i \in places : \E k \in DOMAIN starts : i - starts[k] \in 0..Len(query) - 1
        /\ \A from \in Boundaries(t) :
              LET a == ActiveMatch(ranges, from)
              IN  (\E k \in DOMAIN ranges : ranges[k][1] >= from) =>
                      /\ ranges[a][1] >= from
                      /\ \A k \in 1..a - 1 : ranges[k][1] < from
        /\ \A k \in DOMAIN starts :
              /\ NextMatch(Len(starts), PrevMatch(Len(starts), k)) = k
              /\ PrevMatch(Len(starts), NextMatch(Len(starts), k)) = k
        /\ ReplaceEverywhere(t, query, new) = Rewritten(t, query, new)
=============================================================================
