------------------------------ MODULE Hashline ------------------------------
(***************************************************************************)
(* Line tags (stratum/hashline.rs) and the edits that cite them            *)
(* (majestic-core/hashline.rs).  A tag is the beginning of a digest of the *)
(* line's content; tags of different lines are made longer until they      *)
(* differ.  An edit names a line by number and tag; Resolve (TextBytes)    *)
(* has the bytes it stands for.                                            *)
(***************************************************************************)
EXTENDS TextBytes

CONSTANTS
    Digest(_),          \* the digest of a content, a sequence
    DefaultTagWidth,
    MaxTagWidth

ASSUME TagAssumption == DefaultTagWidth \in 1..MaxTagWidth

CR == "cr"
StripLineEnding(line) ==
    LET s == IF line # <<>> /\ Last(line) = NL THEN Front(line) ELSE line
    IN  IF s # <<>> /\ Last(s) = CR THEN Front(s) ELSE s

LineTag(line, width) ==
    SubSeq(Digest(StripLineEnding(line)), 1, Larger(1, Smaller(width, MaxTagWidth)))
TagMatches(line, tag) == LineTag(line, Len(tag)) = tag

\* One round: a group of lines with one tag that are not all the same gets longer ones.
Widened(lines, tags) ==
    LET grows(i) == /\ Len(tags[i]) < MaxTagWidth
                    /\ \E j \in DOMAIN tags : tags[j] = tags[i] /\ StripLineEnding(lines[j]) # StripLineEnding(lines[i])
    IN  [i \in DOMAIN tags |-> IF grows(i) THEN LineTag(lines[i], Len(tags[i]) + 1) ELSE tags[i]]

RECURSIVE WidenAll(_, _)
WidenAll(lines, tags) == IF Widened(lines, tags) = tags THEN tags ELSE WidenAll(lines, Widened(lines, tags))
LineTags(lines) == WidenAll(lines, [i \in DOMAIN lines |-> LineTag(lines[i], DefaultTagWidth)])

\* What an agent reads: each line with its number, from 0 here, and its tag.
TaggedRead(t) ==
    [r \in DOMAIN LinesOf(t) |-> [line |-> r - 1, tag |-> LineTags(LinesOf(t))[r], content |-> LinesOf(t)[r]]]

-----------------------------------------------------------------------------
(* Edits: replace, insert after or delete a cited line.                    *)

StaleOrOutOfRange(t, edit) ==
    \/ edit.line >= Len(LineStarts(t))
    \/ ~TagMatches(LinesOf(t)[edit.line + 1], edit.tag)

\* Mutant of ApplyEdits: the edits are applied in the order given.
ApplyInOrder(t, edits) ==
    IF \E i \in DOMAIN edits : StaleOrOutOfRange(t, edits[i]) THEN <<"rejected">>
    ELSE FoldLeft(LAMBDA u, s : Splice(u, s.lo, Smaller(s.hi, Bytes(u)), s.new), t, [i \in DOMAIN edits |-> Resolve(t, edits[i])])

\* All of them or, when one is stale, none: resolved in the text that is there, then applied
\* from the back; those of one start in the order given.
ApplyEdits(t, edits) ==
    LET number == [i \in DOMAIN edits |-> [at |-> i, s |-> Resolve(t, edits[i])]]
        sorted == SortSeq(number, LAMBDA a, b : a.s.lo > b.s.lo \/ (a.s.lo = b.s.lo /\ a.at < b.at))
    IN  IF \E i \in DOMAIN edits : StaleOrOutOfRange(t, edits[i]) THEN <<"rejected">>
        ELSE FoldLeft(LAMBDA u, e : Splice(u, e.s.lo, e.s.hi, e.s.new), t, sorted)

-----------------------------------------------------------------------------
(* What is expected of them.                                               *)

\* The text of a list of lines.
RECURSIVE TextOf(_)
TextOf(lines) == IF Len(lines) = 1 THEN lines[1] ELSE lines[1] \o <<NL>> \o TextOf(Tail(lines))

\* The lines after an edit, and whether they can be the lines of a text.
EditedLines(lines, edit) ==
    CASE edit.kind = "replace" -> [lines EXCEPT ![edit.line + 1] = edit.text]
      [] edit.kind = "insert" -> InsertAt(lines, edit.line + 2, edit.text)
      [] edit.kind = "delete" -> IF Len(lines) = 1 THEN <<<<>>>> ELSE RemoveAt(lines, edit.line + 1)

\* Lines of different contents have different tags unless their whole digests agree; and two
\* fresh edits whose byte ranges are apart do to the text what they do to its lines, the later
\* line first, in whatever order they are given.  (An insertion after a line and an edit of the
\* next start at one byte, and deleting the last two lines takes one newline twice: those
\* are not applied as cited.)
TagsAndEditsAgree(t, kinds, news) ==
    LET read == TaggedRead(t)
        edits == [kind : kinds, line : 0..Len(read) - 1, text : news]
        cite(e) == [kind |-> e.kind, line |-> e.line, text |-> e.text, tag |-> read[e.line + 1].tag]
    IN  /\ \A i, j \in DOMAIN read :
              (read[i].tag = read[j].tag /\ StripLineEnding(read[i].content) # StripLineEnding(read[j].content)) =>
                  Len(read[i].tag) = MaxTagWidth
        /\ \A a, b \in edits :
              (/\ a.line > b.line /\ Resolve(t, cite(a)).lo >= Resolve(t, cite(b)).hi
               /\ Resolve(t, cite(a)).lo > Resolve(t, cite(b)).lo) =>
                  /\ ApplyEdits(t, <<cite(a), cite(b)>>) = ApplyEdits(t, <<cite(b), cite(a)>>)
                  /\ ApplyEdits(t, <<cite(b), cite(a)>>) = TextOf(EditedLines(EditedLines(LinesOf(t), a), b))
=============================================================================
