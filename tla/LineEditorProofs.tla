-------------------------- MODULE LineEditorProofs --------------------------
(***************************************************************************)
(* The line editor loses nothing without saying so, and its moves and      *)
(* copies keep every line, for all files, inputs, addresses and patterns,  *)
(* and commands without number.                                            *)
(***************************************************************************)
EXTENDS LineEditor, FiniteSetTheorems, SequenceTheorems, WellFoundedInduction, TLAPS

-----------------------------------------------------------------------------
(* Numbers.                                                                *)

\* A set of numbers has a least one.
LEMMA LeastIndex ==
  ASSUME NEW S \in SUBSET Nat, S # {}
  PROVE  \E i \in S : \A j \in S : i <= j
<1>1. PICK x \in S : \A y \in S : ~(<<y, x>> \in OpToRel(<, Nat))
  BY NatLessThanWellFounded, WFMin, Zenon
<1>2. ASSUME NEW y \in S
      PROVE  x <= y
  <2>1. ~(<<y, x>> \in OpToRel(<, Nat))
    BY <1>1
  <2>2. ~(y < x)
    <3>1. SUFFICES ASSUME y < x
                   PROVE  <<y, x>> \in OpToRel(<, Nat)
      BY <2>1
    <3> QED
      BY <3>1 DEF OpToRel
  <2> QED
    BY <2>2
<1> QED
  BY <1>2

\* A set of numbers up to n has a greatest one.
LEMMA GreatestIndex ==
  ASSUME NEW n \in Nat, NEW S \in SUBSET (0 .. n), S # {}
  PROVE  \E i \in S : \A j \in S : i >= j
<1> DEFINE T == {n - i : i \in S}
<1>1. T \in SUBSET Nat
  OBVIOUS
<1>a. T # {}
  OBVIOUS
<1>2. PICK t \in T : \A u \in T : t <= u
  BY <1>1, <1>a, LeastIndex
<1>3. PICK i \in S : t = n - i
  OBVIOUS
<1>4. ASSUME NEW j \in S
      PROVE  i >= j
  <2>1. n - j \in T /\ n - i <= n - j
    BY <1>2, <1>3
  <2> QED
    BY <2>1
<1> QED
  BY <1>4

\* The maximum of a set of numbers is one of them.
LEMMA GreatestIsThere ==
  ASSUME NEW n \in Nat, NEW S \in SUBSET (0 .. n), S # {}
  PROVE  Max(S) \in S
<1>1. \E i \in S : \A j \in S : i >= j
  BY GreatestIndex
<1> QED
  BY <1>1, Zenon DEF Max

\* A set of numbers with 0 that has the successor of each is all of them: induction, as
\* a statement about sets, which the provers can instantiate.
LEMMA Counting ==
  ASSUME NEW S, 0 \in S, \A n \in Nat : n \in S => n + 1 \in S
  PROVE  \A n \in Nat : n \in S
<1> SUFFICES ASSUME NEW m \in Nat, m \notin S
             PROVE  FALSE
  OBVIOUS
<1> DEFINE T == {n \in Nat : n \notin S}
<1>1. PICK n \in T : \A j \in T : n <= j
  BY LeastIndex
<1>2. n # 0 /\ n - 1 \in Nat
  BY <1>1
<1>3. n - 1 \in S
  BY <1>1, <1>2
<1>4. (n - 1) + 1 \in S
  BY <1>2, <1>3
<1> QED
  BY <1>1, <1>4

-----------------------------------------------------------------------------
(* Lists of lines, and what splicing makes of them.                        *)

\* A sequence of whatever elements is a list of lines.
LEMMA ListOf == \A S : \A l \in Seq(S) : IsLines(l)
<1> SUFFICES ASSUME NEW S, NEW l \in Seq(S)
             PROVE  IsLines(l)
  OBVIOUS
<1>1. \A i \in 1 .. Len(l) : l[i] \in ToSet(l)
  BY DEF ToSet
<1>2. l = [i \in 1 .. Len(l) |-> l[i]] /\ Len(l) \in Nat
  OBVIOUS
<1> QED
  BY <1>1, <1>2 DEF IsLines

\* The empty buffer is a list.
LEMMA NoLines == IsLines(<<>>)
  BY ListOf, EmptySeq

\* A list has a length and its lines are numbered from 1.
LEMMA ListsHaveLengths == \A l : IsLines(l) => Len(l) \in Nat /\ DOMAIN l = 1 .. Len(l)
  BY LenProperties DEF IsLines

\* A part of a list is one, of the length asked for.
LEMMA PartOfLines ==
  ASSUME NEW l, IsLines(l), NEW m \in 1 .. Len(l) + 1, NEW n \in m - 1 .. Len(l)
  PROVE  IsLines(SubSeq(l, m, n)) /\ Len(SubSeq(l, m, n)) = n - m + 1
<1>0. PICK S : l \in Seq(S)
  BY DEF IsLines
<1>1. Len(l) \in Nat /\ m \in Int /\ n \in Int /\ m >= 1 /\ n <= Len(l)
  BY <1>0
<1>2. \A i \in m .. n : l[i] \in S
  BY <1>0, <1>1
<1>3. SubSeq(l, m, n) \in Seq(S)
  BY <1>1, <1>2, SubSeqProperties
<1>4. Len(SubSeq(l, m, n)) = IF m <= n THEN n - m + 1 ELSE 0
  BY <1>1, <1>2, SubSeqProperties
<1>5. n - m + 1 = IF m <= n THEN n - m + 1 ELSE 0
  BY <1>1
<1> QED
  BY <1>3, <1>4, <1>5, ListOf

\* All of a list is the list.
LEMMA WholeOfLines ==
  ASSUME NEW l, IsLines(l)
  PROVE  SubSeq(l, 1, Len(l)) = l
<1>1. PICK S : l \in Seq(S)
  BY DEF IsLines
<1> QED
  BY <1>1

\* What SpliceLines puts together, line by line.
Spliced(w, S, l, at, count, new) ==
  /\ w \in Seq(S) /\ Len(w) = Len(l) - count + Len(new)
  /\ \A i \in 1 .. Len(l) - count + Len(new) :
        w[i] = IF i <= at THEN l[i]
               ELSE IF i <= at + Len(new) THEN new[i - at]
               ELSE l[i - Len(new) + count]

\* Splicing gives the lines before, the new ones, and the lines after.
LEMMA SpliceIsSpliced ==
  ASSUME NEW S, NEW l \in Seq(S), NEW new \in Seq(S), NEW at \in Nat, NEW count \in Nat, at + count <= Len(l)
  PROVE  Spliced(SpliceLines(l, at, count, new), S, l, at, count, new)
<1>1. PICK n \in Nat, k \in Nat : n = Len(l) /\ k = Len(new)
  BY LenProperties
<1>2. Smaller(at + count, Len(l)) + 1 = at + count + 1
  BY <1>1 DEF Smaller
<1> DEFINE before == SubSeq(l, 1, at)
           behind == SubSeq(l, at + count + 1, n)
           first == before \o new
<1>3. before \in Seq(S) /\ Len(before) = at /\ \A i \in 1 .. at : before[i] = l[i]
  <2>1. \A i \in 1 .. at : l[i] \in S
    BY <1>1
  <2>2. \A i \in 1 .. at - 1 + 1 : before[i] = l[1 + i - 1]
    BY <2>1, SubSeqProperties
  <2>3. before \in Seq(S)
    BY <2>1, SubSeqProperties
  <2>4. Len(before) = IF 1 <= at THEN at - 1 + 1 ELSE 0
    BY <2>1, SubSeqProperties
  <2> HIDE DEF before
  <2>5. Len(before) = at
    BY <2>4
  <2> QED
    BY <2>2, <2>3, <2>5
<1>4. behind \in Seq(S) /\ Len(behind) = n - at - count /\ \A i \in 1 .. n - at - count : behind[i] = l[at + count + i]
  <2>1. \A i \in at + count + 1 .. n : l[i] \in S
    BY <1>1
  <2>2. \A i \in 1 .. n - (at + count + 1) + 1 : behind[i] = l[(at + count + 1) + i - 1]
    BY <1>1, <2>1, SubSeqProperties
  <2>3. behind \in Seq(S)
    BY <1>1, <2>1, SubSeqProperties
  <2>4. Len(behind) = IF at + count + 1 <= n THEN n - (at + count + 1) + 1 ELSE 0
    BY <1>1, <2>1, SubSeqProperties
  <2> HIDE DEF behind
  <2>5. Len(behind) = n - at - count
    BY <1>1, <2>4
  <2>6. \A i \in 1 .. n - at - count : i \in 1 .. n - (at + count + 1) + 1 /\ (at + count + 1) + i - 1 = at + count + i
    BY <1>1
  <2> QED
    BY <2>2, <2>3, <2>5, <2>6
<1>5. SpliceLines(l, at, count, new) = first \o behind
  BY <1>1, <1>2 DEF SpliceLines
<1> HIDE DEF before, behind
<1>6. /\ first \in Seq(S) /\ Len(first) = at + k
      /\ \A i \in 1 .. at + k : first[i] = IF i <= at THEN before[i] ELSE new[i - at]
  BY <1>1, <1>3, ConcatProperties
<1> HIDE DEF first
<1>7. /\ first \o behind \in Seq(S) /\ Len(first \o behind) = (at + k) + (n - at - count)
      /\ \A i \in 1 .. (at + k) + (n - at - count) :
            (first \o behind)[i] = IF i <= at + k THEN first[i] ELSE behind[i - (at + k)]
  <2>1. /\ first \o behind \in Seq(S) /\ Len(first \o behind) = Len(first) + Len(behind)
        /\ \A i \in 1 .. Len(first) + Len(behind) :
              (first \o behind)[i] = IF i <= Len(first) THEN first[i] ELSE behind[i - Len(first)]
    BY <1>4, <1>6, ConcatProperties
  <2>2. Len(first) = at + k /\ Len(behind) = n - at - count
    BY <1>4, <1>6
  <2> QED
    BY <2>1, <2>2
<1>8. (at + k) + (n - at - count) = n - count + k
  BY <1>1
<1>9. \A i \in 1 .. n - count + k :
         (first \o behind)[i] = IF i <= at THEN l[i] ELSE IF i <= at + k THEN new[i - at] ELSE l[i - k + count]
  <2> TAKE i \in 1 .. n - count + k
  <2>1. (first \o behind)[i] = IF i <= at + k THEN first[i] ELSE behind[i - (at + k)]
    BY <1>7, <1>8
  <2>2. CASE i <= at
    <3>1. i \in 1 .. at + k /\ i \in 1 .. at
      BY <1>1, <2>2
    <3> QED
      BY <1>3, <1>6, <2>1, <2>2, <3>1
  <2>3. CASE ~(i <= at) /\ i <= at + k
    <3>1. i \in 1 .. at + k
      BY <1>1, <2>3
    <3> QED
      BY <1>6, <2>1, <2>3, <3>1
  <2>4. CASE ~(i <= at) /\ ~(i <= at + k)
    <3>1. i - (at + k) \in 1 .. n - at - count /\ at + count + (i - (at + k)) = i - k + count
      BY <1>1, <2>4
    <3> QED
      BY <1>4, <2>1, <2>4, <3>1
  <2> QED
    BY <2>2, <2>3, <2>4
<1> QED
  BY <1>1, <1>5, <1>7, <1>8, <1>9 DEF Spliced

\* Splicing lists gives a list, whose length is what it is told to be.
LEMMA SpliceOfLines ==
  ASSUME NEW l, IsLines(l), NEW new, IsLines(new), NEW at \in Nat, NEW count \in Nat, at + count <= Len(l)
  PROVE  /\ IsLines(SpliceLines(l, at, count, new))
         /\ Len(SpliceLines(l, at, count, new)) = Len(l) - count + Len(new)
<1> DEFINE S == ToSet(l) \cup ToSet(new)
<1>1. l \in Seq(S) /\ new \in Seq(S)
  <2>1. ToSet(l) \subseteq S /\ ToSet(new) \subseteq S
    OBVIOUS
  <2> HIDE DEF S
  <2> QED
    BY <2>1, SeqMonotonic DEF IsLines
<1> HIDE DEF S
<1>2. Spliced(SpliceLines(l, at, count, new), S, l, at, count, new)
  BY <1>1, SpliceIsSpliced
<1>3. SpliceLines(l, at, count, new) \in Seq(S) /\ Len(SpliceLines(l, at, count, new)) = Len(l) - count + Len(new)
  BY <1>2 DEF Spliced
<1> QED
  BY <1>3, ListOf

-----------------------------------------------------------------------------
(* The commands.                                                           *)

\* The fields of the editor (ed.rs Ed).
Fields == {"lines", "current", "modified", "undo", "marks", "pattern", "name", "warned", "quit"}

\* An editor with a buffer of lines, a current line that is one of them or 0, and an undo
\* buffer that is empty or such a pair.
EdSound(e) ==
  /\ DOMAIN e = Fields /\ e = [x \in Fields |-> e[x]]
  /\ IsLines(e.lines) /\ e.current \in 0 .. Len(e.lines) /\ e.modified \in BOOLEAN
  /\ e.undo = <<>> \/ (IsLines(e.undo[1]) /\ e.undo[2] \in Nat)

\* The lines are in the buffer, or u brings them back.
HasLines(e, lines) == e.lines = lines \/ (e.undo # <<>> /\ e.undo[1] = lines)

\* What a command leaves behind: a sound editor that has the old lines, whose buffer, unless
\* it is called modified, is the one there was; it has not warned, nor been left.
Keeps(e, f) ==
  /\ EdSound(f) /\ (f.modified \/ (~e.modified /\ f.lines = e.lines))
  /\ HasLines(f, e.lines) /\ (f.warned => e.warned) /\ f.quit = e.quit

\* A command line: a warning stands only if nothing was changed.
Obeys(e, f) == Keeps(e, f) /\ (f.warned => f.lines = e.lines /\ f.modified = e.modified)

\* The inductive invariant of the line editor: what is not called modified is what was
\* read or written last, which its file holds unless it was written over, and a warning
\* is about the lines that are there.
EdInv ==
  /\ EdSound(ed) /\ (ed.modified \/ ed.lines = edSaved.lines)
  /\ edSaved.file \in DOMAIN edFiles /\ (edSpoiled \/ edFiles[edSaved.file] = edSaved.lines)
  /\ ed.warned => ed.modified /\ edWarned = <<ed.lines>>
  /\ \A f \in DOMAIN edFiles : IsLines(edFiles[f])

\* Doing nothing keeps.
LEMMA SoundKeeps == \A e : EdSound(e) => Keeps(e, e)
  BY DEF Keeps, EdSound, HasLines

\* Two commands that keep, one after the other, if only one of them changes lines.
LEMMA KeepsOn ==
  ASSUME NEW e, NEW f, NEW g, Keeps(e, f), Keeps(f, g),
         f.lines = e.lines \/ (g.lines = f.lines /\ g.undo = f.undo)
  PROVE  Keeps(e, g)
<1>1. HasLines(g, e.lines)
  BY DEF Keeps, HasLines
<1> QED
  BY <1>1 DEF Keeps

\* Moving the current line within the buffer keeps.
LEMMA CurrentKeeps ==
  ASSUME NEW e, EdSound(e), NEW i \in 0 .. Len(e.lines)
  PROVE  Keeps(e, [e EXCEPT !.current = i])
  BY DEF Keeps, EdSound, Fields, HasLines

\* So does forgetting the warning.
LEMMA ForgettingKeeps ==
  ASSUME NEW e, EdSound(e)
  PROVE  LET f == [e EXCEPT !.warned = FALSE]
         IN  Keeps(e, f) /\ f.lines = e.lines /\ f.modified = e.modified /\ ~f.warned
  BY DEF Keeps, EdSound, Fields, HasLines

\* And so do the pattern, the name and the marks.
LEMMA OthersKeep ==
  ASSUME NEW e, EdSound(e), NEW x
  PROVE  /\ Keeps(e, [e EXCEPT !.pattern = x]) /\ Keeps(e, [e EXCEPT !.name = x])
         /\ Keeps(e, [e EXCEPT !.marks = x])
  BY DEF Keeps, EdSound, Fields, HasLines

\* And an undo buffer that is a pair.
LEMMA UndoKeeps ==
  ASSUME NEW e, EdSound(e), NEW u, IsLines(u[1]), u[2] \in Nat
  PROVE  Keeps(e, [e EXCEPT !.undo = u])
  BY DEF Keeps, EdSound, Fields, HasLines

\* Taking the checkpoint before a change changes nothing yet.
LEMMA CheckpointKeeps ==
  ASSUME NEW e, EdSound(e)
  PROVE  LET f == CheckpointLines(e)
         IN  Keeps(e, f) /\ f.lines = e.lines /\ f.undo # <<>> /\ f.undo[1] = e.lines
<1>1. PICK u : u = <<e.lines, e.current>>
  OBVIOUS
<1>2. u[1] = e.lines /\ u[2] = e.current
  BY <1>1
<1>3. IsLines(u[1]) /\ u[2] \in Nat
  BY <1>2, ListsHaveLengths DEF EdSound
<1>4. CheckpointLines(e) = [e EXCEPT !.undo = u]
  BY <1>1 DEF CheckpointLines
<1>5. u # <<>> /\ [e EXCEPT !.undo = u].lines = e.lines /\ [e EXCEPT !.undo = u].undo = u
  BY <1>1 DEF EdSound, Fields
<1> QED
  BY <1>2, <1>3, <1>4, <1>5, UndoKeeps

\* After a checkpoint, new lines keep; they are called modified.
LEMMA LinesKeep ==
  ASSUME NEW e, EdSound(e), e.undo # <<>>, e.undo[1] = e.lines,
         NEW lines, IsLines(lines), NEW i \in 0 .. Len(lines)
  PROVE  Keeps(e, [e EXCEPT !.lines = lines, !.current = i, !.modified = TRUE])
  BY DEF Keeps, EdSound, Fields, HasLines

\* A change through modify leaves the new lines and calls them modified.
LEMMA ModifyKeeps ==
  ASSUME NEW e, EdSound(e), NEW lines, IsLines(lines), NEW i \in 0 .. Len(lines)
  PROVE  /\ Keeps(e, ModifyLines(e, lines, i))
         /\ ModifyLines(e, lines, i).lines = lines /\ ModifyLines(e, lines, i).current = i
<1> DEFINE f == CheckpointLines(e)
<1>1. Keeps(e, f) /\ f.lines = e.lines /\ f.undo # <<>> /\ f.undo[1] = e.lines
  BY CheckpointKeeps
<1>2. ModifyLines(e, lines, i) = [f EXCEPT !.lines = lines, !.current = i, !.modified = TRUE]
  BY DEF ModifyLines
<1>3. EdSound(f)
  BY <1>1 DEF Keeps
<1> HIDE DEF f
<1>4. Keeps(f, [f EXCEPT !.lines = lines, !.current = i, !.modified = TRUE])
  BY <1>1, <1>3, LinesKeep
<1>5. /\ [f EXCEPT !.lines = lines, !.current = i, !.modified = TRUE].lines = lines
      /\ [f EXCEPT !.lines = lines, !.current = i, !.modified = TRUE].current = i
  BY <1>3 DEF EdSound, Fields
<1> QED
  BY <1>1, <1>2, <1>4, <1>5, KeepsOn

\* Parsing a range may move the current line (after ";"), and nothing else.
LEMMA RangeKeeps ==
  ASSUME NEW e, EdSound(e), NEW r
  PROVE  LET p == ParseRange(e, r)
         IN  /\ Keeps(e, p.ed) /\ EdSound(p.ed) /\ p.ed.lines = e.lines /\ p.ed.modified = e.modified
             /\ [p.ed EXCEPT !.warned = FALSE].lines = e.lines /\ ~[p.ed EXCEPT !.warned = FALSE].warned
             /\ Keeps(e, [p.ed EXCEPT !.warned = FALSE]) /\ EdSound([p.ed EXCEPT !.warned = FALSE])
             /\ ~p.fails /\ p.start = <<>> => p.end = <<>>
<1> DEFINE first == AddressValue(e, r.first)
           at == IF r.sep = ";" /\ first # <<>> /\ InLines(e, AddressOr(first, 0)) THEN [e EXCEPT !.current = first[1]] ELSE e
           p == ParseRange(e, r)
<1>1. Keeps(e, at) /\ EdSound(at) /\ at.lines = e.lines /\ at.modified = e.modified
  <2>1. CASE r.sep = ";" /\ first # <<>> /\ InLines(e, AddressOr(first, 0))
    <3>1. first[1] \in 0 .. Len(e.lines)
      <4>1. Len(e.lines) \in Nat
        BY ListsHaveLengths DEF EdSound
      <4> HIDE DEF first
      <4>2. first[1] \in 1 .. Len(e.lines)
        BY <2>1 DEF InLines, AddressOr
      <4> QED
        BY <4>1, <4>2
    <3> HIDE DEF first
    <3>2. Keeps(e, [e EXCEPT !.current = first[1]])
      BY <3>1, CurrentKeeps
    <3>3. /\ [e EXCEPT !.current = first[1]].lines = e.lines
          /\ [e EXCEPT !.current = first[1]].modified = e.modified
      BY DEF EdSound, Fields
    <3> QED
      BY <2>1, <3>2, <3>3 DEF Keeps
  <2>2. CASE ~(r.sep = ";" /\ first # <<>> /\ InLines(e, AddressOr(first, 0)))
    BY <2>2, SoundKeeps
  <2> QED
    BY <2>1, <2>2
<1>2. /\ p.ed = e \/ p.ed = at
      /\ ~p.fails /\ p.start = <<>> => p.end = <<>>
  <2> DEFINE second == AddressValue(at, r.second)
             from == IF r.sep = ";" THEN at.current ELSE 1
  <2>1. p = IF AddressFails(e, r.first) THEN [ed |-> e, fails |-> TRUE, start |-> <<>>, end |-> <<>>]
            ELSE IF r.sep = "none" THEN [ed |-> e, fails |-> FALSE, start |-> first, end |-> first]
            ELSE [ed |-> at, fails |-> AddressFails(at, r.second),
                  start |-> <<AddressOr(first, from)>>, end |-> <<AddressOr(second, Len(e.lines))>>]
    BY DEF ParseRange, RangeFrom
  <2> HIDE DEF p, at, first
  <2>2. CASE AddressFails(e, r.first)
    BY <2>1, <2>2
  <2>3. CASE ~AddressFails(e, r.first) /\ r.sep = "none"
    BY <2>1, <2>3
  <2>4. CASE ~AddressFails(e, r.first) /\ r.sep # "none"
    BY <2>1, <2>4
  <2> QED
    BY <2>2, <2>3, <2>4
<1> HIDE DEF p, at
<1>3. Keeps(e, p.ed) /\ EdSound(p.ed) /\ p.ed.lines = e.lines /\ p.ed.modified = e.modified
  BY <1>1, <1>2, SoundKeeps
<1>4. /\ Keeps(p.ed, [p.ed EXCEPT !.warned = FALSE]) /\ [p.ed EXCEPT !.warned = FALSE].lines = p.ed.lines
      /\ ~[p.ed EXCEPT !.warned = FALSE].warned
  BY <1>3, ForgettingKeeps
<1>5. Keeps(e, [p.ed EXCEPT !.warned = FALSE]) /\ EdSound([p.ed EXCEPT !.warned = FALSE])
  BY <1>3, <1>4, KeepsOn DEF Keeps
<1> QED
  BY <1>2, <1>3, <1>4, <1>5 DEF p

\* A command line keeps if its command does; the warning stands if its addresses fail.
LEMMA LineObeys ==
  ASSUME NEW e, EdSound(e), NEW r, NEW g, Keeps([ParseRange(e, r).ed EXCEPT !.warned = FALSE], g)
  PROVE  Obeys(e, IF ParseRange(e, r).fails THEN ParseRange(e, r).ed ELSE g)
<1> DEFINE p == ParseRange(e, r)
           f == [p.ed EXCEPT !.warned = FALSE]
<1>1. /\ Keeps(e, p.ed) /\ p.ed.lines = e.lines /\ p.ed.modified = e.modified
      /\ Keeps(e, f) /\ f.lines = e.lines /\ ~f.warned
  BY RangeKeeps
<1>2. Keeps(f, g)
  OBVIOUS
<1> HIDE DEF p, f
<1>3. Keeps(e, g) /\ ~g.warned
  BY <1>1, <1>2, KeepsOn DEF Keeps
<1>4. Obeys(e, p.ed) /\ Obeys(e, g)
  BY <1>1, <1>3 DEF Obeys
<1> QED
  BY <1>4 DEF p

\* p, n and l.
LEMMA PrintKeeps ==
  ASSUME NEW e, EdSound(e), NEW s, NEW t
  PROVE  Keeps(e, PrintLines(e, s, t))
<1> DEFINE hi == AddressOr(t, e.current)
           lo == AddressOr(s, e.current)
<1>1. PrintLines(e, s, t) = IF RangeFits(e, lo, hi) THEN [e EXCEPT !.current = hi] ELSE e
  BY DEF PrintLines, OnLines, OnRange
<1>2. Len(e.lines) \in Nat
  BY ListsHaveLengths DEF EdSound
<1> HIDE DEF hi, lo
<1>3. RangeFits(e, lo, hi) => hi \in 0 .. Len(e.lines)
  BY <1>2 DEF RangeFits, InLines
<1> QED
  BY <1>1, <1>3, CurrentKeeps, SoundKeeps

\* a and i.
LEMMA InsertKeeps ==
  ASSUME NEW e, EdSound(e), NEW t, NEW before \in BOOLEAN, NEW input, IsLines(input)
  PROVE  Keeps(e, InsertLines(e, t, before, input))
<1> DEFINE target == AddressOr(t, e.current)
           at == IF before THEN Larger(target - 1, 0) ELSE target
<1>1. InsertLines(e, t, before, input) =
         IF ~IsDest(e, target) \/ input = <<>> THEN e
         ELSE ModifyLines(e, SpliceLines(e.lines, at, 0, input), at + Len(input))
  BY DEF InsertLines
<1>2. Len(e.lines) \in Nat /\ Len(input) \in Nat /\ IsLines(e.lines)
  BY ListsHaveLengths DEF EdSound
<1> HIDE DEF target
<1>3. ASSUME IsDest(e, target)
      PROVE  Keeps(e, ModifyLines(e, SpliceLines(e.lines, at, 0, input), at + Len(input)))
  <2>1. at \in Nat /\ at + 0 <= Len(e.lines)
    BY <1>2, <1>3 DEF IsDest, Larger
  <2> HIDE DEF at
  <2>2. IsLines(SpliceLines(e.lines, at, 0, input)) /\ Len(SpliceLines(e.lines, at, 0, input)) = Len(e.lines) - 0 + Len(input)
    <3>1. IsLines(e.lines) /\ IsLines(input) /\ at \in Nat /\ 0 \in Nat /\ at + 0 <= Len(e.lines)
      BY <1>2, <2>1
    <3> QED
      BY <3>1, SpliceOfLines
  <2>3. at + Len(input) \in 0 .. Len(SpliceLines(e.lines, at, 0, input))
    BY <1>2, <2>1, <2>2
  <2> QED
    BY <2>2, <2>3, ModifyKeeps
<1> HIDE DEF at
<1> QED
  BY <1>1, <1>3, SoundKeeps

\* Lines lo to hi replaced: where a range fits, the list that comes of it.
LEMMA RangeReplaced ==
  ASSUME NEW e, EdSound(e), NEW lo, NEW hi, RangeFits(e, lo, hi), NEW new, IsLines(new)
  PROVE  /\ IsLines(SpliceLines(e.lines, lo - 1, hi - lo + 1, new))
         /\ Len(SpliceLines(e.lines, lo - 1, hi - lo + 1, new)) = Len(e.lines) - (hi - lo + 1) + Len(new)
         /\ Len(e.lines) \in Nat /\ Len(new) \in Nat
         /\ lo \in Nat /\ hi \in Nat /\ 1 <= lo /\ lo <= hi /\ hi <= Len(e.lines)
<1>1. Len(e.lines) \in Nat /\ Len(new) \in Nat /\ IsLines(e.lines)
  BY ListsHaveLengths DEF EdSound
<1>2. lo \in Nat /\ hi \in Nat /\ 1 <= lo /\ lo <= hi /\ hi <= Len(e.lines)
  BY <1>1 DEF RangeFits, InLines
<1>3. lo - 1 \in Nat /\ hi - lo + 1 \in Nat /\ (lo - 1) + (hi - lo + 1) <= Len(e.lines)
  BY <1>1, <1>2
<1> QED
  BY <1>1, <1>2, <1>3, SpliceOfLines

\* c.
LEMMA ChangeKeeps ==
  ASSUME NEW e, EdSound(e), NEW s, NEW t, NEW input, IsLines(input)
  PROVE  Keeps(e, ChangeLines(e, s, t, input))
<1> DEFINE hi == AddressOr(t, e.current)
           lo == AddressOr(s, e.current)
           left == SpliceLines(e.lines, lo - 1, hi - lo + 1, input)
<1>1. ChangeLines(e, s, t, input) = IF RangeFits(e, lo, hi) THEN ModifyLines(e, left, lo - 1 + Len(input)) ELSE e
  BY DEF ChangeLines, OnLines, OnRange
<1> HIDE DEF hi, lo
<1>2. ASSUME RangeFits(e, lo, hi)
      PROVE  Keeps(e, ModifyLines(e, left, lo - 1 + Len(input)))
  <2>1. /\ IsLines(left) /\ Len(left) = Len(e.lines) - (hi - lo + 1) + Len(input)
        /\ Len(e.lines) \in Nat /\ Len(input) \in Nat
        /\ lo \in Nat /\ hi \in Nat /\ 1 <= lo /\ lo <= hi /\ hi <= Len(e.lines)
    BY <1>2, RangeReplaced
  <2> HIDE DEF left
  <2>2. lo - 1 + Len(input) \in 0 .. Len(left)
    BY <2>1
  <2> QED
    BY <2>1, <2>2, ModifyKeeps
<1> HIDE DEF left
<1> QED
  BY <1>1, <1>2, SoundKeeps

\* d.
LEMMA DeleteKeeps ==
  ASSUME NEW e, EdSound(e), NEW s, NEW t
  PROVE  Keeps(e, DeleteLines(e, s, t))
<1> DEFINE hi == AddressOr(t, e.current)
           lo == AddressOr(s, e.current)
           left == SpliceLines(e.lines, lo - 1, hi - lo + 1, <<>>)
<1>1. DeleteLines(e, s, t) = IF RangeFits(e, lo, hi) THEN ModifyLines(e, left, Smaller(lo, Len(left))) ELSE e
  BY DEF DeleteLines, OnLines, OnRange
<1> HIDE DEF hi, lo
<1>2. ASSUME RangeFits(e, lo, hi)
      PROVE  Keeps(e, ModifyLines(e, left, Smaller(lo, Len(left))))
  <2>1. IsLines(left) /\ lo \in Nat
    BY <1>2, RangeReplaced, NoLines
  <2>2. Len(left) \in Nat
    BY <2>1, ListsHaveLengths
  <2> HIDE DEF left
  <2>3. Smaller(lo, Len(left)) \in 0 .. Len(left)
    BY <2>1, <2>2 DEF Smaller
  <2> QED
    BY <2>1, <2>3, ModifyKeeps
<1> HIDE DEF left
<1> QED
  BY <1>1, <1>2, SoundKeeps

\* Lines changed in place.
LEMMA InPlace ==
  ASSUME NEW e, EdSound(e), NEW H, NEW f
  PROVE  LET changed == [i \in DOMAIN e.lines |-> IF i \in H THEN f[i] ELSE e.lines[i]]
         IN  IsLines(changed) /\ Len(changed) = Len(e.lines)
<1> DEFINE changed == [i \in DOMAIN e.lines |-> IF i \in H THEN f[i] ELSE e.lines[i]]
<1>1. PICK n \in Nat : n = Len(e.lines) /\ DOMAIN e.lines = 1 .. n
  BY ListsHaveLengths DEF EdSound
<1>2. DOMAIN changed = 1 .. n
  BY <1>1
<1>3. changed = [i \in 1 .. n |-> changed[i]]
  BY <1>1
<1> HIDE DEF changed
<1>4. changed \in Seq({changed[i] : i \in 1 .. n})
  BY <1>3
<1>5. Len(changed) = n
  BY <1>2, <1>3, <1>4, LenProperties
<1> QED
  BY <1>1, <1>4, <1>5, ListOf DEF changed

\* s.
LEMMA SubstituteKeeps ==
  ASSUME NEW e, EdSound(e), NEW s, NEW t, NEW p, NEW new, NEW which
  PROVE  Keeps(e, SubstituteLines(e, s, t, p, new, which))
<1> DEFINE hi == AddressOr(t, e.current)
           lo == AddressOr(s, e.current)
           q == PatternOf(e, p)
           hits == {i \in lo..hi : LineMatches(e.lines[i], q)}
           done == [i \in DOMAIN e.lines |-> Substituted(e.lines[i], q, new, which)]
           changed == [i \in DOMAIN e.lines |-> IF i \in hits THEN Substituted(e.lines[i], q, new, which) ELSE e.lines[i]]
<1>1. SubstituteLines(e, s, t, p, new, which) =
         IF RangeFits(e, lo, hi)
         THEN IF hits = {} THEN [e EXCEPT !.pattern = q]
              ELSE [ModifyLines(e, changed, Max(hits)) EXCEPT !.pattern = q]
         ELSE e
  BY DEF SubstituteLines, OnLines, OnRange
<1>2. changed = [i \in DOMAIN e.lines |-> IF i \in hits THEN done[i] ELSE e.lines[i]]
  OBVIOUS
<1> HIDE DEF hi, lo, q, done
<1>3. ASSUME RangeFits(e, lo, hi), hits # {}
      PROVE  Keeps(e, [ModifyLines(e, changed, Max(hits)) EXCEPT !.pattern = q])
  <2>1. lo \in Nat /\ hi \in Nat /\ hi <= Len(e.lines) /\ Len(e.lines) \in Nat
    BY <1>3, RangeReplaced, NoLines
  <2>2. hits \in SUBSET (0 .. Len(e.lines))
    BY <2>1
  <2> HIDE DEF hits, changed
  <2>3. IsLines(changed) /\ Len(changed) = Len(e.lines)
    BY <1>2, InPlace
  <2>4. Max(hits) \in 0 .. Len(changed)
    BY <1>3, <2>1, <2>2, <2>3, GreatestIsThere
  <2> DEFINE m == ModifyLines(e, changed, Max(hits))
  <2>5. Keeps(e, m) /\ EdSound(m)
    BY <2>3, <2>4, ModifyKeeps DEF Keeps
  <2> HIDE DEF m
  <2>6. Keeps(m, [m EXCEPT !.pattern = q])
    BY <2>5, OthersKeep
  <2>7. [m EXCEPT !.pattern = q].lines = m.lines /\ [m EXCEPT !.pattern = q].undo = m.undo
    BY <2>5 DEF EdSound, Fields
  <2>8. Keeps(e, [m EXCEPT !.pattern = q])
    BY <2>5, <2>6, <2>7, KeepsOn
  <2> QED
    BY <2>8 DEF m
<1> HIDE DEF hits, changed
<1>4. Keeps(e, [e EXCEPT !.pattern = q]) /\ Keeps(e, e)
  BY OthersKeep, SoundKeeps
<1> QED
  BY <1>1, <1>3, <1>4

\* What is left when lines are dropped is a list.
LEMMA DroppedLines ==
  ASSUME NEW e, EdSound(e), NEW dropped
  PROVE  IsLines(KeptLines(e.lines, dropped))
<1> DEFINE kept == DOMAIN e.lines \ dropped
           left == KeptLines(e.lines, dropped)
<1>1. PICK n \in Nat : n = Len(e.lines) /\ DOMAIN e.lines = 1 .. n
  BY ListsHaveLengths DEF EdSound
<1>2. IsFiniteSet(kept)
  <2>1. IsFiniteSet(1 .. n) /\ kept \subseteq 1 .. n
    BY <1>1, FS_Interval
  <2> QED
    BY <2>1, FS_Subset
<1> HIDE DEF kept
<1>3. PICK m \in Nat : m = Cardinality(kept)
  BY <1>2, FS_CardinalityType
<1>4. left = [k \in 1 .. m |-> e.lines[CHOOSE i \in kept : Cardinality({j \in kept : j <= i}) = k]]
  BY <1>3 DEF KeptLines, kept
<1>5. left = [k \in 1 .. m |-> left[k]]
  BY <1>4
<1> HIDE DEF left
<1>6. left \in Seq({left[k] : k \in 1 .. m})
  BY <1>5
<1> QED
  BY <1>6, ListOf DEF left

\* g and v, whatever they do with the lines.
LEMMA GlobalKeeps ==
  ASSUME NEW e, EdSound(e), NEW s, NEW t, NEW p, NEW invert, NEW body \in {"p", "d", "s"}, NEW new
  PROVE  Keeps(e, GlobalLines(e, s, t, p, invert, body, new))
<1> DEFINE hi == AddressOr(t, Len(e.lines))
           lo == AddressOr(s, 1)
           q == PatternOf(e, p)
           f == [e EXCEPT !.pattern = q]
           targets == {i \in lo..hi : LineMatches(e.lines[i], q) # invert}
           left == KeptLines(e.lines, targets)
           hits == {i \in targets : LineMatches(e.lines[i], q)}
           done == [i \in DOMAIN e.lines |-> Substituted(e.lines[i], q, new, 1)]
           changed == [i \in DOMAIN e.lines |-> IF i \in hits THEN Substituted(e.lines[i], q, new, 1) ELSE e.lines[i]]
           result == CASE q = NoPattern -> e
              [] body = "p" -> IF targets = {} THEN f ELSE [f EXCEPT !.current = Max(targets)]
              [] body = "d" -> IF targets = {} THEN CheckpointLines(f) ELSE ModifyLines(f, left, Len(left))
              [] body = "s" -> IF hits = {} THEN CheckpointLines(f) ELSE ModifyLines(f, changed, Max(hits))
<1>1. GlobalLines(e, s, t, p, invert, body, new) = IF RangeFits(e, lo, hi) THEN result ELSE e
  BY DEF GlobalLines, OnRange
<1>2. changed = [i \in DOMAIN e.lines |-> IF i \in hits THEN done[i] ELSE e.lines[i]]
  OBVIOUS
<1>3. IsLines(left)
  BY DroppedLines
<1>4. RangeFits(e, lo, hi) => targets \in SUBSET (lo .. hi) /\ hits \in SUBSET targets
  OBVIOUS
<1> HIDE DEF hi, lo, q, done, left, targets, hits
<1>5. Keeps(e, f) /\ EdSound(f) /\ f.lines = e.lines
  BY OthersKeep DEF Keeps, EdSound, Fields
<1> HIDE DEF f
<1>6. Keeps(e, CheckpointLines(f))
  BY <1>5, CheckpointKeeps, KeepsOn
<1>7. Keeps(e, ModifyLines(f, left, Len(left)))
  <2>1. Len(left) \in 0 .. Len(left)
    BY <1>3, ListsHaveLengths
  <2>2. Keeps(f, ModifyLines(f, left, Len(left)))
    BY <1>3, <1>5, <2>1, ModifyKeeps
  <2> QED
    BY <1>5, <2>2, KeepsOn
<1>8. ASSUME RangeFits(e, lo, hi)
      PROVE  /\ targets # {} => Keeps(e, [f EXCEPT !.current = Max(targets)])
             /\ hits # {} => Keeps(e, ModifyLines(f, changed, Max(hits)))
  <2>1. lo \in Nat /\ hi \in Nat /\ hi <= Len(e.lines) /\ Len(e.lines) \in Nat
    BY <1>8, RangeReplaced, NoLines
  <2>2. targets \in SUBSET (0 .. Len(e.lines)) /\ hits \in SUBSET (0 .. Len(e.lines))
    BY <1>4, <1>8, <2>1
  <2>3. IsLines(changed) /\ Len(changed) = Len(e.lines)
    BY <1>2, InPlace
  <2> HIDE DEF changed
  <2>4. ASSUME targets # {}
        PROVE  Keeps(e, [f EXCEPT !.current = Max(targets)])
    <3>1. Max(targets) \in 0 .. Len(f.lines)
      BY <1>5, <2>1, <2>2, <2>4, GreatestIsThere
    <3> QED
      BY <1>5, <3>1, CurrentKeeps, KeepsOn
  <2>5. ASSUME hits # {}
        PROVE  Keeps(e, ModifyLines(f, changed, Max(hits)))
    <3>1. Max(hits) \in 0 .. Len(changed)
      BY <2>1, <2>2, <2>3, <2>5, GreatestIsThere
    <3>2. Keeps(f, ModifyLines(f, changed, Max(hits)))
      BY <1>5, <2>3, <3>1, ModifyKeeps
    <3> QED
      BY <1>5, <3>2, KeepsOn
  <2> QED
    BY <2>4, <2>5
<1> HIDE DEF changed
<1>9. RangeFits(e, lo, hi) => Keeps(e, result)
  BY <1>5, <1>6, <1>7, <1>8, SoundKeeps
<1> HIDE DEF result
<1> QED
  BY <1>1, <1>9, SoundKeeps

\* m and t.
LEMMA TransferKeeps ==
  ASSUME NEW e, EdSound(e), NEW s, NEW t, NEW dest, NEW moving \in BOOLEAN
  PROVE  Keeps(e, TransferLines(e, s, t, dest, moving))
<1> DEFINE hi == AddressOr(t, e.current)
           lo == AddressOr(s, e.current)
           block == SubSeq(e.lines, lo, hi)
           rest == IF moving THEN SpliceLines(e.lines, lo - 1, Len(block), <<>>) ELSE e.lines
           at == IF moving /\ dest >= lo THEN dest - Len(block) ELSE dest
           lines == SpliceLines(rest, at, 0, block)
           stays == ~IsDest(e, dest) \/ (moving /\ dest \in lo - 1..hi)
<1>1. TransferLines(e, s, t, dest, moving) =
         IF RangeFits(e, lo, hi) THEN IF stays THEN e ELSE ModifyLines(e, lines, at + Len(block)) ELSE e
  BY DEF TransferLines, OnLines, OnRange
<1> HIDE DEF hi, lo
<1>2. ASSUME RangeFits(e, lo, hi), ~stays
      PROVE  Keeps(e, ModifyLines(e, lines, at + Len(block)))
  <2>1. /\ lo \in Nat /\ hi \in Nat /\ 1 <= lo /\ lo <= hi /\ hi <= Len(e.lines) /\ Len(e.lines) \in Nat
    BY <1>2, RangeReplaced, NoLines
  <2>2. IsLines(e.lines)
    BY DEF EdSound
  <2>3. IsLines(block) /\ Len(block) = hi - lo + 1
    <3>1. lo \in 1 .. Len(e.lines) + 1 /\ hi \in lo - 1 .. Len(e.lines)
      BY <2>1
    <3> QED
      BY <2>2, <3>1, PartOfLines
  <2> HIDE DEF block
  <2>4. /\ IsLines(rest) /\ Len(rest) \in Nat
        /\ Len(rest) = IF moving THEN Len(e.lines) - Len(block) ELSE Len(e.lines)
    <3>1. CASE moving
      <4>1. /\ IsLines(SpliceLines(e.lines, lo - 1, hi - lo + 1, <<>>))
            /\ Len(SpliceLines(e.lines, lo - 1, hi - lo + 1, <<>>)) = Len(e.lines) - (hi - lo + 1) + 0
        BY <1>2, RangeReplaced, NoLines, EmptySeq
      <4>2. rest = SpliceLines(e.lines, lo - 1, hi - lo + 1, <<>>)
        BY <2>3, <3>1
      <4> QED
        BY <2>1, <2>3, <3>1, <4>1, <4>2
    <3>2. CASE ~moving
      BY <2>1, <2>2, <3>2
    <3> QED
      BY <3>1, <3>2
  <2> HIDE DEF rest
  <2>5. at \in Nat /\ at <= Len(rest)
    <3>1. dest \in 0 .. Len(e.lines) /\ (moving => dest \notin lo - 1 .. hi)
      BY <1>2 DEF IsDest
    <3>2. CASE moving /\ dest >= lo
      <4>1. dest > hi /\ at = dest - Len(block)
        BY <2>1, <3>1, <3>2
      <4> QED
        BY <2>1, <2>3, <2>4, <3>1, <3>2, <4>1
    <3>3. CASE moving /\ ~(dest >= lo)
      <4>1. dest < lo - 1 /\ at = dest
        BY <2>1, <3>1, <3>3
      <4> QED
        BY <2>1, <2>3, <2>4, <3>1, <3>3, <4>1
    <3>4. CASE ~moving
      BY <2>1, <2>4, <3>1, <3>4
    <3> QED
      BY <3>2, <3>3, <3>4
  <2> HIDE DEF at
  <2>6. IsLines(lines) /\ Len(lines) = Len(rest) - 0 + Len(block)
    <3>1. IsLines(rest) /\ IsLines(block) /\ at \in Nat /\ 0 \in Nat /\ at + 0 <= Len(rest)
      BY <2>3, <2>4, <2>5
    <3> QED
      BY <3>1, SpliceOfLines
  <2> HIDE DEF lines
  <2>7. at + Len(block) \in 0 .. Len(lines)
    BY <2>1, <2>3, <2>4, <2>5, <2>6
  <2> QED
    BY <2>6, <2>7, ModifyKeeps
<1> HIDE DEF at, block, lines, stays
<1> QED
  BY <1>1, <1>2, SoundKeeps

\* j.
LEMMA JoinKeeps ==
  ASSUME NEW e, EdSound(e), NEW s, NEW t
  PROVE  Keeps(e, JoinLines(e, s, t))
<1> DEFINE hi == AddressOr(t, Smaller(e.current + 1, Len(e.lines)))
           lo == AddressOr(s, e.current)
           new == <<FlattenSeq(SubSeq(e.lines, lo, hi))>>
           left == SpliceLines(e.lines, lo - 1, hi - lo + 1, new)
<1>1. JoinLines(e, s, t) = IF RangeFits(e, lo, hi) THEN IF lo = hi THEN e ELSE ModifyLines(e, left, lo) ELSE e
  BY DEF JoinLines, OnRange
<1>2. IsLines(new) /\ Len(new) = 1
  <2>1. PICK line : line = FlattenSeq(SubSeq(e.lines, lo, hi))
    OBVIOUS
  <2>2. <<line>> \in Seq({line}) /\ Len(<<line>>) = 1
    OBVIOUS
  <2> QED
    BY <2>1, <2>2, ListOf
<1> HIDE DEF hi, lo, new
<1>3. ASSUME RangeFits(e, lo, hi)
      PROVE  Keeps(e, ModifyLines(e, left, lo))
  <2>1. /\ IsLines(left) /\ Len(left) = Len(e.lines) - (hi - lo + 1) + Len(new) /\ Len(e.lines) \in Nat
        /\ lo \in Nat /\ hi \in Nat /\ 1 <= lo /\ lo <= hi /\ hi <= Len(e.lines)
    <3>1. IsLines(new) /\ RangeFits(e, lo, hi)
      BY <1>2, <1>3
    <3> QED
      BY <3>1, RangeReplaced
  <2> HIDE DEF left
  <2>2. lo \in 0 .. Len(left)
    BY <1>2, <2>1
  <2> QED
    BY <2>1, <2>2, ModifyKeeps
<1> HIDE DEF left
<1> QED
  BY <1>1, <1>3, SoundKeeps

\* r.
LEMMA ReadKeeps ==
  ASSUME NEW e, EdSound(e), NEW t, NEW f \in DOMAIN edFiles, IsLines(edFiles[f])
  PROVE  Keeps(e, ReadIn(e, t, f))
<1> DEFINE at == AddressOr(t, Len(e.lines))
           new == edFiles[f]
           lines == SpliceLines(e.lines, at, 0, new)
<1>1. ReadIn(e, t, f) = IF ~IsDest(e, at) THEN e ELSE IF new = <<>> THEN CheckpointLines(e)
                        ELSE ModifyLines(e, lines, at + Len(new))
  BY DEF ReadIn
<1>2. Len(e.lines) \in Nat /\ Len(new) \in Nat /\ IsLines(e.lines) /\ IsLines(new)
  BY ListsHaveLengths DEF EdSound
<1> HIDE DEF at, new
<1>3. ASSUME IsDest(e, at)
      PROVE  Keeps(e, ModifyLines(e, lines, at + Len(new)))
  <2>1. at \in Nat /\ at + 0 <= Len(e.lines)
    BY <1>2, <1>3 DEF IsDest
  <2>2. IsLines(lines) /\ Len(lines) = Len(e.lines) - 0 + Len(new)
    <3>1. IsLines(e.lines) /\ IsLines(new) /\ at \in Nat /\ 0 \in Nat /\ at + 0 <= Len(e.lines)
      BY <1>2, <2>1
    <3> QED
      BY <3>1, SpliceOfLines
  <2> HIDE DEF lines
  <2>3. at + Len(new) \in 0 .. Len(lines)
    BY <1>2, <2>1, <2>2
  <2> QED
    BY <2>2, <2>3, ModifyKeeps
<1> HIDE DEF lines
<1> QED
  BY <1>1, <1>3, SoundKeeps, CheckpointKeeps

\* u; and doing it twice gives the lines back.
LEMMA UndoingKeeps ==
  ASSUME NEW e, EdSound(e)
  PROVE  /\ Keeps(e, UndoLines(e))
         /\ e.undo # <<>> => UndoLines(UndoLines(e)).lines = e.lines
<1>1. CASE e.undo = <<>>
  BY <1>1, SoundKeeps DEF UndoLines
<1>2. CASE e.undo # <<>>
  <2>1. PICK u : u = <<e.lines, e.current>>
    OBVIOUS
  <2>2. u[1] = e.lines /\ u[2] = e.current /\ u # <<>>
    BY <2>1
  <2>3. PICK lines, n : lines = e.undo[1] /\ n = Smaller(e.undo[2], Len(e.undo[1]))
    OBVIOUS
  <2>4. IsLines(lines) /\ n \in 0 .. Len(lines) /\ IsLines(u[1]) /\ u[2] \in Nat
    BY <1>2, <2>2, <2>3, ListsHaveLengths DEF EdSound, Smaller
  <2>5. UndoLines(e) = [e EXCEPT !.lines = lines, !.current = n, !.undo = u, !.modified = TRUE]
    BY <1>2, <2>1, <2>3 DEF UndoLines
  <2>6. /\ EdSound(UndoLines(e)) /\ UndoLines(e).undo = u /\ UndoLines(e).modified
        /\ UndoLines(e).warned = e.warned /\ UndoLines(e).quit = e.quit
    BY <2>2, <2>4, <2>5 DEF EdSound, Fields
  <2>7. UndoLines(UndoLines(e)).lines = u[1]
    <3> DEFINE f == UndoLines(e)
    <3>1. EdSound(f) /\ f.undo = u
      BY <2>6
    <3> HIDE DEF f
    <3>2. UndoLines(f) = [f EXCEPT !.lines = u[1], !.current = Smaller(u[2], Len(u[1])),
                                    !.undo = <<f.lines, f.current>>, !.modified = TRUE]
      BY <2>2, <3>1 DEF UndoLines
    <3>3. UndoLines(f).lines = u[1]
      BY <3>1, <3>2 DEF EdSound, Fields
    <3> QED
      BY <3>3 DEF f
  <2> QED
    BY <2>2, <2>6, <2>7 DEF Keeps, HasLines
<1> QED
  BY <1>1, <1>2

\* A fresh editor on some lines.
LEMMA NewIsSound ==
  ASSUME NEW lines, IsLines(lines), NEW name
  PROVE  LET e == NewEd(lines, name)
         IN  EdSound(e) /\ e.lines = lines /\ ~e.modified /\ ~e.warned
  BY ListsHaveLengths DEF EdSound, NewEd, Fields

\* The inductive invariant holds on a file that was just read.
LEMMA EdStarts == EdInit => EdInv
<1> SUFFICES ASSUME EdInit
             PROVE  EdInv
  OBVIOUS
<1>1. PICK f \in DOMAIN EdFiles : ed = NewEd(EdFiles[f], f) /\ edSaved = [file |-> f, lines |-> EdFiles[f]]
  BY DEF EdInit
<1>2. EdSound(ed) /\ ed.lines = EdFiles[f] /\ ~ed.warned /\ edFiles = EdFiles
  BY <1>1, NewIsSound, EdAssumption DEF EdInit
<1> QED
  BY <1>1, <1>2, EdAssumption DEF EdInv

\* Lines that need no warning, because they were saved or warned about, are safe as long as
\* no file changes.
LEMMA UnwarnedIsSafe == EdInv /\ ~MustWarn /\ UNCHANGED edFiles => LinesAreSafe
  BY DEF EdInv, EdSound, MustWarn, LinesAreSafe

\* Every command, and every end of one, keeps the inductive invariant, and gives up only
\* lines that are safe.
LEMMA EdStep == EdInv /\ [EdNext]_edVars => EdInv' /\ (GivesUpLines => LinesAreSafe)
<1> SUFFICES ASSUME EdInv, [EdNext]_edVars
             PROVE  EdInv' /\ (GivesUpLines => LinesAreSafe)
  OBVIOUS
<1>0. EdSound(ed)
  BY DEF EdInv
<1>a. ASSUME Obeys(ed, ed'), UNCHANGED <<edDiskVars, edWarned>>
      PROVE  EdInv' /\ ~GivesUpLines
  BY <1>a DEF EdInv, Obeys, Keeps, HasLines, GivesUpLines, edDiskVars
<1>b. ASSUME MustWarn, Warn
      PROVE  EdInv' /\ ~GivesUpLines
  BY <1>b DEF EdInv, EdSound, Fields, MustWarn, Warn, GivesUpLines, edDiskVars
<1>1. CASE EdPrint
  <2>1. PICK r \in EdRanges : \E p \in {ParseRange(ed, r)} :
           /\ ed' = IF p.fails THEN p.ed ELSE PrintLines([p.ed EXCEPT !.warned = FALSE], p.start, p.end)
           /\ UNCHANGED <<edDiskVars, edWarned>>
    BY <1>1 DEF EdPrint, ObeyLine
  <2> DEFINE p == ParseRange(ed, r)
             e == [p.ed EXCEPT !.warned = FALSE]
  <2>2. Keeps(ed, p.ed) /\ Keeps(ed, e) /\ EdSound(e)
    BY <1>0, RangeKeeps
  <2>3. ed' = IF p.fails THEN p.ed ELSE PrintLines(e, p.start, p.end)
    BY <2>1
  <2> HIDE DEF e
  <2>4. Keeps(e, PrintLines(e, p.start, p.end))
    BY <2>2, PrintKeeps
  <2>5. Obeys(ed, ed')
    BY <1>0, <2>3, <2>4, LineObeys DEF e
  <2> QED
    BY <1>a, <2>1, <2>5
<1>2. CASE EdBare
  <2>1. PICK r \in EdRanges : \E p \in {ParseRange(ed, r)} :
           /\ ed' = IF p.fails THEN p.ed ELSE BareAddress([p.ed EXCEPT !.warned = FALSE], p.start, p.end)
           /\ UNCHANGED <<edDiskVars, edWarned>>
    BY <1>2 DEF EdBare, ObeyLine
  <2> DEFINE p == ParseRange(ed, r)
             e == [p.ed EXCEPT !.warned = FALSE]
  <2>2. Keeps(ed, p.ed) /\ Keeps(ed, e) /\ EdSound(e)
    BY <1>0, RangeKeeps
  <2>3. ed' = IF p.fails THEN p.ed ELSE BareAddress(e, p.start, p.end)
    BY <2>1
  <2> HIDE DEF e
  <2>4. Keeps(e, BareAddress(e, p.start, p.end))
    BY <2>2, SoundKeeps DEF BareAddress
  <2>5. Obeys(ed, ed')
    BY <1>0, <2>3, <2>4, LineObeys DEF e
  <2> QED
    BY <1>a, <2>1, <2>5
<1>3. CASE EdInsert
  <2>1. PICK input \in EdInputs, before \in BOOLEAN, r \in EdRanges : \E p \in {ParseRange(ed, r)} :
           /\ ed' = IF p.fails THEN p.ed ELSE InsertLines([p.ed EXCEPT !.warned = FALSE], p.end, before, input)
           /\ UNCHANGED <<edDiskVars, edWarned>>
    BY <1>3 DEF EdInsert, ObeyLine
  <2> DEFINE p == ParseRange(ed, r)
             e == [p.ed EXCEPT !.warned = FALSE]
  <2>2. Keeps(ed, p.ed) /\ Keeps(ed, e) /\ EdSound(e)
    BY <1>0, RangeKeeps
  <2>3. ed' = IF p.fails THEN p.ed ELSE InsertLines(e, p.end, before, input)
    BY <2>1
  <2> HIDE DEF e
  <2>4. Keeps(e, InsertLines(e, p.end, before, input))
    BY <2>2, InsertKeeps, EdAssumption
  <2>5. Obeys(ed, ed')
    BY <1>0, <2>3, <2>4, LineObeys DEF e
  <2> QED
    BY <1>a, <2>1, <2>5
<1>4. CASE EdChange
  <2>1. PICK input \in EdInputs, r \in EdRanges : \E p \in {ParseRange(ed, r)} :
           /\ ed' = IF p.fails THEN p.ed ELSE ChangeLines([p.ed EXCEPT !.warned = FALSE], p.start, p.end, input)
           /\ UNCHANGED <<edDiskVars, edWarned>>
    BY <1>4 DEF EdChange, ObeyLine
  <2> DEFINE p == ParseRange(ed, r)
             e == [p.ed EXCEPT !.warned = FALSE]
  <2>2. Keeps(ed, p.ed) /\ Keeps(ed, e) /\ EdSound(e)
    BY <1>0, RangeKeeps
  <2>3. ed' = IF p.fails THEN p.ed ELSE ChangeLines(e, p.start, p.end, input)
    BY <2>1
  <2> HIDE DEF e
  <2>4. Keeps(e, ChangeLines(e, p.start, p.end, input))
    BY <2>2, ChangeKeeps, EdAssumption
  <2>5. Obeys(ed, ed')
    BY <1>0, <2>3, <2>4, LineObeys DEF e
  <2> QED
    BY <1>a, <2>1, <2>5
<1>5. CASE EdDelete
  <2>1. PICK r \in EdRanges : \E p \in {ParseRange(ed, r)} :
           /\ ed' = IF p.fails THEN p.ed ELSE DeleteLines([p.ed EXCEPT !.warned = FALSE], p.start, p.end)
           /\ UNCHANGED <<edDiskVars, edWarned>>
    BY <1>5 DEF EdDelete, ObeyLine
  <2> DEFINE p == ParseRange(ed, r)
             e == [p.ed EXCEPT !.warned = FALSE]
  <2>2. Keeps(ed, p.ed) /\ Keeps(ed, e) /\ EdSound(e)
    BY <1>0, RangeKeeps
  <2>3. ed' = IF p.fails THEN p.ed ELSE DeleteLines(e, p.start, p.end)
    BY <2>1
  <2> HIDE DEF e
  <2>4. Keeps(e, DeleteLines(e, p.start, p.end))
    BY <2>2, DeleteKeeps
  <2>5. Obeys(ed, ed')
    BY <1>0, <2>3, <2>4, LineObeys DEF e
  <2> QED
    BY <1>a, <2>1, <2>5
<1>6. CASE EdSubstitute
  <2>1. PICK q \in EdPatterns, new \in EdPatterns, which \in 0..2, r \in EdRanges : \E p \in {ParseRange(ed, r)} :
           /\ ed' = IF p.fails THEN p.ed ELSE SubstituteLines([p.ed EXCEPT !.warned = FALSE], p.start, p.end, q, new, which)
           /\ UNCHANGED <<edDiskVars, edWarned>>
    BY <1>6 DEF EdSubstitute, ObeyLine
  <2> DEFINE p == ParseRange(ed, r)
             e == [p.ed EXCEPT !.warned = FALSE]
  <2>2. Keeps(ed, p.ed) /\ Keeps(ed, e) /\ EdSound(e)
    BY <1>0, RangeKeeps
  <2>3. ed' = IF p.fails THEN p.ed ELSE SubstituteLines(e, p.start, p.end, q, new, which)
    BY <2>1
  <2> HIDE DEF e
  <2>4. Keeps(e, SubstituteLines(e, p.start, p.end, q, new, which))
    BY <2>2, SubstituteKeeps
  <2>5. Obeys(ed, ed')
    BY <1>0, <2>3, <2>4, LineObeys DEF e
  <2> QED
    BY <1>a, <2>1, <2>5
<1>7. CASE EdGlobal
  <2>1. PICK q \in EdPatterns, invert \in BOOLEAN, body \in {"p", "d", "s"}, r \in EdRanges : \E p \in {ParseRange(ed, r)} :
           /\ ed' = IF p.fails THEN p.ed ELSE GlobalLines([p.ed EXCEPT !.warned = FALSE], p.start, p.end, q, invert, body, "z")
           /\ UNCHANGED <<edDiskVars, edWarned>>
    BY <1>7 DEF EdGlobal, ObeyLine
  <2> DEFINE p == ParseRange(ed, r)
             e == [p.ed EXCEPT !.warned = FALSE]
  <2>2. Keeps(ed, p.ed) /\ Keeps(ed, e) /\ EdSound(e)
    BY <1>0, RangeKeeps
  <2>3. ed' = IF p.fails THEN p.ed ELSE GlobalLines(e, p.start, p.end, q, invert, body, "z")
    BY <2>1
  <2> HIDE DEF e
  <2>4. Keeps(e, GlobalLines(e, p.start, p.end, q, invert, body, "z"))
    BY <2>2, GlobalKeeps
  <2>5. Obeys(ed, ed')
    BY <1>0, <2>3, <2>4, LineObeys DEF e
  <2> QED
    BY <1>a, <2>1, <2>5
<1>8. CASE EdTransfer
  <2>1. PICK a \in EdAddresses, moving \in BOOLEAN, r \in EdRanges : \E p \in {ParseRange(ed, r)} :
           /\ ed' = IF p.fails THEN p.ed ELSE (IF AddressFails([p.ed EXCEPT !.warned = FALSE], a) \/ AddressValue([p.ed EXCEPT !.warned = FALSE], a) = <<>> THEN [p.ed EXCEPT !.warned = FALSE] ELSE TransferLines([p.ed EXCEPT !.warned = FALSE], p.start, p.end, AddressValue([p.ed EXCEPT !.warned = FALSE], a)[1], moving))
           /\ UNCHANGED <<edDiskVars, edWarned>>
    BY <1>8 DEF EdTransfer, ObeyLine
  <2> DEFINE p == ParseRange(ed, r)
             e == [p.ed EXCEPT !.warned = FALSE]
  <2>2. Keeps(ed, p.ed) /\ Keeps(ed, e) /\ EdSound(e)
    BY <1>0, RangeKeeps
  <2>3. ed' = IF p.fails THEN p.ed ELSE (IF AddressFails(e, a) \/ AddressValue(e, a) = <<>> THEN e ELSE TransferLines(e, p.start, p.end, AddressValue(e, a)[1], moving))
    BY <2>1
  <2> HIDE DEF e
  <2>4. Keeps(e, (IF AddressFails(e, a) \/ AddressValue(e, a) = <<>> THEN e ELSE TransferLines(e, p.start, p.end, AddressValue(e, a)[1], moving)))
    BY <2>2, TransferKeeps, SoundKeeps
  <2>5. Obeys(ed, ed')
    BY <1>0, <2>3, <2>4, LineObeys DEF e
  <2> QED
    BY <1>a, <2>1, <2>5
<1>9. CASE EdJoin
  <2>1. PICK r \in EdRanges : \E p \in {ParseRange(ed, r)} :
           /\ ed' = IF p.fails THEN p.ed ELSE JoinLines([p.ed EXCEPT !.warned = FALSE], p.start, p.end)
           /\ UNCHANGED <<edDiskVars, edWarned>>
    BY <1>9 DEF EdJoin, ObeyLine
  <2> DEFINE p == ParseRange(ed, r)
             e == [p.ed EXCEPT !.warned = FALSE]
  <2>2. Keeps(ed, p.ed) /\ Keeps(ed, e) /\ EdSound(e)
    BY <1>0, RangeKeeps
  <2>3. ed' = IF p.fails THEN p.ed ELSE JoinLines(e, p.start, p.end)
    BY <2>1
  <2> HIDE DEF e
  <2>4. Keeps(e, JoinLines(e, p.start, p.end))
    BY <2>2, JoinKeeps
  <2>5. Obeys(ed, ed')
    BY <1>0, <2>3, <2>4, LineObeys DEF e
  <2> QED
    BY <1>a, <2>1, <2>5
<1>10. CASE EdMark
  <2>1. PICK r \in EdRanges : \E p \in {ParseRange(ed, r)} :
           /\ ed' = IF p.fails THEN p.ed ELSE MarkLine([p.ed EXCEPT !.warned = FALSE], p.end)
           /\ UNCHANGED <<edDiskVars, edWarned>>
    BY <1>10 DEF EdMark, ObeyLine
  <2> DEFINE p == ParseRange(ed, r)
             e == [p.ed EXCEPT !.warned = FALSE]
  <2>2. Keeps(ed, p.ed) /\ Keeps(ed, e) /\ EdSound(e)
    BY <1>0, RangeKeeps
  <2>3. ed' = IF p.fails THEN p.ed ELSE MarkLine(e, p.end)
    BY <2>1
  <2> HIDE DEF e
  <2>4. Keeps(e, MarkLine(e, p.end))
    BY <2>2, OthersKeep, SoundKeeps DEF MarkLine
  <2>5. Obeys(ed, ed')
    BY <1>0, <2>3, <2>4, LineObeys DEF e
  <2> QED
    BY <1>a, <2>1, <2>5
<1>11. CASE EdRead
  <2>1. PICK f \in DOMAIN edFiles, r \in EdRanges : \E p \in {ParseRange(ed, r)} :
           /\ ed' = IF p.fails THEN p.ed ELSE ReadIn([p.ed EXCEPT !.warned = FALSE], p.end, f)
           /\ UNCHANGED <<edDiskVars, edWarned>>
    BY <1>11 DEF EdRead, ObeyLine
  <2> DEFINE p == ParseRange(ed, r)
             e == [p.ed EXCEPT !.warned = FALSE]
  <2>2. Keeps(ed, p.ed) /\ Keeps(ed, e) /\ EdSound(e)
    BY <1>0, RangeKeeps
  <2>3. ed' = IF p.fails THEN p.ed ELSE ReadIn(e, p.end, f)
    BY <2>1
  <2> HIDE DEF e
  <2>4. Keeps(e, ReadIn(e, p.end, f))
    BY <2>2, ReadKeeps DEF EdInv
  <2>5. Obeys(ed, ed')
    BY <1>0, <2>3, <2>4, LineObeys DEF e
  <2> QED
    BY <1>a, <2>1, <2>5
<1>12. CASE EdUndo
  <2>1. PICK r \in EdRanges : \E p \in {ParseRange(ed, r)} :
           /\ ed' = IF p.fails THEN p.ed ELSE UndoLines([p.ed EXCEPT !.warned = FALSE])
           /\ UNCHANGED <<edDiskVars, edWarned>>
    BY <1>12 DEF EdUndo, ObeyLine
  <2> DEFINE p == ParseRange(ed, r)
             e == [p.ed EXCEPT !.warned = FALSE]
  <2>2. Keeps(ed, p.ed) /\ Keeps(ed, e) /\ EdSound(e)
    BY <1>0, RangeKeeps
  <2>3. ed' = IF p.fails THEN p.ed ELSE UndoLines(e)
    BY <2>1
  <2> HIDE DEF e
  <2>4. Keeps(e, UndoLines(e))
    BY <2>2, UndoingKeeps
  <2>5. Obeys(ed, ed')
    BY <1>0, <2>3, <2>4, LineObeys DEF e
  <2> QED
    BY <1>a, <2>1, <2>5
<1>13. CASE EdName
  <2>1. PICK f \in DOMAIN edFiles, r \in EdRanges : \E p \in {ParseRange(ed, r)} :
           /\ ed' = IF p.fails THEN p.ed ELSE [[p.ed EXCEPT !.warned = FALSE] EXCEPT !.name = f]
           /\ UNCHANGED <<edDiskVars, edWarned>>
    BY <1>13 DEF EdName, ObeyLine
  <2> DEFINE p == ParseRange(ed, r)
             e == [p.ed EXCEPT !.warned = FALSE]
  <2>2. Keeps(ed, p.ed) /\ Keeps(ed, e) /\ EdSound(e)
    BY <1>0, RangeKeeps
  <2>3. ed' = IF p.fails THEN p.ed ELSE [e EXCEPT !.name = f]
    BY <2>1
  <2> HIDE DEF e
  <2>4. Keeps(e, [e EXCEPT !.name = f])
    BY <2>2, OthersKeep
  <2>5. Obeys(ed, ed')
    BY <1>0, <2>3, <2>4, LineObeys DEF e
  <2> QED
    BY <1>a, <2>1, <2>5

<1>14. CASE EdEdit
  <2>1. PICK f \in DOMAIN edFiles : IF MustWarn THEN Warn ELSE LoadFile(f) /\ UNCHANGED edWarned
    BY <1>14 DEF EdEdit
  <2>2. CASE MustWarn
    BY <1>b, <2>1, <2>2
  <2>3. CASE ~MustWarn /\ ed' = [ed EXCEPT !.warned = FALSE] /\ UNCHANGED edDiskVars
    <3>1. Obeys(ed, ed')
      BY <1>0, <2>3, ForgettingKeeps DEF Obeys
    <3> QED
      BY <1>a, <2>1, <2>3, <3>1
  <2>4. CASE /\ ~MustWarn /\ ed' = [NewEd(edFiles[f], f) EXCEPT !.pattern = ed.pattern]
             /\ edSaved' = [file |-> f, lines |-> edFiles[f]] /\ edSpoiled' = FALSE /\ UNCHANGED edFiles
    <3> DEFINE e == NewEd(edFiles[f], f)
    <3>1. EdSound(e) /\ e.lines = edFiles[f] /\ ~e.modified /\ ~e.warned
      BY NewIsSound DEF EdInv
    <3> HIDE DEF e
    <3>2. Keeps(e, [e EXCEPT !.pattern = ed.pattern])
      BY <3>1, OthersKeep
    <3>3. ed' = [e EXCEPT !.pattern = ed.pattern]
      BY <2>4 DEF e
    <3>4. EdSound(ed') /\ ed'.lines = edSaved'.lines /\ ~ed'.warned
      BY <2>4, <3>1, <3>3, <3>2 DEF EdSound, Fields, Keeps
    <3>5. LinesAreSafe
      BY <2>4, UnwarnedIsSafe
    <3> QED
      BY <2>4, <3>4, <3>5 DEF EdInv
  <2> QED
    BY <2>1, <2>2, <2>3, <2>4 DEF LoadFile
<1>15. CASE EdWrite
  <2>1. PICK r \in EdRanges, f \in DOMAIN edFiles, quit \in BOOLEAN : \E p \in {ParseRange(ed, r)} :
          IF p.fails THEN ed' = p.ed /\ UNCHANGED edDiskVars
          ELSE WriteLines([p.ed EXCEPT !.warned = FALSE], p.start # <<>>,
                          AddressOr(p.start, 1), AddressOr(p.end, Len(p.ed.lines)), f, quit)
    BY <1>15 DEF EdWrite
  <2>u. UNCHANGED edWarned
    BY <1>15 DEF EdWrite
  <2> DEFINE p == ParseRange(ed, r)
             e == [p.ed EXCEPT !.warned = FALSE]
             lo == AddressOr(p.start, 1)
             hi == AddressOr(p.end, Len(p.ed.lines))
             whole == lo = 1 /\ hi = Len(e.lines)
  <2>2. /\ Keeps(ed, p.ed) /\ Keeps(ed, e) /\ EdSound(e) /\ EdSound(p.ed)
        /\ p.ed.lines = ed.lines /\ p.ed.modified = ed.modified /\ e.lines = ed.lines /\ ~e.warned
        /\ ~p.fails /\ p.start = <<>> => p.end = <<>>
    BY <1>0, RangeKeeps
  <2>3. Obeys(ed, p.ed) /\ Obeys(ed, e)
    BY <2>2 DEF Obeys
  <2>4. CASE p.fails
    BY <1>a, <2>1, <2>u, <2>3, <2>4
  <2>5. CASE ~p.fails
    <3>1. WriteLines(e, p.start # <<>>, lo, hi, f, quit)
      BY <2>1, <2>5
    <3>2. p.start = <<>> => lo = 1 /\ hi = Len(e.lines)
      BY <2>2, <2>5 DEF AddressOr
    <3> HIDE DEF e, lo, hi
    <3>3. CASE p.start # <<>> /\ ~RangeFits(e, lo, hi)
      <4>1. ed' = e /\ UNCHANGED edDiskVars
        BY <3>1, <3>3 DEF WriteLines
      <4> QED
        BY <1>a, <2>3, <2>u, <4>1
    <3>4. CASE p.start = <<>> \/ RangeFits(e, lo, hi)
      <4>1. FileWritten(e, lo, hi, f, quit) \/ WriteFails(e, lo, hi, f)
        BY <3>1, <3>4 DEF WriteLines
      <4>2. Len(e.lines) \in Nat /\ IsLines(e.lines)
        BY <2>2, ListsHaveLengths DEF EdSound
      <4>3. lo \in 1 .. Len(e.lines) + 1 /\ hi \in lo - 1 .. Len(e.lines)
        BY <3>2, <3>4, <4>2 DEF RangeFits, InLines
      <4>4. CASE FileWritten(e, lo, hi, f, quit)
        <5>1. /\ edFiles' = [edFiles EXCEPT ![f] = SubSeq(e.lines, lo, hi)]
              /\ edSaved' = IF whole THEN [file |-> f, lines |-> e.lines] ELSE edSaved
              /\ edSpoiled' = (~whole /\ (edSpoiled \/ f = edSaved.file))
              /\ ed' = [e EXCEPT !.modified = @ /\ ~whole,
                                !.quit = IF ~quit THEN "no" ELSE IF whole THEN "wq" ELSE "part"]
          BY <4>4 DEF FileWritten
        <5>2. IsLines(SubSeq(e.lines, lo, hi))
          BY <4>2, <4>3, PartOfLines
        <5>3. whole => edFiles'[f] = e.lines
          <6>1. SubSeq(e.lines, 1, Len(e.lines)) = e.lines
            BY <4>2, WholeOfLines
          <6> QED
            BY <5>1, <6>1
        <5> HIDE DEF whole
        <5>4. /\ EdSound(ed') /\ ed'.lines = e.lines /\ ed'.modified = (e.modified /\ ~whole) /\ ~ed'.warned
              /\ ed'.undo = e.undo /\ (ed'.quit = "no" \/ ed'.quit = "part" \/ whole)
          BY <2>2, <5>1 DEF EdSound, Fields
        <5>5. ed'.modified \/ ed'.lines = edSaved'.lines
          BY <2>2, <5>1, <5>4 DEF EdInv, Keeps
        <5>6. edSaved'.file \in DOMAIN edFiles' /\ (edSpoiled' \/ edFiles'[edSaved'.file] = edSaved'.lines)
          BY <5>1, <5>3 DEF EdInv
        <5>7. \A g \in DOMAIN edFiles' : IsLines(edFiles'[g])
          BY <5>1, <5>2 DEF EdInv
        <5>8. GivesUpLines => LinesAreSafe
          BY <2>2, <5>1, <5>3, <5>4 DEF GivesUpLines, LinesAreSafe
        <5> QED
          BY <5>4, <5>5, <5>6, <5>7, <5>8 DEF EdInv
      <4>5. CASE WriteFails(e, lo, hi, f) /\ UNCHANGED <<edFiles, edSpoiled>>
        BY <1>a, <2>3, <2>u, <4>5 DEF WriteFails, edDiskVars
      <4>6. CASE WriteFails(e, lo, hi, f) /\ ~UNCHANGED <<edFiles, edSpoiled>>
        <5>1. PICK n \in lo - 1 .. hi : edFiles' = [edFiles EXCEPT ![f] = SubSeq(e.lines, lo, n)]
          BY <4>6 DEF WriteFails
        <5>2. ed' = e /\ UNCHANGED edSaved /\ edSpoiled' = (edSpoiled \/ f = edSaved.file)
          BY <4>6 DEF WriteFails
        <5>3. n \in lo - 1 .. Len(e.lines)
          BY <4>2, <4>3
        <5>4. IsLines(SubSeq(e.lines, lo, n))
          BY <4>2, <4>3, <5>3, PartOfLines
        <5>5. \A g \in DOMAIN edFiles' : IsLines(edFiles'[g])
          BY <5>1, <5>4 DEF EdInv
        <5>6. edSaved'.file \in DOMAIN edFiles' /\ (edSpoiled' \/ edFiles'[edSaved'.file] = edSaved'.lines)
          BY <5>1, <5>2 DEF EdInv
        <5>7. EdSound(ed') /\ (ed'.modified \/ ed'.lines = edSaved'.lines) /\ ~ed'.warned
          BY <2>2, <5>2 DEF EdInv, Keeps
        <5>8. ~GivesUpLines
          BY <2>2, <5>2 DEF GivesUpLines, Keeps
        <5> QED
          BY <5>5, <5>6, <5>7, <5>8 DEF EdInv
      <4> QED
        BY <4>1, <4>4, <4>5, <4>6
    <3> QED
      BY <3>3, <3>4
  <2> QED
    BY <2>4, <2>5
<1>16. CASE EdQuit
  <2>1. CASE MustWarn
    BY <1>16, <1>b, <2>1 DEF EdQuit
  <2>2. CASE ~MustWarn
    <3>1. ed' = [ed EXCEPT !.quit = "q"] /\ UNCHANGED <<edDiskVars, edWarned>>
      BY <1>16, <2>2 DEF EdQuit
    <3>2. EdInv'
      BY <3>1 DEF EdInv, EdSound, Fields, edDiskVars
    <3> QED
      BY <2>2, <3>1, <3>2, UnwarnedIsSafe DEF edDiskVars
  <2> QED
    BY <2>1, <2>2
<1>17. CASE EdQuitAnyway
  <2>1. ed' = [ed EXCEPT !.quit = "Q"] /\ UNCHANGED <<edDiskVars, edWarned>>
    BY <1>17 DEF EdQuitAnyway
  <2>2. EdInv' /\ ed'.quit = "Q"
    BY <2>1 DEF EdInv, EdSound, Fields, edDiskVars
  <2> QED
    BY <2>2 DEF LinesAreSafe
<1>18. CASE UNCHANGED edVars
  BY <1>18 DEF edVars, edDiskVars, EdInv, GivesUpLines
<1> QED
  BY <1>1, <1>2, <1>3, <1>4, <1>5, <1>6, <1>7, <1>8, <1>9, <1>10, <1>11, <1>12, <1>13, <1>14, <1>15, <1>16, <1>17, <1>18
  DEF EdNext

\* It implies that the editor loses nothing.
LEMMA NothingIsLost == EdInv => EdLosesNothing
  BY UndoingKeeps DEF EdInv, EdSound, EdLosesNothing

-----------------------------------------------------------------------------
(* Moves and copies.                                                       *)

\* What is left when lines are taken out, line by line.
Removed(v, S, l, at, count) ==
  /\ v \in Seq(S) /\ Len(v) = Len(l) - count
  /\ \A i \in 1 .. Len(l) - count : v[i] = IF i <= at THEN l[i] ELSE l[i + count]

\* Splicing nothing in takes lines out.
LEMMA SpliceIsRemoved ==
  ASSUME NEW S, NEW l \in Seq(S), NEW at \in Nat, NEW count \in Nat, at + count <= Len(l)
  PROVE  Removed(SpliceLines(l, at, count, <<>>), S, l, at, count)
<1>0. <<>> \in Seq(S)
  OBVIOUS
<1>1. PICK none : none \in Seq(S) /\ none = <<>>
  BY <1>0, Zenon
<1>2. Len(none) = 0
  BY <1>1
<1> DEFINE v == SpliceLines(l, at, count, none)
<1>2a. Spliced(v, S, l, at, count, none)
  BY <1>1, SpliceIsSpliced
<1> HIDE DEF v
<1>3. v \in Seq(S) /\ Len(v) = Len(l) - count + Len(none)
  BY <1>2a DEF Spliced
<1>4. \A i \in 1 .. Len(l) - count + Len(none) :
         v[i] = IF i <= at THEN l[i] ELSE IF i <= at + Len(none) THEN none[i - at] ELSE l[i - Len(none) + count]
  BY <1>2a DEF Spliced
<1>5. PICK n \in Nat : n = Len(l)
  BY LenProperties
<1>6. \A i \in 1 .. n - count :
         i \in 1 .. Len(l) - count + Len(none) /\ i - Len(none) + count = i + count /\ (i <= at + Len(none) <=> i <= at)
  BY <1>2, <1>5
<1>7. \A i \in 1 .. n - count : v[i] = IF i <= at THEN l[i] ELSE l[i + count]
  BY <1>4, <1>6
<1>8. Len(v) = n - count
  BY <1>2, <1>3, <1>5
<1> QED
  BY <1>1, <1>3, <1>5, <1>7, <1>8 DEF v, Removed

\* What is put in somewhere is there, and taking it out gives what was.
LEMMA PutInAndTakenOut ==
  ASSUME NEW S, NEW l \in Seq(S), NEW b \in Seq(S), NEW at \in Nat, at <= Len(l)
  PROVE  LET w == SpliceLines(l, at, 0, b)
         IN  SubSeq(w, at + 1, at + Len(b)) = b /\ SpliceLines(w, at, Len(b), <<>>) = l
<1> DEFINE w == SpliceLines(l, at, 0, b)
<1>0. PICK n \in Nat, k \in Nat : n = Len(l) /\ k = Len(b)
  BY LenProperties
<1>a. Spliced(w, S, l, at, 0, b)
  <2>1. 0 \in Nat /\ at + 0 <= Len(l)
    BY <1>0
  <2> QED
    BY <2>1, SpliceIsSpliced
<1> HIDE DEF w
<1>1. w \in Seq(S) /\ Len(w) = n + k
  BY <1>0, <1>a DEF Spliced
<1>2. \A i \in 1 .. n + k : w[i] = IF i <= at THEN l[i] ELSE IF i <= at + k THEN b[i - at] ELSE l[i - k]
  <2>1. \A i \in 1 .. Len(l) - 0 + Len(b) :
           w[i] = IF i <= at THEN l[i] ELSE IF i <= at + Len(b) THEN b[i - at] ELSE l[i - Len(b) + 0]
    BY <1>a DEF Spliced
  <2>2. \A i \in 1 .. n + k : i \in 1 .. Len(l) - 0 + Len(b) /\ i - Len(b) + 0 = i - k
    BY <1>0
  <2> QED
    BY <1>0, <2>1, <2>2
<1>3. SubSeq(w, at + 1, at + k) = b
  <2> DEFINE part == SubSeq(w, at + 1, at + k)
  <2>1. \A i \in at + 1 .. at + k : w[i] \in S
    BY <1>0, <1>1
  <2>2. part \in Seq(S)
    BY <2>1, SubSeqProperties
  <2>3. Len(part) = IF at + 1 <= at + k THEN (at + k) - (at + 1) + 1 ELSE 0
    BY <2>1, SubSeqProperties
  <2>4. \A i \in 1 .. (at + k) - (at + 1) + 1 : part[i] = w[(at + 1) + i - 1]
    BY <2>1, SubSeqProperties
  <2> HIDE DEF part
  <2>5. Len(part) = k
    BY <2>3
  <2>6. \A i \in 1 .. k : part[i] = b[i]
    <3> TAKE i \in 1 .. k
    <3>1. part[i] = w[at + i]
      <4>1. i \in 1 .. (at + k) - (at + 1) + 1 /\ (at + 1) + i - 1 = at + i
        OBVIOUS
      <4> QED
        BY <2>4, <4>1
    <3>2. at + i \in 1 .. n + k /\ ~(at + i <= at) /\ at + i <= at + k /\ at + i - at = i
      BY <1>0
    <3> QED
      BY <1>2, <3>1, <3>2
  <2>7. part = b
    BY <1>0, <2>2, <2>5, <2>6, SeqEqual
  <2> QED
    BY <2>7 DEF part
<1>4. SpliceLines(w, at, k, <<>>) = l
  <2> DEFINE v == SpliceLines(w, at, k, <<>>)
  <2>0. at + k <= Len(w)
    BY <1>0, <1>1
  <2>a. Removed(v, S, w, at, k)
    BY <1>1, <2>0, SpliceIsRemoved
  <2> HIDE DEF v
  <2>1. v \in Seq(S) /\ Len(v) = n
    BY <1>1, <2>a DEF Removed
  <2>2. \A i \in 1 .. n : v[i] = IF i <= at THEN w[i] ELSE w[i + k]
    BY <1>1, <2>a DEF Removed
  <2>3. \A i \in 1 .. n : v[i] = l[i]
    <3> TAKE i \in 1 .. n
    <3>1. CASE i <= at
      <4>1. i \in 1 .. n + k
        OBVIOUS
      <4> QED
        BY <1>2, <2>2, <3>1, <4>1
    <3>2. CASE ~(i <= at)
      <4>1. i + k \in 1 .. n + k /\ ~(i + k <= at) /\ ~(i + k <= at + k) /\ i + k - k = i
        BY <3>2
      <4> QED
        BY <1>2, <2>2, <3>2, <4>1
    <3> QED
      BY <3>1, <3>2
  <2>4. v = l
    BY <1>0, <2>1, <2>3, SeqEqual
  <2> QED
    BY <2>4 DEF v
<1> QED
  BY <1>0, <1>3, <1>4 DEF w

\* After a move or a copy the block is where it was sent, and the others are as they were.
LEMMA TransfersKeepLines == EdInv => MovesKeepLines
<1> SUFFICES ASSUME EdInv, NEW lo \in DOMAIN ed.lines, NEW hi \in DOMAIN ed.lines, NEW dest \in 0 .. Len(ed.lines),
                    lo <= hi, dest \notin lo - 1 .. hi
             PROVE  BlockIsKept(lo, hi, dest)
  BY DEF MovesKeepLines
<1>1. EdSound(ed)
  BY DEF EdInv
<1>2. PICK S : ed.lines \in Seq(S)
  BY <1>1 DEF EdSound, IsLines
<1>3. PICK N \in Nat : N = Len(ed.lines) /\ DOMAIN ed.lines = 1 .. N
  BY <1>2, LenProperties
<1>4. lo \in Nat /\ hi \in Nat /\ 1 <= lo /\ hi <= N /\ dest \in Nat /\ dest <= N
  BY <1>3
<1> DEFINE n == hi - lo + 1
           block == SubSeq(ed.lines, lo, hi)
           rest == SpliceLines(ed.lines, lo - 1, n, <<>>)
           at == IF dest >= lo THEN dest - n ELSE dest
           moved == TransferLines(ed, <<lo>>, <<hi>>, dest, TRUE)
           copied == TransferLines(ed, <<lo>>, <<hi>>, dest, FALSE)
<1>5. block \in Seq(S) /\ Len(block) = n
  <2>1. \A i \in lo .. hi : ed.lines[i] \in S
    BY <1>2, <1>3, <1>4
  <2>2. block \in Seq(S) /\ Len(block) = IF lo <= hi THEN hi - lo + 1 ELSE 0
    BY <1>4, <2>1, SubSeqProperties
  <2> QED
    BY <2>2
<1>6. n \in Nat /\ n >= 1 /\ at \in Nat /\ at <= N - n
  <2>1. dest < lo - 1 \/ hi < dest
    BY <1>4
  <2>2. n \in Nat /\ n >= 1
    BY <1>4
  <2>3. CASE dest < lo - 1
    <3>1. at = dest /\ dest <= N - n
      BY <1>4, <2>3
    <3> QED
      BY <1>4, <2>2, <3>1
  <2>4. CASE hi < dest
    <3>1. at = dest - n /\ dest - n >= 0
      BY <1>4, <2>4
    <3> HIDE DEF at, n
    <3>2. dest - n \in Nat /\ dest - n <= N - n
      BY <1>4, <2>2, <3>1
    <3> QED
      BY <2>2, <3>1, <3>2
  <2> QED
    BY <2>1, <2>3, <2>4
<1>7. rest \in Seq(S) /\ Len(rest) = N - n
  <2>1. lo - 1 \in Nat /\ n \in Nat /\ (lo - 1) + n <= Len(ed.lines)
    BY <1>3, <1>4
  <2> HIDE DEF n
  <2>a. Removed(rest, S, ed.lines, lo - 1, n)
    BY <1>2, <2>1, SpliceIsRemoved
  <2> HIDE DEF rest
  <2>2. rest \in Seq(S) /\ Len(rest) = Len(ed.lines) - n
    BY <2>a DEF Removed
  <2> QED
    BY <1>3, <1>6, <2>1, <2>2
<1>8. RangeFits(ed, lo, hi) /\ IsDest(ed, dest) /\ AddressOr(<<lo>>, ed.current) = lo /\ AddressOr(<<hi>>, ed.current) = hi
  <2>1. \A x, y : AddressOr(<<x>>, y) = x
    BY DEF AddressOr
  <2> QED
    BY <1>3, <1>4, <2>1 DEF RangeFits, InLines, IsDest
<1>9. moved = ModifyLines(ed, SpliceLines(rest, at, 0, block), at + Len(block))
  <2>1. Len(block) = n
    BY <1>5
  <2> QED
    BY <1>8, <2>1 DEF TransferLines, OnLines, OnRange
<1>10. copied = ModifyLines(ed, SpliceLines(ed.lines, dest, 0, block), dest + Len(block))
  BY <1>8 DEF TransferLines, OnLines, OnRange
<1> HIDE DEF moved, copied, rest, at, block, n
<1>11. IsLines(ed.lines) /\ IsLines(rest) /\ IsLines(block)
  BY <1>2, <1>5, <1>7, ListOf
<1>12. /\ IsLines(SpliceLines(rest, at, 0, block)) /\ Len(SpliceLines(rest, at, 0, block)) = Len(rest) - 0 + Len(block)
       /\ IsLines(SpliceLines(ed.lines, dest, 0, block))
       /\ Len(SpliceLines(ed.lines, dest, 0, block)) = Len(ed.lines) - 0 + Len(block)
  <2>1. at + 0 <= Len(rest) /\ dest + 0 <= Len(ed.lines) /\ at \in Nat /\ 0 \in Nat /\ dest \in Nat
    BY <1>3, <1>4, <1>6, <1>7
  <2> QED
    BY <1>11, <2>1, SpliceOfLines
<1>13. moved.lines = SpliceLines(rest, at, 0, block) /\ moved.current = at + n /\ at + n \in n .. Len(moved.lines)
  <2>1. at + Len(block) \in 0 .. Len(SpliceLines(rest, at, 0, block))
    BY <1>5, <1>6, <1>7, <1>12
  <2>2. moved.lines = SpliceLines(rest, at, 0, block) /\ moved.current = at + Len(block)
    BY <1>1, <1>9, <1>12, <2>1, ModifyKeeps
  <2> QED
    BY <1>5, <1>6, <1>7, <1>12, <2>2
<1>14. copied.lines = SpliceLines(ed.lines, dest, 0, block)
  <2>1. dest + Len(block) \in 0 .. Len(SpliceLines(ed.lines, dest, 0, block))
    BY <1>3, <1>4, <1>5, <1>6, <1>12
  <2> QED
    BY <1>1, <1>10, <1>12, <2>1, ModifyKeeps
<1>15. /\ SubSeq(moved.lines, at + 1, at + Len(block)) = block
       /\ SpliceLines(moved.lines, at, Len(block), <<>>) = rest
  <2>1. at \in Nat /\ at <= Len(rest)
    BY <1>6, <1>7
  <2> QED
    BY <1>5, <1>7, <1>13, <2>1, PutInAndTakenOut
<1>16. SpliceLines(copied.lines, dest, Len(block), <<>>) = ed.lines
  <2>1. dest \in Nat /\ dest <= Len(ed.lines)
    BY <1>3, <1>4
  <2> QED
    BY <1>2, <1>5, <1>14, <2>1, PutInAndTakenOut
<1>17. (at + n) - n = at /\ (at + n) - n + 1 = at + 1
  BY <1>6
<1> QED
  BY <1>5, <1>13, <1>15, <1>16, <1>17 DEF BlockIsKept, block, rest, n, moved, copied

-----------------------------------------------------------------------------
(* What the line editor promises.                                          *)

\* Lines that are left behind are in a file, or were warned about, or were given up with Q
\* or with a wq of a part; otherwise the file that held them has been written over in part
\* (ed.rs cmd_quit, cmd_edit, cmd_write).
LEMMA EditorGivesNothingUp == EdSpec => NothingIsGivenUp
<1>1. EdInv /\ [EdNext]_edVars => EdInv' /\ [GivesUpLines => LinesAreSafe]_edVars
  BY EdStep
<1> QED
  BY <1>1, EdStarts, PTL DEF EdSpec, NothingIsGivenUp

\* Whatever commands are given, what was edited is called modified until it is written or
\* given up, a warning is about the lines that are there, an undo gives back the lines,
\* lines that are moved or copied are all there (ed.rs execute, cmd_undo, cmd_transfer), and
\* lines that are left behind are safe (EditorGivesNothingUp).
THEOREM EditorKeepsItsLines == EdSpec => LinesAreKept
<1>1. EdInv => EdLosesNothing /\ MovesKeepLines
  BY NothingIsLost, TransfersKeepLines
<1>2. EdInv /\ [EdNext]_edVars => EdInv'
  BY EdStep
<1> QED
  BY <1>1, <1>2, EdStarts, EditorGivesNothingUp, PTL DEF EdSpec, LinesAreKept
=============================================================================
