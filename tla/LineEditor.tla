----------------------------- MODULE LineEditor -----------------------------
(***************************************************************************)
(* The line editor `mj ed` (mj/src/ed.rs): a list of lines, the current    *)
(* one, marks, one level of undo, and commands with addresses.  A command  *)
(* that fails says so and changes nothing but what was read before it      *)
(* failed.                                                                 *)
(*                                                                         *)
(* Simplifications: a pattern is a letter and matches the lines it is in;  *)
(* what is printed, the prompt and shell commands are left out.  A file    *)
(* that can be named can be opened or not, and a write that fails leaves   *)
(* the file alone or cut between two lines.  The value of an address is    *)
(* <<n>>, or <<>> when it was left out.                                    *)
(***************************************************************************)
EXTENDS TextBytes

CONSTANTS
    EdFiles,        \* the lines of the files there are, by name
    EdInputs,       \* the lines that are typed after a, i and c
    EdAddresses,    \* the addresses that are typed: [base, step]
    EdPatterns,     \* letters that are looked for
    MaxCommands     \* bound: commands

IsLines(lines) == lines \in Seq(ToSet(lines))

ASSUME EdAssumption ==
    /\ MaxCommands \in Nat
    /\ \A f \in DOMAIN EdFiles : IsLines(EdFiles[f])
    /\ \A input \in EdInputs : IsLines(input)

VARIABLES
    ed,             \* the editor
    edFiles,        \* the files
    edSaved,        \* history: what was last read or written as a whole, [file, lines]
    edSpoiled,      \* history: since then, a part or a failed write has gone to that file
    edWarned,       \* history: the lines that were last warned about, <<lines>>, or <<>>
    edCommands      \* commands so far (bounds the run)

\* What is on the disk, what the user was told, and both.
edDiskVars == <<edFiles, edSaved, edSpoiled>>
edVars == <<ed, edDiskVars, edWarned, edCommands>>

\* How the editor was left: not yet, by q or the end of the input, by Q, or by wq, with the
\* whole buffer written or a part of it.
Left == {"no", "q", "Q", "wq", "part"}

NoPattern == "nothing"
NewEd(lines, name) ==
    [lines |-> lines, current |-> Len(lines), modified |-> FALSE, undo |-> <<>>, marks |-> <<>>,
     pattern |-> NoPattern, name |-> name, warned |-> FALSE, quit |-> "no"]

EdInit ==
    /\ edFiles = EdFiles /\ edSpoiled = FALSE /\ edWarned = <<>> /\ edCommands = 0
    /\ \E f \in DOMAIN EdFiles :
          ed = NewEd(EdFiles[f], f) /\ edSaved = [file |-> f, lines |-> EdFiles[f]]

-----------------------------------------------------------------------------
(* Addresses.                                                              *)

LineMatches(line, p) == p \in ToSet(line)

\* The places looked at, in order: from the line behind (before) the current one, around the
\* end.  Backward from line 0 the last one is (2^64 - 1) % n, as a release build computes it.
HugeModulo == <<0, 1, 0, 3, 0>>
SearchOrder(e, forward) ==
    LET n == Len(e.lines)
    IN  [k \in 1..n |-> IF forward THEN ((e.current + k - 1) % n) + 1
                        ELSE IF e.current + n - k >= 1 THEN ((e.current + n - k - 1) % n) + 1
                        ELSE HugeModulo[n] + 1]
FoundLine(e, p, forward) ==
    LET hits == SelectSeq(SearchOrder(e, forward), LAMBDA i : LineMatches(e.lines[i], p))
    IN  IF hits = <<>> THEN <<>> ELSE <<hits[1]>>

PatternOf(e, p) == IF p = "" THEN e.pattern ELSE p

\* The base of an address, or nothing where it has none or fails.
AddressBase(e, a) ==
    CASE a.base = "." -> <<e.current>>
      [] a.base = "$" -> <<Len(e.lines)>>
      [] a.base = "number" -> <<a.n>>
      [] a.base = "mark" -> e.marks
      [] a.base = "/" -> FoundLine(e, PatternOf(e, a.pattern), TRUE)
      [] a.base = "?" -> FoundLine(e, PatternOf(e, a.pattern), FALSE)
      [] a.base = "" -> <<>>
AddressFails(e, a) == a.base \in {"mark", "/", "?"} /\ AddressBase(e, a) = <<>>
AddressOr(x, default) == IF x = <<>> THEN default ELSE x[1]
AddressValue(e, a) == IF a.step = 0 THEN AddressBase(e, a) ELSE <<AddressOr(AddressBase(e, a), e.current) + a.step>>

InLines(e, x) == x \in 1..Len(e.lines)
IsDest(e, x) == x \in 0..Len(e.lines)
RangeFits(e, lo, hi) == InLines(e, lo) /\ InLines(e, hi) /\ lo <= hi

EdRanges ==
    {[sep |-> "none", first |-> a, second |-> a] : a \in EdAddresses}
    \cup [sep : {",", ";"}, first : EdAddresses, second : EdAddresses]

\* After a semicolon the second address starts from the first, if that is a line.
RangeFrom(e, r, first) ==
    LET at == IF r.sep = ";" /\ first # <<>> /\ InLines(e, AddressOr(first, 0)) THEN [e EXCEPT !.current = first[1]] ELSE e
        second == AddressValue(at, r.second)
        from == IF r.sep = ";" THEN at.current ELSE 1
    IN  IF AddressFails(e, r.first) THEN [ed |-> e, fails |-> TRUE, start |-> <<>>, end |-> <<>>]
        ELSE IF r.sep = "none" THEN [ed |-> e, fails |-> FALSE, start |-> first, end |-> first]
        ELSE [ed |-> at, fails |-> AddressFails(at, r.second),
              start |-> <<AddressOr(first, from)>>, end |-> <<AddressOr(second, Len(e.lines))>>]
ParseRange(e, r) == RangeFrom(e, r, AddressValue(e, r.first))

-----------------------------------------------------------------------------
(* Commands.                                                               *)

CheckpointLines(e) == [e EXCEPT !.undo = <<e.lines, e.current>>]
SpliceLines(lines, at, count, new) ==
    SubSeq(lines, 1, at) \o new \o SubSeq(lines, Smaller(at + count, Len(lines)) + 1, Len(lines))

\* A command that modifies: the old lines are kept for undo.
ModifyLines(e, lines, current) == [CheckpointLines(e) EXCEPT !.lines = lines, !.current = current, !.modified = TRUE]

\* What a command does with its range, which defaults to lo..hi; without one that fits, nothing.
OnRange(e, s, t, lo, hi, Do(_, _)) ==
    IF RangeFits(e, AddressOr(s, lo), AddressOr(t, hi)) THEN Do(AddressOr(s, lo), AddressOr(t, hi)) ELSE e
OnLines(e, s, t, Do(_, _)) == OnRange(e, s, t, e.current, e.current, Do)

PrintLines(e, s, t) == OnLines(e, s, t, LAMBDA lo, hi : [e EXCEPT !.current = hi])

\* A bare address, and =, print and stay where they are.
BareAddress(e, s, t) == e

InsertLines(e, t, before, input) ==
    LET target == AddressOr(t, e.current)
        at == IF before THEN Larger(target - 1, 0) ELSE target
    IN  IF ~IsDest(e, target) \/ input = <<>> THEN e
        ELSE ModifyLines(e, SpliceLines(e.lines, at, 0, input), at + Len(input))

ChangeLines(e, s, t, input) ==
    OnLines(e, s, t, LAMBDA lo, hi :
        ModifyLines(e, SpliceLines(e.lines, lo - 1, hi - lo + 1, input), lo - 1 + Len(input)))

DeleteLines(e, s, t) ==
    OnLines(e, s, t, LAMBDA lo, hi :
        LET left == SpliceLines(e.lines, lo - 1, hi - lo + 1, <<>>)
        IN  ModifyLines(e, left, Smaller(lo, Len(left))))

\* A letter is replaced where it first is, at its n-th place, or everywhere.
Substituted(line, p, new, which) ==
    LET place(i) == Cardinality({j \in 1..i : line[j] = p})
        hit(i) == line[i] = p /\ (which = 0 \/ place(i) = which)
    IN  [i \in DOMAIN line |-> IF hit(i) THEN new ELSE line[i]]
SubstituteLines(e, s, t, p, new, which) ==
    OnLines(e, s, t, LAMBDA lo, hi :
        LET q == PatternOf(e, p)
            hits == {i \in lo..hi : LineMatches(e.lines[i], q)}
        IN  IF hits = {} THEN [e EXCEPT !.pattern = q]
            ELSE [ModifyLines(e, [i \in DOMAIN e.lines |-> IF i \in hits THEN Substituted(e.lines[i], q, new, which)
                                                      ELSE e.lines[i]], Max(hits))
                  EXCEPT !.pattern = q])

KeptLines(lines, dropped) ==
    LET kept == DOMAIN lines \ dropped
    IN  [k \in 1..Cardinality(kept) |-> lines[CHOOSE i \in kept : Cardinality({j \in kept : j <= i}) = k]]

\* The lines with (without) the pattern are printed, deleted or substituted in.
GlobalLines(e, s, t, p, invert, body, new) ==
    OnRange(e, s, t, 1, Len(e.lines), LAMBDA lo, hi :
        LET q == PatternOf(e, p)
            f == [e EXCEPT !.pattern = q]
            targets == {i \in lo..hi : LineMatches(e.lines[i], q) # invert}
            left == KeptLines(e.lines, targets)
            hits == {i \in targets : LineMatches(e.lines[i], q)}
            changed == [i \in DOMAIN e.lines |-> IF i \in hits THEN Substituted(e.lines[i], q, new, 1) ELSE e.lines[i]]
        IN  CASE q = NoPattern -> e
              [] body = "p" -> IF targets = {} THEN f ELSE [f EXCEPT !.current = Max(targets)]
              [] body = "d" -> IF targets = {} THEN CheckpointLines(f) ELSE ModifyLines(f, left, Len(left))
              [] body = "s" -> IF hits = {} THEN CheckpointLines(f) ELSE ModifyLines(f, changed, Max(hits)))

\* Mutant of TransferLines: the current line is counted with the lines taken from before it.
TransferUnadjusted(e, s, t, dest, moving) ==
    OnLines(e, s, t, LAMBDA lo, hi :
        LET block == SubSeq(e.lines, lo, hi)
            rest == IF moving THEN SpliceLines(e.lines, lo - 1, Len(block), <<>>) ELSE e.lines
            at == IF moving /\ dest >= lo THEN dest - Len(block) ELSE dest
        IN  IF ~IsDest(e, dest) \/ (moving /\ dest \in lo - 1..hi) THEN e
            ELSE ModifyLines(e, SpliceLines(rest, at, 0, block), dest + Len(block)))

\* A block is moved or copied behind a line that is not in it.
TransferLines(e, s, t, dest, moving) ==
    OnLines(e, s, t, LAMBDA lo, hi :
        LET block == SubSeq(e.lines, lo, hi)
            rest == IF moving THEN SpliceLines(e.lines, lo - 1, Len(block), <<>>) ELSE e.lines
            at == IF moving /\ dest >= lo THEN dest - Len(block) ELSE dest
        IN  IF ~IsDest(e, dest) \/ (moving /\ dest \in lo - 1..hi) THEN e
            ELSE ModifyLines(e, SpliceLines(rest, at, 0, block), at + Len(block)))

JoinLines(e, s, t) ==
    OnRange(e, s, t, e.current, Smaller(e.current + 1, Len(e.lines)), LAMBDA lo, hi :
        IF lo = hi THEN e
        ELSE ModifyLines(e, SpliceLines(e.lines, lo - 1, hi - lo + 1, <<FlattenSeq(SubSeq(e.lines, lo, hi))>>), lo))

MarkLine(e, t) == IF InLines(e, AddressOr(t, e.current)) THEN [e EXCEPT !.marks = <<AddressOr(t, e.current)>>] ELSE e

ReadIn(e, t, name) ==
    LET at == AddressOr(t, Len(e.lines))
        new == edFiles[name]
    IN  IF ~IsDest(e, at) THEN e
        ELSE IF new = <<>> THEN CheckpointLines(e)
        ELSE ModifyLines(e, SpliceLines(e.lines, at, 0, new), at + Len(new))

UndoLines(e) ==
    IF e.undo = <<>> THEN e
    ELSE [e EXCEPT !.lines = e.undo[1], !.current = Smaller(e.undo[2], Len(e.undo[1])),
                   !.undo = <<e.lines, e.current>>, !.modified = TRUE]

-----------------------------------------------------------------------------
(* The command loop.                                                       *)

CommandLine == edCommands < MaxCommands /\ ed.quit = "no" /\ edCommands' = edCommands + 1

\* A line is parsed and obeyed: Do is given the editor and the range.  The warning is
\* forgotten, unless it is an address that fails.
ObeyLine(Do(_, _, _)) ==
    /\ CommandLine
    /\ \E r \in EdRanges : \E p \in {ParseRange(ed, r)} :
          ed' = IF p.fails THEN p.ed ELSE Do([p.ed EXCEPT !.warned = FALSE], p.start, p.end)
    /\ UNCHANGED <<edDiskVars, edWarned>>

EdPrint == ObeyLine(PrintLines)
EdBare == ObeyLine(BareAddress)
EdInsert == \E input \in EdInputs, before \in BOOLEAN : ObeyLine(LAMBDA e, s, t : InsertLines(e, t, before, input))
EdChange == \E input \in EdInputs : ObeyLine(LAMBDA e, s, t : ChangeLines(e, s, t, input))
EdDelete == ObeyLine(DeleteLines)
EdSubstitute ==
    \E p \in EdPatterns, new \in EdPatterns, which \in 0..2 : ObeyLine(LAMBDA e, s, t : SubstituteLines(e, s, t, p, new, which))
EdGlobal ==
    \E p \in EdPatterns, invert \in BOOLEAN, body \in {"p", "d", "s"} :
        ObeyLine(LAMBDA e, s, t : GlobalLines(e, s, t, p, invert, body, "z"))
EdTransfer ==
    \E a \in EdAddresses, moving \in BOOLEAN :
        ObeyLine(LAMBDA e, s, t : IF AddressFails(e, a) \/ AddressValue(e, a) = <<>> THEN e ELSE TransferLines(e, s, t, AddressValue(e, a)[1], moving))
EdJoin == ObeyLine(JoinLines)
EdMark == ObeyLine(LAMBDA e, s, t : MarkLine(e, t))
EdRead == \E f \in DOMAIN edFiles : ObeyLine(LAMBDA e, s, t : ReadIn(e, t, f))
EdUndo == ObeyLine(LAMBDA e, s, t : UndoLines(e))
EdName == \E f \in DOMAIN edFiles : ObeyLine(LAMBDA e, s, t : [e EXCEPT !.name = f])

\* e, q and the end of the input warn about a modified buffer, unless the line before was
\* answered with the warning.
MustWarn == ed.modified /\ ~ed.warned
Warn == ed' = [ed EXCEPT !.warned = TRUE] /\ edWarned' = <<ed.lines>> /\ UNCHANGED edDiskVars

\* A file that cannot be read (f is <<>> then) is looked for only after the warning.
LoadFile(f) ==
    \/ ed' = [ed EXCEPT !.warned = FALSE] /\ UNCHANGED edDiskVars
    \/ /\ ed' = [NewEd(edFiles[f], f) EXCEPT !.pattern = ed.pattern]
       /\ edSaved' = [file |-> f, lines |-> edFiles[f]] /\ edSpoiled' = FALSE
       /\ UNCHANGED edFiles

\* Mutant of EdEdit: e takes the file as E does in other editors, without a warning.
EdEditUnasked ==
    /\ CommandLine
    /\ \E f \in DOMAIN edFiles : LoadFile(f) /\ UNCHANGED edWarned

EdEdit ==
    /\ CommandLine
    /\ \E f \in DOMAIN edFiles :
          IF MustWarn THEN Warn ELSE LoadFile(f) /\ UNCHANGED edWarned

\* Lines lo to hi become the file; only the whole buffer makes it an unmodified one.
FileWritten(e, lo, hi, f, quit) ==
    LET whole == lo = 1 /\ hi = Len(e.lines)
    IN  /\ edFiles' = [edFiles EXCEPT ![f] = SubSeq(e.lines, lo, hi)]
        /\ edSaved' = IF whole THEN [file |-> f, lines |-> e.lines] ELSE edSaved
        /\ edSpoiled' = (~whole /\ (edSpoiled \/ f = edSaved.file))
        /\ ed' = [e EXCEPT !.modified = @ /\ ~whole,
                          !.quit = IF ~quit THEN "no" ELSE IF whole THEN "wq" ELSE "part"]

\* The file cannot be opened, or the disk is full: wq does not quit then.
WriteFails(e, lo, hi, f) ==
    /\ ed' = e /\ UNCHANGED edSaved
    /\ \/ UNCHANGED <<edFiles, edSpoiled>>
       \/ \E n \in lo - 1..hi : edFiles' = [edFiles EXCEPT ![f] = SubSeq(e.lines, lo, n)]
          /\ edSpoiled' = (edSpoiled \/ f = edSaved.file)

\* w and wq; the whole buffer without a range.
WriteLines(e, named, lo, hi, f, quit) ==
    IF named /\ ~RangeFits(e, lo, hi) THEN ed' = e /\ UNCHANGED edDiskVars
    ELSE FileWritten(e, lo, hi, f, quit) \/ WriteFails(e, lo, hi, f)
EdWrite ==
    /\ CommandLine
    /\ \E r \in EdRanges, f \in DOMAIN edFiles, quit \in BOOLEAN : \E p \in {ParseRange(ed, r)} :
          IF p.fails THEN ed' = p.ed /\ UNCHANGED edDiskVars
          ELSE WriteLines([p.ed EXCEPT !.warned = FALSE], p.start # <<>>,
                          AddressOr(p.start, 1), AddressOr(p.end, Len(p.ed.lines)), f, quit)
    /\ UNCHANGED edWarned

\* q, and the end of the input.
EdQuit ==
    /\ CommandLine
    /\ IF MustWarn THEN Warn ELSE ed' = [ed EXCEPT !.quit = "q"] /\ UNCHANGED <<edDiskVars, edWarned>>

\* Q does not ask.
EdQuitAnyway == CommandLine /\ ed' = [ed EXCEPT !.quit = "Q"] /\ UNCHANGED <<edDiskVars, edWarned>>

EdNext ==
    \/ EdPrint \/ EdBare \/ EdInsert \/ EdChange \/ EdDelete \/ EdSubstitute \/ EdGlobal \/ EdTransfer \/ EdJoin
    \/ EdMark \/ EdRead \/ EdUndo \/ EdName \/ EdEdit \/ EdWrite \/ EdQuit \/ EdQuitAnyway

EdSpec == EdInit /\ [][EdNext]_edVars

-----------------------------------------------------------------------------
\* The current line is one there is, or 0, which `1c` without input leaves also in a buffer
\* that has lines (ed.rs:459), against "`0` only when the buffer is empty" (ed.rs:95); a second u takes the first back; a buffer that
\* is not called modified is what was last read or written as a whole, and that file still
\* holds it, unless a part or a failed write went over it since; and who has been warned
\* has been warned about the changed lines that are there now.
EdLosesNothing ==
    /\ ed.current \in 0..Len(ed.lines)
    /\ ed.undo # <<>> => UndoLines(UndoLines(ed)).lines = ed.lines
    /\ ~ed.modified => ed.lines = edSaved.lines
    /\ ~edSpoiled => edFiles[edSaved.file] = edSaved.lines
    /\ ed.warned => ed.modified /\ edWarned = <<ed.lines>>

\* The lines are given up: by leaving the editor, or when they are neither in the buffer
\* any more nor what u would bring back.
GivesUpLines ==
    \/ ed.quit = "no" /\ ed'.quit # "no"
    \/ ed'.lines # ed.lines /\ (ed'.undo = <<>> \/ ed'.undo[1] # ed.lines)

\* A file holds them, or the user was warned about just these lines, or said Q.  The code
\* makes two exceptions: a wq of a part is taken at its word and leaves without the rest,
\* and lines called unmodified may be in no file any more, when a part of the buffer or a
\* write that failed went over the file that held them.
LinesAreSafe ==
    \/ \E f \in DOMAIN edFiles' : edFiles'[f] = ed.lines
    \/ edWarned = <<ed.lines>>
    \/ ed'.quit \in {"Q", "part"}
    \/ edSpoiled

\* Nobody loses lines unawares (ed.rs execute, cmd_edit, cmd_quit, cmd_write).
NothingIsGivenUp == [][GivesUpLines => LinesAreSafe]_edVars

\* Lines lo to hi, moved after line dest, are there, the last of them as the current line,
\* and the others are what is left without them; taken out again, a copy has not been made.
BlockIsKept(lo, hi, dest) ==
    LET moved == TransferLines(ed, <<lo>>, <<hi>>, dest, TRUE)
        copied == TransferLines(ed, <<lo>>, <<hi>>, dest, FALSE)
        n == hi - lo + 1
        to == moved.current
    IN  /\ to \in n..Len(moved.lines) /\ SubSeq(moved.lines, to - n + 1, to) = SubSeq(ed.lines, lo, hi)
        /\ SpliceLines(moved.lines, to - n, n, <<>>) = SpliceLines(ed.lines, lo - 1, n, <<>>)
        /\ SpliceLines(copied.lines, dest, n, <<>>) = ed.lines

\* Moving or copying lines loses none and keeps the order of the lines moved and of the
\* others; the last line moved is the current one.
MovesKeepLines ==
    \A lo, hi \in DOMAIN ed.lines, dest \in 0..Len(ed.lines) :
        (lo <= hi /\ dest \notin lo - 1..hi) => BlockIsKept(lo, hi, dest)

\* In the line editor nobody loses lines unawares: nothing is called unmodified that is not,
\* a warning is about the lines there are, u twice is nothing, lines that are moved or copied
\* are all still there, and none are given up but as NothingIsGivenUp allows.
LinesAreKept == [](EdLosesNothing /\ MovesKeepLines) /\ NothingIsGivenUp
=============================================================================
