----------------------------- MODULE LspAnswers -----------------------------
(***************************************************************************)
(* How the language client reads what a server answers                     *)
(* (majestic-lsp/manager.rs): positions, lists of edits, outlines.         *)
(*                                                                         *)
(* A reply is Null (null, an error, a timeout, something that does not     *)
(* parse) or a record; a position is <<line, character>>; a uri is a path, *)
(* or NotAFile.  Labels, titles and names are values without structure.    *)
(***************************************************************************)
EXTENDS TextBytes

CONSTANTS Null, NotAFile

-----------------------------------------------------------------------------
(* Positions and bytes.                                                    *)

\* A line or column past the end is taken as the end.
PositionToByte(t, p) ==
    IF p[1] >= Len(LineStarts(t)) THEN Bytes(t)
    ELSE LET s == LineStarts(t)[p[1] + 1]
         IN  ByteOf(t, Smaller(s + p[2], LineEnd(t, s)))

ByteToPosition(t, b) ==
    LET i == CharOf(t, b)
    IN  <<LineOf(t, i), i - LineStarts(t)[LineOf(t, i) + 1]>>

NotAfter(p, q) == p[1] < q[1] \/ (p[1] = q[1] /\ p[2] <= q[2])
DiagnosticCovers(range, p) == NotAfter(range.start, p) /\ NotAfter(p, range.end)

ByteRange(t, range) ==
    LET start == PositionToByte(t, range.start)
    IN  <<start, Larger(PositionToByte(t, range.end), start)>>

SeverityOf(severity) ==
    IF severity \in {"warning", "information", "hint"} THEN severity ELSE "error"

ToCoreDiagnostic(t, d) == [range |-> ByteRange(t, d.range), severity |-> SeverityOf(d.severity)]

-----------------------------------------------------------------------------
(* Edits.                                                                  *)

\* Mutant of LastFirst: the edits are applied from the front.
FirstFirst(spans) == SortSeq(spans, LAMBDA a, b : a.lo < b.lo)

\* Edits from the back to the front; those of one start keep their order.
LastFirst(spans) ==
    LET number == [i \in DOMAIN spans |-> [at |-> i, span |-> spans[i]]]
        earlier(a, b) == a.span.lo > b.span.lo \/ (a.span.lo = b.span.lo /\ a.at < b.at)
    IN  [i \in DOMAIN spans |-> SortSeq(number, earlier)[i].span]

Spans(t, edits) ==
    [i \in DOMAIN edits |-> [lo |-> ByteRange(t, edits[i])[1], hi |-> ByteRange(t, edits[i])[2],
                             new |-> edits[i].new]]

ApplyTextEdits(t, edits) ==
    FoldLeft(LAMBDA text, s : Splice(text, s.lo, s.hi, s.new), t, LastFirst(Spans(t, edits)))

\* Nothing to do, and nothing that would change, is no reformat.
FetchFormatting(reply, snapshot) ==
    IF reply = Null \/ reply.edits = <<>> THEN Null
    ELSE LET formatted == ApplyTextEdits(snapshot, reply.edits)
         IN  IF formatted = snapshot THEN Null ELSE [text |-> formatted]

IsFile(uri) == uri # NotAFile

RenameEdit(path, e) == [path |-> path, start |-> e.start, end |-> e.end, new |-> e.new]

\* Batches per document: the list form wins over the map form, whose files come in any
\* order; file operations and what is not a file are skipped.
WorkspaceEditToEdits(edit) ==
    LET batches == IF edit.documentChanges # Null THEN edit.documentChanges
                   ELSE IF edit.changes # Null THEN edit.changes ELSE <<>>
        texts == SelectSeq(batches, LAMBDA b : b.type = "edit" /\ IsFile(b.uri))
    IN  FlattenSeq([i \in DOMAIN texts |->
                       [j \in DOMAIN texts[i].edits |-> RenameEdit(texts[i].uri, texts[i].edits[j])]])

FetchRename(reply) == IF reply = Null THEN <<>> ELSE WorkspaceEditToEdits(reply)

-----------------------------------------------------------------------------
(* Places.                                                                 *)

FetchGoto(reply) ==
    IF reply = Null \/ reply.locations = <<>> THEN Null
    ELSE LET first == Head(reply.locations)
         IN  IF IsFile(first.uri) THEN [path |-> first.uri, at |-> first.start] ELSE Null

\* The line of a file that can be read, without its margins; else nothing.
PreviewLine(files, path, line) ==
    IF files[path] = Null \/ line >= Len(files[path]) THEN Null ELSE files[path][line + 1]

FetchReferences(reply, files) ==
    IF reply = Null THEN <<>>
    ELSE LET inFiles == SelectSeq(reply.locations, LAMBDA l : IsFile(l.uri))
         IN  [i \in DOMAIN inFiles |->
                 [path |-> inFiles[i].uri, at |-> inFiles[i].start,
                  preview |-> PreviewLine(files, inFiles[i].uri, inFiles[i].start[1])]]

FetchWorkspaceSymbols(reply) ==
    IF reply = Null \/ reply.type # "flat" THEN <<>>
    ELSE LET inFiles == SelectSeq(reply.symbols, LAMBDA s : IsFile(s.uri))
         IN  [i \in DOMAIN inFiles |->
                 [path |-> inFiles[i].uri, at |-> inFiles[i].start, preview |-> inFiles[i].name]]

FetchDocumentHighlight(reply, snapshot) ==
    IF reply = Null THEN <<>>
    ELSE [i \in DOMAIN reply.highlights |->
             [range |-> ByteRange(snapshot, reply.highlights[i]),
              write |-> reply.highlights[i].kind = "write"]]

Padding(wanted) == IF wanted THEN <<" ">> ELSE <<>>
FetchInlayHints(reply, snapshot) ==
    IF reply = Null THEN <<>>
    ELSE [i \in DOMAIN reply.hints |->
             LET h == reply.hints[i]
             IN  [byte |-> PositionToByte(snapshot, h.at),
                  text |-> Padding(h.left) \o FlattenSeq(h.parts) \o Padding(h.right)]]

FetchFoldingRanges(reply) ==
    IF reply = Null THEN <<>>
    ELSE [i \in DOMAIN reply.ranges |-> [start |-> reply.ranges[i].start, end |-> reply.ranges[i].end]]

\* An outline: a symbol before its members, each with its depth.
RECURSIVE FlattenSymbol(_, _)
FlattenSymbol(node, depth) ==
    <<[name |-> node.name, at |-> node.at, depth |-> depth]>>
    \o FlattenSeq([i \in DOMAIN node.children |-> FlattenSymbol(node.children[i], depth + 1)])

FetchDocumentSymbols(reply) ==
    IF reply = Null THEN <<>>
    ELSE IF reply.type = "nested"
         THEN FlattenSeq([i \in DOMAIN reply.symbols |-> FlattenSymbol(reply.symbols[i], 0)])
         ELSE [i \in DOMAIN reply.symbols |->
                  [name |-> reply.symbols[i].name, at |-> reply.symbols[i].at, depth |-> 0]]

-----------------------------------------------------------------------------
(* What is shown at the cursor.                                            *)

FetchCompletion(reply) ==
    IF reply = Null THEN <<>>
    ELSE [i \in DOMAIN reply.items |->
             LET item == reply.items[i]
             IN  [label |-> item.label,
                  insert |-> IF item.insert = Null THEN item.label ELSE item.insert]]

\* An action has edits, a command, or both; a bare command has no edits.
FetchCodeActions(reply) ==
    IF reply = Null THEN <<>>
    ELSE [i \in DOMAIN reply.actions |->
             LET a == reply.actions[i]
             IN  [edits |-> IF a.type = "command" \/ a.edit = Null THEN <<>>
                            ELSE WorkspaceEditToEdits(a.edit),
                  command |-> a.command]]

\* Of a Markdown text the lines "fence" around code are left out; texts are sequences of lines.
MarkupText(markup) ==
    IF markup.kind = "markdown" THEN SelectSeq(markup.lines, LAMBDA l : l # "fence") ELSE markup.lines

HoverText(contents) ==
    IF contents.type = "markup" THEN MarkupText(contents)
    ELSE FlattenSeq([i \in DOMAIN contents.parts |-> contents.parts[i]])

FetchHover(reply) ==
    IF reply = Null \/ ToSet(HoverText(reply)) \subseteq {""} THEN Null ELSE HoverText(reply)

\* The bytes of the active parameter in the label: found as a text, or given as characters.
ParameterByteRange(label, parameter) ==
    IF parameter.type = "text"
    THEN LET found == {i \in 0..Len(label) - Len(parameter.text) :
                          SubSeq(label, i + 1, i + Len(parameter.text)) = parameter.text}
         IN  IF found = {} THEN Null
             ELSE <<ByteOf(label, Min(found)), ByteOf(label, Min(found)) + Bytes(parameter.text)>>
    ELSE LET byte(i) == ByteOf(label, Smaller(i, Len(label)))
         IN  IF byte(parameter.from) < byte(parameter.to)
             THEN <<byte(parameter.from), byte(parameter.to)>> ELSE Null

\* The active signature is the first by default; its own parameter index goes before the reply's.
FetchSignatureHelp(reply) ==
    IF reply = Null THEN Null
    ELSE LET n == IF reply.signature = Null THEN 0 ELSE reply.signature
         IN  IF n >= Len(reply.signatures) THEN Null
             ELSE LET s == reply.signatures[n + 1]
                      p == IF s.parameter # Null THEN s.parameter ELSE reply.parameter
                  IN  IF ToSet(s.label) \subseteq {" "} THEN Null
                      ELSE [label |-> s.label,
                            active |-> IF p = Null \/ p >= Len(s.parameters) THEN Null
                                       ELSE ParameterByteRange(s.label, s.parameters[p + 1])]

-----------------------------------------------------------------------------
\* Every place between characters survives the way to a position and back; two edits
\* of a server whose ranges are apart do, in either order of the list, what replacing
\* both in the text as it was does; and an outline goes down one level at a time.
AnswersAgree(t, news) ==
    LET spans == {s \in [lo : Boundaries(t), hi : Boundaries(t)] : s.lo <= s.hi}
        edit(s, new) == [start |-> ByteToPosition(t, s.lo), end |-> ByteToPosition(t, s.hi), new |-> new]
        outline == FetchDocumentSymbols(
                       [type |-> "nested",
                        symbols |-> [i \in DOMAIN t |->
                            [name |-> "s", at |-> i,
                             children |-> [j \in 1..i - 1 |->
                                 [name |-> "s", at |-> j, children |-> <<>>]]]]])
    IN  /\ \A b \in Boundaries(t) : PositionToByte(t, ByteToPosition(t, b)) = b
        /\ \A a, b \in spans, x, y \in news :
              (a.hi <= b.lo /\ a.lo < b.lo) =>
                  LET both == Slice(t, 0, a.lo) \o x \o Slice(t, a.hi, b.lo) \o y
                              \o Slice(t, b.hi, Bytes(t))
                  IN  /\ ApplyTextEdits(t, <<edit(a, x), edit(b, y)>>) = both
                      /\ ApplyTextEdits(t, <<edit(b, y), edit(a, x)>>) = both
        /\ \A i \in DOMAIN outline :
              outline[i].depth <= IF i = 1 THEN 0 ELSE outline[i - 1].depth + 1
=============================================================================
