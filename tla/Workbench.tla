----------------------------- MODULE Workbench -----------------------------
(***************************************************************************)
(* The whole editor's process: beside the parts of Desk, "windows" is the  *)
(* workspace with its panes, views and documents, "rope" the text store    *)
(* and "chords" an editor's key map.  "cases" takes the pure functions     *)
(* through every small text.  "ed" is a process of its own, the line       *)
(* editor.  A behaviour exercises one of the parts.                        *)
(***************************************************************************)
EXTENDS Desk, Workspace, LineEditor, RopeTree, Hashline, LspAnswers, FindReplace, Anchors, KeyMaps

CONSTANTS
    StreamEvents,   \* bound: the events a reply is streamed in, four at most
    CaseTexts,      \* bound: the texts the pure functions are taken through
    CaseQueries,    \* bound: the texts that are searched for
    CaseNews        \* bound: the texts that edits put in

VARIABLES
    case            \* the text that the pure functions are looked at with

caseVars == <<case>>
benchVars == <<deskVars, case, wsVars, edVars, ropeVars, keyVars>>

Parts == DeskParts \cup {"windows", "ed", "rope", "chords", "cases"}

\* A behaviour starts on one file; the others are opened in it.
StartFile == CHOOSE p \in DOMAIN Files : TRUE

\* The starts of a part are told apart only where that part is exercised.
Init ==
    /\ part \in Parts /\ DeskInit /\ case = <<>>
    /\ WorkspaceInit /\ docs[1].path = StartFile
    /\ EdInit /\ (part # "ed" => \A f \in DOMAIN EdFiles : Len(ed.lines) <= Len(EdFiles[f]))
    /\ RopeInit /\ (part # "rope" => ropeText = CHOOSE t \in RopeTexts : TRUE)
    /\ KeysInit

NextCase == case = <<>> /\ case' \in CaseTexts

\* A step of one part leaves the others alone.
Next ==
    \/ DeskNext /\ UNCHANGED <<case, wsVars, edVars, ropeVars, keyVars>>
    \/ part = "windows" /\ WorkspaceNext /\ UNCHANGED <<deskVars, case, edVars, ropeVars, keyVars>>
    \/ part = "ed" /\ EdNext /\ UNCHANGED <<deskVars, case, wsVars, ropeVars, keyVars>>
    \/ part = "rope" /\ RopeNext /\ UNCHANGED <<deskVars, case, wsVars, edVars, keyVars>>
    \/ part = "chords" /\ KeysNext /\ UNCHANGED <<deskVars, case, wsVars, edVars, ropeVars>>
    \/ part = "cases" /\ NextCase /\ UNCHANGED <<deskVars, wsVars, edVars, ropeVars, keyVars>>

\* The steps of the desk are those of Desk, which the other steps leave alone.
Spec == Init /\ [][Next]_benchVars /\ Fairness

-----------------------------------------------------------------------------
\* What the parts work out is what they say: the rope holds what splicing gives, and line
\* tags, answers of a server, spans and searches mean places of the text that is there.  A
\* key map is the bindings it was given, a reply what was streamed; the regions of a frame
\* tile the window, and a sandbox reports what it does.
ResultsAreExact ==
    /\ part = "rope" => RopeIsItsText
    /\ part = "cases" /\ case = <<>> =>
          /\ \A events \in SeqOf(StreamEvents, 4) : RepliesAreWhole(events)
          /\ FramesFit /\ ReportsAreTrue
    /\ part = "cases" =>
          /\ TagsAndEditsAgree(case, {"replace", "insert", "delete"}, CaseNews)
          /\ AnswersAgree(case, CaseNews)
          /\ SpansAgree(case, CaseNews)
          /\ \A q \in CaseQueries, new \in CaseNews : SearchesAgree(case, q, new)
          /\ \A t \in CaseQueries : KeymapsAgree(case, t, {"a", "w"})

\* The helpers keep up with their parts (HelpersKeepUp), and a chord goes where its hint says.
HelpersAndHintsKeepUp == HelpersKeepUp /\ [][part = "chords" => HintIsTrue]_benchVars
=============================================================================
