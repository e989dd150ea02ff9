----------------------------- MODULE MCDocument -----------------------------
(***************************************************************************)
(* Document for TLC: one-byte "a" and the two-byte character "x" "y".      *)
(***************************************************************************)
EXTENDS Document

MCByte == {"a", "x", "y"}
MCContinuation == {"y"}
MCUtf8 == {<< >>, <<"a">>, <<"a", "a">>, <<"x", "y">>}
Op(start, oldLen, text) == [start |-> start, oldLen |-> oldLen, text |-> text]

\* Typing "a" first or second, deleting one byte or two: the second insertion
\* and the one-byte deletion do not apply inside the two-byte character.
MCOps == {Op(0, 0, <<"a">>), Op(1, 0, <<"a">>), Op(0, 1, << >>), Op(0, 2, << >>)}
MCInitialFiles == {<<"x", "y">>}
=============================================================================
