---------------------------- MODULE MCWorkbench ----------------------------
(* Small instances of the parts of the workbench. *)
EXTENDS Workbench

MCFiles == [p |-> <<"a", "nl", "w">>, q |-> <<"w", "nl", "nl", "a">>]
MCBody == <<9, 2>>

MCRopeTexts == {<<"a", "nl", "w", "a", "nl", "w", "a">>}
MCRopeInserts == {<<>>, <<"w", "a", "w", "nl", "a", "w", "w", "w">>}

MCListing == [top |-> <<"d", "f">>, d |-> <<"e", "g">>, e |-> <<"h">>]
MCGitFiles == <<"a", "b">>
MCLabels == <<<<"a", "b">>, <<"b", "/", "a">>, <<"a", "a", "b">>, <<"a", "/", "b">>>>

\* Two files, one of them empty; addresses that are left out, and one that is looked for.
MCEdFiles == [f |-> <<<<"a">>, <<"b">>>>, g |-> <<>>]
MCEdInputs == {<<>>, <<<<"a">>>>}
Address(b) == [base |-> b, step |-> 0, n |-> 0, pattern |-> "a"]
MCEdAddresses == {Address(""), Address("/")}

\* Digests in which some different lines agree at first, and some for good.
MCDigest(c) ==
    <<Len(c) % 2, Cardinality({i \in DOMAIN c : c[i] = "w"}) % 2,
      IF c # <<>> /\ c[1] = "w" THEN 1 ELSE 0>>

MCCaseTexts == Texts({"w", "nl", "cr"}, 3) \cup Texts({"a", "A", "w"}, 3)
MCCaseNews == {<<>>, <<"w", "a">>}
MCCaseQueries == Texts({"a", "A", "w"}, 2)
MCFold == [a |-> "a", A |-> "a", w |-> "w", nl |-> "nl", cr |-> "cr"]

\* A manual with a preamble and a name that occurs twice, one whose node links to
\* itself, and a file that is none.
MCLine(start, target, notes) == [start |-> start, target |-> target, notes |-> notes]
MCPlain == MCLine("text", NoLink, <<>>)
MCNode(name, next, prev, up, lines) ==
    [name |-> name, next |-> next, prev |-> prev, up |-> up, lines |-> lines]
MCInfoFiles ==
    [m |-> <<MCNode("", NoLink, NoLink, NoLink, <<>>),
             MCNode("A", <<"Top">>, NoLink, <<"", "">>,
                    <<MCPlain, MCLine("item", <<"A">>, <<<<"Top">>>>)>>),
             MCNode("Top", <<"A">>, <<"n", "">>, <<"dir", "">>,
                    [n \in 1..13 |->
                        IF n = 2 THEN MCLine("text", NoLink, <<<<"A">>, <<"nowhere">>>>)
                        ELSE IF n = 6 THEN MCLine("heading", NoLink, <<>>)
                        ELSE IF n \in {8, 13} THEN MCLine("item", <<"n", "C">>, <<<<"m", "A">>>>)
                        ELSE MCPlain]),
             MCNode("A", NoLink, NoLink, NoLink, <<>>)>>,
     n |-> <<MCNode("C", <<"Top">>, <<"m", "Top">>, <<"", "C">>, <<>>)>>,
     e |-> <<>>]

MCPane(y, width, height) == [x |-> 3, y |-> y, width |-> width, height |-> height]
MCPopupPanes == {MCPane(0, 14, 3), MCPane(2, 22, 9), MCPane(1, 21, 20)}

MCCages == {[asked |-> {"network"}, tools |-> {"prlimit", "unshare"}],
            [asked |-> {"network", "files"}, tools |-> {"bwrap"}],
            [asked |-> {"files"}, tools |-> {}]}

MCStreamEvents ==
    {[kind |-> "token", part |-> "t"], [kind |-> "token", part |-> "u"],
     [kind |-> "call", index |-> 0, part |-> "x"], [kind |-> "call", index |-> 2, part |-> "y"],
     [kind |-> "call", index |-> 0, part |-> "z"], [kind |-> "noise"], [kind |-> "end"]}

\* Frames of narrow and wide glyphs, one of which draws over half of a wide one.
MCScreenSizes == {[width |-> 4, height |-> 2], [width |-> 3, height |-> 2]}
MCDraw(x, y, text, style) == [x |-> x, y |-> y, text |-> text, style |-> style]
MCDrawings ==
    {<<>>,
     <<MCDraw(0, 0, <<"a", "W">>, "base"), MCDraw(1, 1, <<"a", "b">>, "bold")>>,
     <<MCDraw(0, 0, <<"W", "a">>, "bold"), MCDraw(0, 1, <<"W">>, "base")>>,
     <<MCDraw(0, 0, <<"W">>, "base"), MCDraw(1, 0, <<"a">>, "bold"), MCDraw(1, 1, <<"W">>, "bold")>>,
     <<MCDraw(1, 0, <<"W">>, "base"), MCDraw(1, 0, <<"a">>, "base")>>,
     <<MCDraw(0, 0, <<"a", "b", "a", "b">>, "bold"), MCDraw(0, 1, <<"a">>, "bold")>>,
     <<MCDraw(1, 0, <<"W">>, "bold"), MCDraw(0, 1, <<"b", "a">>, "bold")>>,
     <<MCDraw(0, 0, <<"W">>, "base"), MCDraw(1, 0, <<"W">>, "bold")>>}
=============================================================================
