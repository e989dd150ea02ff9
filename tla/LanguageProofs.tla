--------------------------- MODULE LanguageProofs ---------------------------
(***************************************************************************)
(* Safety of the language client and of the front-end's use of it, for all *)
(* sets of files and all bounds on requests, versions and keys.            *)
(***************************************************************************)
EXTENDS LanguageFrontEnd, FiniteSetTheorems, WellFoundedInduction, TLAPS

-----------------------------------------------------------------------------
(* The inductive invariant.                                                *)

Texts == Nat \X Nat
Entries == [version : Nat, text : Texts, diagnosed : BOOLEAN]
Contents == [version : Nat, text : Texts]
Partial(T) == UNION {[S -> T] : S \in SUBSET Handled}
Managers == [slot : {"none", "starting", "ready", "failed"}, docs : Partial(Entries), held : Partial(Contents)]
Whats == Paths \cup {None, Some}
Places(x) == x.kind \in {"goto", "rename", "edits"} => x.what \in Paths \cup {None}
Items == {x \in [kind : Kinds \cup {"edits"}, path : Paths \cup {None}, what : Whats] : Places(x)}
Results == {x \in [kind : Kinds, path : Paths, id : Nat, answer : Nat, what : Whats] : Places(x)}
Files == [path : Paths, rev : Nat]

(* The server holds what it was sent last, and all of it while it lives.   *)
Manages(m) ==
    /\ m \in Managers
    /\ m.slot # "ready" => DOMAIN m.held = {}
    /\ m.slot = "none" => DOMAIN m.docs = {}
    /\ DOMAIN m.held \subseteq DOMAIN m.docs
    /\ \A p \in DOMAIN m.held : m.held[p].version <= m.docs[p].version
    /\ m.slot = "ready" /\ server = "alive" =>
          \A p \in DOMAIN m.docs : p \in DOMAIN m.held /\ m.held[p] = Content(m.docs[p])

(* It is not started twice.                                                *)
Serving ==
    /\ Manages(lsp)
    /\ startup \in {"idle", "spawning", "waiting", "ok", "failed"}
    /\ server \in {"none", "alive", "dead"} /\ full \in BOOLEAN
    /\ lsp.slot = "none" => startup = "idle"
    /\ lsp.slot = "ready" => startup = "ok"

Shown ==
    /\ buffers \in Seq(Files) /\ active \in DOMAIN buffers /\ batch \in Seq(Items)
    /\ pc \in {"frame", "apply", "event"}

(* What counts as synced of a buffer is an earlier revision of it, or this *)
(* one and then the manager has its text.                                  *)
Syncing ==
    /\ synced \in [DOMAIN synced -> Nat] /\ DOMAIN synced \subseteq DOMAIN lsp.docs
    /\ DOMAIN lsp.held \subseteq DOMAIN synced
    /\ \A p \in DOMAIN lsp.docs \ DOMAIN synced : lsp.slot = "ready" /\ server # "alive"
    /\ \A p \in DOMAIN synced : \E i \in DOMAIN buffers : buffers[i].path = p
    /\ \A i \in DOMAIN buffers :
          /\ (buffers[i].path \in DOMAIN synced /\ ~OpenedTwice(i)) => synced[buffers[i].path] <= buffers[i].rev
          /\ Synced(i) => lsp.docs[buffers[i].path].text = TextOf(i)

(* Ids are given once, to one worker, and a worker that waits is listed.   *)
Working ==
    /\ asked \in 0..MaxAsked
    /\ work \subseteq [id : Nat, kind : Kinds, path : Paths, at : {"spawned", "waiting"}]
    /\ \A w \in work : w.id \in 1..asked
    /\ \A v, w \in work : v.id = w.id => v = w
    /\ \A w \in work : w.at = "waiting" => w.id \in pending

(* A question is of the kind of the request it was sent for.               *)
Asking ==
    /\ questions \subseteq [id : Nat, kind : Kinds, edited : BOOLEAN]
    /\ \A q \in questions : q.id <= asked
    /\ \A q \in questions, w \in work : q.id = w.id => q.kind = w.kind
    /\ bus \in [about : SUBSET Paths, edits : Seq(Paths)]

(* What comes back says only what its kind says, and is of its request.    *)
Answered ==
    /\ outcomes \in Seq(Results)
    /\ \A i \in DOMAIN outcomes : outcomes[i].what # None => outcomes[i].answer = outcomes[i].id

AtMostOne == popups \subseteq Popups /\ \A x, y \in popups : x = y

IInv == Serving /\ Shown /\ Syncing /\ Working /\ Asking /\ Answered /\ AtMostOne

-----------------------------------------------------------------------------
(* The editor's own steps: what they do to buffers and requests.           *)

EditorStep ==
    \/ FireDueLsp
    \/ ApplyStale \/ ShowPopup \/ ApplyGoto \/ ApplyRename \/ ApplyEdit \/ ApplyHighlight
    \/ ApplyFormatting
    \/ Event

(* Buffers are opened and edited, and none is closed.                      *)
Grows(bs, cs) ==
    /\ cs \in Seq(Files) /\ Len(bs) <= Len(cs)
    /\ \A i \in DOMAIN bs : cs[i].path = bs[i].path /\ bs[i].rev <= cs[i].rev

(* At most one request is made in a step, or the two for the hints.        *)
NewWork ==
    \/ UNCHANGED <<work, asked>>
    \/ \E kind \in Kinds, p \in DOMAIN lsp.docs :
          asked < MaxAsked /\ work' = work \cup {Worker(kind, p)} /\ asked' = asked + 1
    \/ \E p \in DOMAIN lsp.docs :
          /\ asked + 1 < MaxAsked /\ asked' = asked + 2
          /\ work' = work \cup {RequestInlayHints(p), RequestFoldingRanges(p)}

(* A set of numbers has a least one.                                       *)
LEMMA LeastNumber ==
    ASSUME NEW S, S \subseteq Nat, S # {}
    PROVE  Min(S) \in S
<1>1. PICK x \in S : \A y \in S : ~(<<y, x>> \in OpToRel(<, Nat))
    BY NatLessThanWellFounded, WFMin, Zenon
<1>2. ASSUME NEW y \in S PROVE x <= y
  <2>1. ~(<<y, x>> \in OpToRel(<, Nat))
    BY <1>1
  <2>2. ~(y < x)
    <3>1. SUFFICES ASSUME y < x PROVE <<y, x>> \in OpToRel(<, Nat)
      BY <2>1
    <3> QED BY <3>1 DEF OpToRel
  <2> QED BY <2>2
<1> QED BY <1>2 DEF Min

(* Where the elements of a sequence are.                                   *)
LEMMA Elements ==
    ASSUME NEW T, NEW s \in Seq(T)
    PROVE  Len(s) \in Nat /\ DOMAIN s = 1..Len(s) /\ \A i \in DOMAIN s : s[i] \in T
  OBVIOUS

(* Growing is a preorder.                                                  *)
LEMMA GrowsOn ==
    ASSUME NEW bs \in Seq(Files), NEW cs, NEW ds
    PROVE  Grows(bs, bs) /\ (Grows(bs, cs) /\ Grows(cs, ds) => Grows(bs, ds))
<1>1. Grows(bs, bs)
  <2>1. \A i \in DOMAIN bs : bs[i] \in Files
    BY Elements
  <2>2. \A i \in DOMAIN bs : bs[i].rev \in Nat
    BY <2>1 DEF Files
  <2> QED BY <2>2, Elements DEF Grows
<1>2. ASSUME Grows(bs, cs), Grows(cs, ds) PROVE Grows(bs, ds)
  <2>1. cs \in Seq(Files) /\ ds \in Seq(Files) /\ Len(bs) <= Len(cs) /\ Len(cs) <= Len(ds)
    BY <1>2 DEF Grows
  <2>2. ASSUME NEW i \in DOMAIN bs PROVE i \in DOMAIN cs /\ i \in DOMAIN ds
    BY <2>1, <2>2, Elements
  <2>3. ASSUME NEW i \in DOMAIN bs PROVE ds[i].path = bs[i].path /\ bs[i].rev <= ds[i].rev
    <3>1. bs[i] \in Files /\ cs[i] \in Files /\ ds[i] \in Files
      BY <2>1, <2>2, <2>3, Elements
    <3>2. bs[i].rev \in Nat /\ cs[i].rev \in Nat /\ ds[i].rev \in Nat
      BY <3>1 DEF Files
    <3> QED BY <1>2, <2>2, <2>3, <3>2 DEF Grows
  <2>4. Len(bs) <= Len(ds)
    BY <2>1, Elements
  <2> QED BY <2>1, <2>3, <2>4 DEF Grows
<1> QED BY <1>1, <1>2

(* An edit is a new revision of its buffer.                                *)
LEMMA EditedGrows ==
    ASSUME NEW bs \in Seq(Files), NEW i \in DOMAIN bs
    PROVE  Grows(bs, Edited(bs, i)) /\ DOMAIN Edited(bs, i) = DOMAIN bs
<1>1. \A k \in DOMAIN bs : bs[k] \in Files
    BY Elements
<1>2. [bs[i] EXCEPT !.rev = @ + 1] \in Files /\ [bs[i] EXCEPT !.rev = @ + 1].path = bs[i].path
      /\ bs[i].rev <= [bs[i] EXCEPT !.rev = @ + 1].rev
    BY <1>1 DEF Files
<1>3. Edited(bs, i) = [bs EXCEPT ![i] = [bs[i] EXCEPT !.rev = @ + 1]]
    BY DEF Edited
<1>4. Edited(bs, i) \in Seq(Files) /\ Len(Edited(bs, i)) = Len(bs) /\ DOMAIN Edited(bs, i) = DOMAIN bs
    BY <1>2, <1>3
<1>5. \A k \in DOMAIN bs : Edited(bs, i)[k] = IF k = i THEN [bs[i] EXCEPT !.rev = @ + 1] ELSE bs[k]
    BY <1>3
<1>6. \A k \in DOMAIN bs : bs[k].rev \in Nat
    BY <1>1 DEF Files
<1>7. ASSUME NEW k \in DOMAIN bs
      PROVE  Edited(bs, i)[k].path = bs[k].path /\ bs[k].rev <= Edited(bs, i)[k].rev
  <2>1. CASE k = i
    BY <1>2, <1>5, <2>1
  <2>2. CASE k # i
    BY <1>5, <1>6, <2>2
  <2> QED BY <2>1, <2>2
<1> QED BY <1>4, <1>7, Elements DEF Grows

(* A file that is opened is the last buffer.                               *)
LEMMA OpenedGrows ==
    ASSUME NEW bs \in Seq(Files), NEW p \in Paths
    PROVE  Grows(bs, Append(bs, [path |-> p, rev |-> 0])) /\ Len(bs) + 1 \in DOMAIN Append(bs, [path |-> p, rev |-> 0])
<1> DEFINE cs == Append(bs, [path |-> p, rev |-> 0])
<1>1. [path |-> p, rev |-> 0] \in Files
    BY DEF Files
<1>2. cs \in Seq(Files) /\ Len(cs) = Len(bs) + 1 /\ \A k \in DOMAIN bs : cs[k] = bs[k]
    BY <1>1
<1>3. \A k \in DOMAIN bs : bs[k].rev \in Nat
  <2>1. \A k \in DOMAIN bs : bs[k] \in Files
    BY Elements
  <2> QED BY <2>1 DEF Files
<1> HIDE DEF cs
<1>4. Grows(bs, cs) /\ Len(bs) + 1 \in DOMAIN cs
    BY <1>2, <1>3, Elements DEF Grows
<1> QED BY <1>4 DEF cs

(* A path is revealed in a buffer that there is.                           *)
LEMMA RevealGrows ==
    ASSUME NEW bs \in Seq(Files), NEW p \in Paths
    PROVE  /\ Grows(bs, RevealIn(bs, p).buffers) /\ RevealIn(bs, p).buffers \in Seq(Files)
           /\ RevealIn(bs, p).active \in DOMAIN RevealIn(bs, p).buffers
<1> DEFINE open == {i \in DOMAIN bs : bs[i].path = p}
<1>1. CASE open # {}
  <2>1. Min(open) \in open
    <3>1. open \subseteq Nat
      BY Elements
    <3> HIDE DEF open
    <3> QED BY <1>1, <3>1, LeastNumber
  <2> QED BY <1>1, <2>1, GrowsOn DEF RevealIn
<1>2. CASE open = {}
  <2>1. /\ RevealIn(bs, p).buffers = Append(bs, [path |-> p, rev |-> 0])
        /\ RevealIn(bs, p).active = Len(bs) + 1
    BY <1>2 DEF RevealIn
  <2> QED BY <2>1, OpenedGrows DEF Grows
<1> QED BY <1>1, <1>2

(* Edits of a file leave the keyboard in a buffer that there is.           *)
LEMMA EditsGrow ==
    ASSUME Shown, NEW p \in Paths \cup {None}, ApplyWorkspaceEdits(p)
    PROVE  Grows(buffers, buffers') /\ active' \in DOMAIN buffers'
<1> USE DEF bufferVars
<1>1. buffers \in Seq(Files) /\ active \in DOMAIN buffers /\ ActivePath \in Paths
  <2>1. buffers \in Seq(Files) /\ active \in DOMAIN buffers
    BY DEF Shown, Files
  <2>2. buffers[active] \in Files
    BY <2>1, Elements
  <2> QED BY <2>1, <2>2 DEF Files, ActivePath
<1>2. CASE p = None
    BY <1>1, <1>2, GrowsOn DEF ApplyWorkspaceEdits
<1>3. CASE p # None
  <2> DEFINE r == Reveal(p)
             back == RevealIn(Edited(r.buffers, r.active), ActivePath)
  <2>1. Grows(buffers, r.buffers) /\ r.buffers \in Seq(Files) /\ r.active \in DOMAIN r.buffers
    BY <1>1, <1>3, RevealGrows DEF Reveal
  <2>2. Grows(r.buffers, Edited(r.buffers, r.active))
    BY <2>1, EditedGrows
  <2>3. Grows(Edited(r.buffers, r.active), back.buffers) /\ back.active \in DOMAIN back.buffers
    BY <1>1, <2>2, RevealGrows DEF Grows
  <2>4. buffers' = back.buffers /\ active' = back.active
    BY <1>3 DEF ApplyWorkspaceEdits
  <2> HIDE DEF r, back
  <2> QED BY <1>1, <2>1, <2>2, <2>3, <2>4, GrowsOn
<1> QED BY <1>2, <1>3

(* A step of the editor asks at most once; the pipe is left alone.          *)
LEMMA EditorAsks ==
    ASSUME EditorStep
    PROVE  NewWork /\ UNCHANGED <<pipeVars, pending, questions, outcomes, synced>>
<1> USE DEF clientVars, pipeVars, workVars, syncVars, bufferVars, modalVars, hintVars
<1>1. CASE FireDueLsp
    BY <1>1 DEF FireDueLsp, RequestDocumentHighlight, RequestSignatureHelp, Ask, CanAsk, Kinds,
       Popups, NewWork
<1>2. CASE ApplyStale
    BY <1>2 DEF ApplyStale, Take, NewWork
<1>3. CASE ShowPopup
    BY <1>3 DEF ShowPopup, Take, NewWork
<1>4. CASE ApplyGoto
    BY <1>4 DEF ApplyGoto, Take, NewWork
<1>5. CASE ApplyRename
    BY <1>5 DEF ApplyRename, Take, NewWork
<1>6. CASE ApplyEdit
    BY <1>6 DEF ApplyEdit, Take, NewWork
<1>7. CASE ApplyHighlight
    BY <1>7 DEF ApplyHighlight, Take, NewWork
<1>8. CASE ApplyFormatting
    BY <1>8 DEF ApplyFormatting, Take, NewWork
<1>9. CASE NoEvent
    BY <1>9 DEF NoEvent, AtEvent, NewWork
<1>10. CASE Type
    BY <1>10 DEF Type, EditorKey, Press, AtEvent, NewWork
<1>11. CASE Move
    BY <1>11 DEF Move, EditorKey, Press, AtEvent, NewWork
<1>12. CASE SwitchBuffer
    BY <1>12 DEF SwitchBuffer, EditorKey, Press, AtEvent, NewWork
<1>13. CASE SwitchFocus
    BY <1>13 DEF SwitchFocus, EditorKey, Press, AtEvent, NewWork
<1>14. CASE TriggerCompletion
    BY <1>14 DEF TriggerCompletion, TriggerOf, EditorKey, Press, AtEvent, NewWork,
       RequestCompletion, Ask, CanAsk, Kinds, Popups
<1>15. CASE TriggerHover
    BY <1>15 DEF TriggerHover, TriggerOf, EditorKey, Press, AtEvent, NewWork, RequestHover, Ask,
       CanAsk, Kinds, Popups
<1>16. CASE TriggerGotoDefinition
    BY <1>16 DEF TriggerGotoDefinition, TriggerOf, EditorKey, Press, AtEvent, NewWork,
       RequestGoto, Ask, CanAsk, Kinds, Popups
<1>17. CASE TriggerTypeDefinition
    BY <1>17 DEF TriggerTypeDefinition, TriggerOf, EditorKey, Press, AtEvent, NewWork,
       RequestGoto, Ask, CanAsk, Kinds, Popups
<1>18. CASE TriggerImplementation
    BY <1>18 DEF TriggerImplementation, TriggerOf, EditorKey, Press, AtEvent, NewWork,
       RequestGoto, Ask, CanAsk, Kinds, Popups
<1>19. CASE TriggerReferences
    BY <1>19 DEF TriggerReferences, TriggerOf, EditorKey, Press, AtEvent, NewWork,
       RequestReferences, Ask, CanAsk, Kinds, Popups
<1>20. CASE TriggerDocumentSymbols
    BY <1>20 DEF TriggerDocumentSymbols, TriggerOf, EditorKey, Press, AtEvent, NewWork,
       RequestDocumentSymbols, Ask, CanAsk, Kinds, Popups
<1>21. CASE TriggerCodeActions
    BY <1>21 DEF TriggerCodeActions, TriggerOf, EditorKey, Press, AtEvent, NewWork,
       RequestCodeAction, Ask, CanAsk, Kinds, Popups
<1>22. CASE TriggerFormatting
    BY <1>22 DEF TriggerFormatting, TriggerOf, EditorKey, Press, AtEvent, NewWork,
       RequestFormatting, Ask, CanAsk, Kinds, Popups
<1>23. CASE TriggerSignatureHelp
    BY <1>23 DEF TriggerSignatureHelp, EditorKey, Press, AtEvent, NewWork
<1>24. CASE TriggerRename
    BY <1>24 DEF TriggerRename, OpenPrompt, Press, AtEvent, NewWork
<1>25. CASE TriggerWorkspaceSymbols
    BY <1>25 DEF TriggerWorkspaceSymbols, OpenPrompt, Press, AtEvent, NewWork
<1>26. CASE ConfirmPrompt
    BY <1>26 DEF ConfirmPrompt, RequestRename, RequestWorkspaceSymbols, Ask, CanAsk, Kinds,
       Popups, NewWork
<1>27. CASE DismissPopup
    BY <1>27 DEF DismissPopup, PopupKey, Press, AtEvent, NewWork
<1>28. CASE AcceptCompletion
    BY <1>28 DEF AcceptCompletion, PopupKey, Press, AtEvent, NewWork
<1>29. CASE JumpToSelectedReference
    BY <1>29 DEF JumpToSelectedReference, PopupKey, Press, AtEvent, NewWork
<1>30. CASE JumpToSelectedSymbol
    BY <1>30 DEF JumpToSelectedSymbol, PopupKey, Press, AtEvent, NewWork
<1>31. CASE ApplySelectedCodeAction
    BY <1>31 DEF ApplySelectedCodeAction, RequestExecuteCommand, Ask, CanAsk, Kinds, Popups, NewWork
<1>32. CASE OpenSearch
    BY <1>32 DEF OpenSearch, Press, AtEvent, NewWork
<1>33. CASE OpenFinder
    BY <1>33 DEF OpenFinder, Press, AtEvent, NewWork
<1>34. CASE FinderAccept
    BY <1>34 DEF FinderAccept, Press, AtEvent, NewWork
<1> QED BY <1>1, <1>2, <1>3, <1>4, <1>5, <1>6, <1>7, <1>8, <1>9, <1>10, <1>11, <1>12, <1>13,
       <1>14, <1>15, <1>16, <1>17, <1>18, <1>19, <1>20, <1>21, <1>22, <1>23, <1>24, <1>25,
       <1>26, <1>27, <1>28, <1>29, <1>30, <1>31, <1>32, <1>33, <1>34 DEF EditorStep, Event,
       TryLspTrigger

(* Whoever is open, focused and to be applied next is of its type.         *)
LEMMA ShowsOn ==
    ASSUME batch' \in Seq(Items), pc' \in {"frame", "apply", "event"},
           Grows(buffers, buffers'), active' \in DOMAIN buffers'
    PROVE  Shown' /\ Grows(buffers, buffers')
  BY DEF Shown, Grows

(* The focused buffer may change and nothing else of the buffers.          *)
LEMMA ShowsSame ==
    ASSUME Shown, batch' \in Seq(Items), pc' \in {"frame", "apply", "event"},
           buffers' = buffers, active' \in DOMAIN buffers
    PROVE  Shown' /\ Grows(buffers, buffers')
  BY GrowsOn DEF Shown

(* An outcome that is taken leaves the rest of the frame's.                *)
LEMMA Taken ==
    ASSUME Shown, NEW kinds, Take(kinds)
    PROVE  /\ batch' \in Seq(Items) /\ pc = "apply" /\ Head(batch).kind \in kinds
           /\ Head(batch).kind \in {"goto", "rename", "edits"} => Head(batch).what \in Paths \cup {None}
<1>1. batch \in Seq(Items) /\ batch # <<>>
    BY DEF Shown, Take
<1>2. Head(batch) \in Items /\ Tail(batch) \in Seq(Items)
    BY <1>1
<1> QED BY <1>2 DEF Take, Items, Places

(* The file that has the focus is edited.                                  *)
LEMMA ShowsEdited ==
    ASSUME Shown, batch' \in Seq(Items), pc' \in {"frame", "apply", "event"},
           buffers' = Edited(buffers, active), active' = active
    PROVE  Shown' /\ Grows(buffers, buffers')
<1>1. Grows(buffers, buffers') /\ active' \in DOMAIN buffers'
    BY EditedGrows DEF Shown
<1> QED BY <1>1, ShowsOn

(* A step of the editor opens and edits buffers, and closes none.          *)
LEMMA EditorShows ==
    ASSUME Shown, EditorStep
    PROVE  Shown' /\ Grows(buffers, buffers')
<1> USE DEF clientVars, pipeVars, workVars, syncVars, bufferVars, modalVars, hintVars
<1>1. CASE FireDueLsp
  <2>1. batch' \in Seq(Items) /\ pc' \in {"frame", "apply", "event"}
    BY <1>1 DEF FireDueLsp, Shown
  <2>2. buffers' = buffers /\ active' \in DOMAIN buffers
    BY <1>1 DEF FireDueLsp, Shown
  <2> QED BY <2>1, <2>2, ShowsSame
<1>2. CASE ApplyStale
  <2>1. batch' \in Seq(Items) /\ pc' \in {"frame", "apply", "event"}
    BY <1>2, Taken DEF ApplyStale, Take, Shown
  <2>2. buffers' = buffers /\ active' \in DOMAIN buffers
    BY <1>2 DEF ApplyStale, Take, Shown
  <2> QED BY <2>1, <2>2, ShowsSame
<1>3. CASE ShowPopup
  <2>1. batch' \in Seq(Items) /\ pc' \in {"frame", "apply", "event"}
    BY <1>3, Taken DEF ShowPopup, Take, Shown
  <2>2. buffers' = buffers /\ active' \in DOMAIN buffers
    BY <1>3 DEF ShowPopup, Take, Shown
  <2> QED BY <2>1, <2>2, ShowsSame
<1>4. CASE ApplyGoto
  <2>1. batch' \in Seq(Items) /\ pc' \in {"frame", "apply", "event"}
    BY <1>4, Taken DEF ApplyGoto, Take, Shown
  <2>2. \/ buffers' = buffers /\ active' = active
        \/ \E p \in Paths : buffers' = Reveal(p).buffers /\ active' = Reveal(p).active
    BY <1>4, Taken DEF ApplyGoto, Take
  <2>3. CASE buffers' = buffers /\ active' = active
    <3>1. active \in DOMAIN buffers
      BY DEF Shown
    <3> QED BY <2>1, <2>3, <3>1, ShowsSame
  <2>4. ASSUME NEW p \in Paths, buffers' = Reveal(p).buffers, active' = Reveal(p).active
        PROVE  Shown' /\ Grows(buffers, buffers')
    <3>1. Grows(buffers, buffers') /\ active' \in DOMAIN buffers'
      BY <2>4, RevealGrows DEF Reveal, Shown
    <3> QED BY <2>1, <3>1, ShowsOn
  <2> QED BY <2>2, <2>3, <2>4
<1>5. CASE ApplyRename
  <2>1. batch' \in Seq(Items) /\ pc' \in {"frame", "apply", "event"}
    BY <1>5, Taken DEF ApplyRename, Take, Shown
  <2>2. Head(batch).what \in Paths \cup {None} /\ ApplyWorkspaceEdits(Head(batch).what)
    BY <1>5, Taken DEF ApplyRename
  <2>3. Grows(buffers, buffers') /\ active' \in DOMAIN buffers'
    BY <2>2, EditsGrow
  <2> QED BY <2>1, <2>3, ShowsOn
<1>6. CASE ApplyEdit
  <2>1. batch' \in Seq(Items) /\ pc' \in {"frame", "apply", "event"}
    BY <1>6, Taken DEF ApplyEdit, Take, Shown
  <2>2. Head(batch).what \in Paths \cup {None} /\ ApplyWorkspaceEdits(Head(batch).what)
    BY <1>6, Taken DEF ApplyEdit
  <2>3. Grows(buffers, buffers') /\ active' \in DOMAIN buffers'
    BY <2>2, EditsGrow
  <2> QED BY <2>1, <2>3, ShowsOn
<1>7. CASE ApplyHighlight
  <2>1. batch' \in Seq(Items) /\ pc' \in {"frame", "apply", "event"}
    BY <1>7, Taken DEF ApplyHighlight, Take, Shown
  <2>2. buffers' = buffers /\ active' \in DOMAIN buffers
    BY <1>7 DEF ApplyHighlight, Take, Shown
  <2> QED BY <2>1, <2>2, ShowsSame
<1>8. CASE ApplyFormatting
  <2>1. batch' \in Seq(Items) /\ pc' \in {"frame", "apply", "event"}
    BY <1>8, Taken DEF ApplyFormatting, Take, Shown
  <2>2. active' = active /\ (buffers' = buffers \/ buffers' = Edited(buffers, active))
    BY <1>8 DEF ApplyFormatting, Take
  <2>3. active \in DOMAIN buffers
    BY DEF Shown
  <2> QED BY <2>1, <2>2, <2>3, ShowsSame, ShowsEdited
<1>9. CASE NoEvent
  <2>1. batch' \in Seq(Items) /\ pc' \in {"frame", "apply", "event"}
    BY <1>9 DEF NoEvent, AtEvent, Shown
  <2>2. buffers' = buffers /\ active' \in DOMAIN buffers
    BY <1>9 DEF NoEvent, AtEvent, Shown
  <2> QED BY <2>1, <2>2, ShowsSame
<1>10. CASE Type
  <2>1. batch' \in Seq(Items) /\ pc' \in {"frame", "apply", "event"}
    BY <1>10 DEF Type, EditorKey, Press, AtEvent, Shown
  <2>2. buffers' = Edited(buffers, active) /\ active' = active
    BY <1>10 DEF Type, EditorKey, Press, AtEvent
  <2> QED BY <2>1, <2>2, ShowsEdited
<1>11. CASE Move
  <2>1. batch' \in Seq(Items) /\ pc' \in {"frame", "apply", "event"}
    BY <1>11 DEF Move, EditorKey, Press, AtEvent, Shown
  <2>2. buffers' = buffers /\ active' \in DOMAIN buffers
    BY <1>11 DEF Move, EditorKey, Press, AtEvent, Shown
  <2> QED BY <2>1, <2>2, ShowsSame
<1>12. CASE SwitchBuffer
  <2>1. batch' \in Seq(Items) /\ pc' \in {"frame", "apply", "event"}
    BY <1>12 DEF SwitchBuffer, EditorKey, Press, AtEvent, Shown
  <2>2. buffers' = buffers /\ active' \in DOMAIN buffers
    BY <1>12 DEF SwitchBuffer, EditorKey, Press, AtEvent, Shown
  <2> QED BY <2>1, <2>2, ShowsSame
<1>13. CASE SwitchFocus
  <2>1. batch' \in Seq(Items) /\ pc' \in {"frame", "apply", "event"}
    BY <1>13 DEF SwitchFocus, EditorKey, Press, AtEvent, Shown
  <2>2. buffers' = buffers /\ active' \in DOMAIN buffers
    BY <1>13 DEF SwitchFocus, EditorKey, Press, AtEvent, Shown
  <2> QED BY <2>1, <2>2, ShowsSame
<1>14. CASE TriggerCompletion
  <2>1. batch' \in Seq(Items) /\ pc' \in {"frame", "apply", "event"}
    BY <1>14 DEF TriggerCompletion, TriggerOf, EditorKey, Press, AtEvent, Shown
  <2>2. buffers' = buffers /\ active' \in DOMAIN buffers
    BY <1>14 DEF TriggerCompletion, TriggerOf, EditorKey, Press, AtEvent, Shown
  <2> QED BY <2>1, <2>2, ShowsSame
<1>15. CASE TriggerHover
  <2>1. batch' \in Seq(Items) /\ pc' \in {"frame", "apply", "event"}
    BY <1>15 DEF TriggerHover, TriggerOf, EditorKey, Press, AtEvent, Shown
  <2>2. buffers' = buffers /\ active' \in DOMAIN buffers
    BY <1>15 DEF TriggerHover, TriggerOf, EditorKey, Press, AtEvent, Shown
  <2> QED BY <2>1, <2>2, ShowsSame
<1>16. CASE TriggerGotoDefinition
  <2>1. batch' \in Seq(Items) /\ pc' \in {"frame", "apply", "event"}
    BY <1>16 DEF TriggerGotoDefinition, TriggerOf, EditorKey, Press, AtEvent, Shown
  <2>2. buffers' = buffers /\ active' \in DOMAIN buffers
    BY <1>16 DEF TriggerGotoDefinition, TriggerOf, EditorKey, Press, AtEvent, Shown
  <2> QED BY <2>1, <2>2, ShowsSame
<1>17. CASE TriggerTypeDefinition
  <2>1. batch' \in Seq(Items) /\ pc' \in {"frame", "apply", "event"}
    BY <1>17 DEF TriggerTypeDefinition, TriggerOf, EditorKey, Press, AtEvent, Shown
  <2>2. buffers' = buffers /\ active' \in DOMAIN buffers
    BY <1>17 DEF TriggerTypeDefinition, TriggerOf, EditorKey, Press, AtEvent, Shown
  <2> QED BY <2>1, <2>2, ShowsSame
<1>18. CASE TriggerImplementation
  <2>1. batch' \in Seq(Items) /\ pc' \in {"frame", "apply", "event"}
    BY <1>18 DEF TriggerImplementation, TriggerOf, EditorKey, Press, AtEvent, Shown
  <2>2. buffers' = buffers /\ active' \in DOMAIN buffers
    BY <1>18 DEF TriggerImplementation, TriggerOf, EditorKey, Press, AtEvent, Shown
  <2> QED BY <2>1, <2>2, ShowsSame
<1>19. CASE TriggerReferences
  <2>1. batch' \in Seq(Items) /\ pc' \in {"frame", "apply", "event"}
    BY <1>19 DEF TriggerReferences, TriggerOf, EditorKey, Press, AtEvent, Shown
  <2>2. buffers' = buffers /\ active' \in DOMAIN buffers
    BY <1>19 DEF TriggerReferences, TriggerOf, EditorKey, Press, AtEvent, Shown
  <2> QED BY <2>1, <2>2, ShowsSame
<1>20. CASE TriggerDocumentSymbols
  <2>1. batch' \in Seq(Items) /\ pc' \in {"frame", "apply", "event"}
    BY <1>20 DEF TriggerDocumentSymbols, TriggerOf, EditorKey, Press, AtEvent, Shown
  <2>2. buffers' = buffers /\ active' \in DOMAIN buffers
    BY <1>20 DEF TriggerDocumentSymbols, TriggerOf, EditorKey, Press, AtEvent, Shown
  <2> QED BY <2>1, <2>2, ShowsSame
<1>21. CASE TriggerCodeActions
  <2>1. batch' \in Seq(Items) /\ pc' \in {"frame", "apply", "event"}
    BY <1>21 DEF TriggerCodeActions, TriggerOf, EditorKey, Press, AtEvent, Shown
  <2>2. buffers' = buffers /\ active' \in DOMAIN buffers
    BY <1>21 DEF TriggerCodeActions, TriggerOf, EditorKey, Press, AtEvent, Shown
  <2> QED BY <2>1, <2>2, ShowsSame
<1>22. CASE TriggerFormatting
  <2>1. batch' \in Seq(Items) /\ pc' \in {"frame", "apply", "event"}
    BY <1>22 DEF TriggerFormatting, TriggerOf, EditorKey, Press, AtEvent, Shown
  <2>2. buffers' = buffers /\ active' \in DOMAIN buffers
    BY <1>22 DEF TriggerFormatting, TriggerOf, EditorKey, Press, AtEvent, Shown
  <2> QED BY <2>1, <2>2, ShowsSame
<1>23. CASE TriggerSignatureHelp
  <2>1. batch' \in Seq(Items) /\ pc' \in {"frame", "apply", "event"}
    BY <1>23 DEF TriggerSignatureHelp, EditorKey, Press, AtEvent, Shown
  <2>2. buffers' = Edited(buffers, active) /\ active' = active
    BY <1>23 DEF TriggerSignatureHelp, EditorKey, Press, AtEvent
  <2> QED BY <2>1, <2>2, ShowsEdited
<1>24. CASE TriggerRename
  <2>1. batch' \in Seq(Items) /\ pc' \in {"frame", "apply", "event"}
    BY <1>24 DEF TriggerRename, OpenPrompt, Press, AtEvent, Shown
  <2>2. buffers' = buffers /\ active' \in DOMAIN buffers
    BY <1>24 DEF TriggerRename, OpenPrompt, Press, AtEvent, Shown
  <2> QED BY <2>1, <2>2, ShowsSame
<1>25. CASE TriggerWorkspaceSymbols
  <2>1. batch' \in Seq(Items) /\ pc' \in {"frame", "apply", "event"}
    BY <1>25 DEF TriggerWorkspaceSymbols, OpenPrompt, Press, AtEvent, Shown
  <2>2. buffers' = buffers /\ active' \in DOMAIN buffers
    BY <1>25 DEF TriggerWorkspaceSymbols, OpenPrompt, Press, AtEvent, Shown
  <2> QED BY <2>1, <2>2, ShowsSame
<1>26. CASE ConfirmPrompt
  <2>1. batch' \in Seq(Items) /\ pc' \in {"frame", "apply", "event"}
    BY <1>26 DEF ConfirmPrompt, Press, AtEvent, Shown
  <2>2. buffers' = buffers /\ active' \in DOMAIN buffers
    BY <1>26 DEF ConfirmPrompt, Press, AtEvent, Shown
  <2> QED BY <2>1, <2>2, ShowsSame
<1>27. CASE DismissPopup
  <2>1. batch' \in Seq(Items) /\ pc' \in {"frame", "apply", "event"}
    BY <1>27 DEF DismissPopup, PopupKey, Press, AtEvent, Shown
  <2>2. buffers' = buffers /\ active' \in DOMAIN buffers
    BY <1>27 DEF DismissPopup, PopupKey, Press, AtEvent, Shown
  <2> QED BY <2>1, <2>2, ShowsSame
<1>28. CASE AcceptCompletion
  <2>1. batch' \in Seq(Items) /\ pc' \in {"frame", "apply", "event"}
    BY <1>28 DEF AcceptCompletion, PopupKey, Press, AtEvent, Shown
  <2>2. buffers' = Edited(buffers, active) /\ active' = active
    BY <1>28 DEF AcceptCompletion, PopupKey, Press, AtEvent
  <2> QED BY <2>1, <2>2, ShowsEdited
<1>29. CASE JumpToSelectedReference
  <2>1. batch' \in Seq(Items) /\ pc' \in {"frame", "apply", "event"}
    BY <1>29 DEF JumpToSelectedReference, PopupKey, Press, AtEvent, Shown
  <2>2. \/ buffers' = buffers /\ active' = active
        \/ \E p \in Paths : buffers' = Reveal(p).buffers /\ active' = Reveal(p).active
    BY <1>29 DEF JumpToSelectedReference, PopupKey, Press, AtEvent
  <2>3. CASE buffers' = buffers /\ active' = active
    <3>1. active \in DOMAIN buffers
      BY DEF Shown
    <3> QED BY <2>1, <2>3, <3>1, ShowsSame
  <2>4. ASSUME NEW p \in Paths, buffers' = Reveal(p).buffers, active' = Reveal(p).active
        PROVE  Shown' /\ Grows(buffers, buffers')
    <3>1. Grows(buffers, buffers') /\ active' \in DOMAIN buffers'
      BY <2>4, RevealGrows DEF Reveal, Shown
    <3> QED BY <2>1, <3>1, ShowsOn
  <2> QED BY <2>2, <2>3, <2>4
<1>30. CASE JumpToSelectedSymbol
  <2>1. batch' \in Seq(Items) /\ pc' \in {"frame", "apply", "event"}
    BY <1>30 DEF JumpToSelectedSymbol, PopupKey, Press, AtEvent, Shown
  <2>2. buffers' = buffers /\ active' \in DOMAIN buffers
    BY <1>30 DEF JumpToSelectedSymbol, PopupKey, Press, AtEvent, Shown
  <2> QED BY <2>1, <2>2, ShowsSame
<1>31. CASE ApplySelectedCodeAction
  <2>1. batch' \in Seq(Items) /\ pc' \in {"frame", "apply", "event"}
    BY <1>31 DEF ApplySelectedCodeAction, PopupKey, Press, AtEvent, Shown
  <2>2. (\E p \in Paths : ApplyWorkspaceEdits(p)) \/ (buffers' = buffers /\ active' = active)
    BY <1>31 DEF ApplySelectedCodeAction, PopupKey, Press, AtEvent
  <2>3. CASE buffers' = buffers /\ active' = active
    <3>1. active \in DOMAIN buffers
      BY DEF Shown
    <3> QED BY <2>1, <2>3, <3>1, ShowsSame
  <2>4. ASSUME NEW p \in Paths, ApplyWorkspaceEdits(p) PROVE Shown' /\ Grows(buffers, buffers')
    <3>1. Grows(buffers, buffers') /\ active' \in DOMAIN buffers'
      BY <2>4, EditsGrow
    <3> QED BY <2>1, <3>1, ShowsOn
  <2> QED BY <2>2, <2>3, <2>4
<1>32. CASE OpenSearch
  <2>1. batch' \in Seq(Items) /\ pc' \in {"frame", "apply", "event"}
    BY <1>32 DEF OpenSearch, Press, AtEvent, Shown
  <2>2. buffers' = buffers /\ active' \in DOMAIN buffers
    BY <1>32 DEF OpenSearch, Press, AtEvent, Shown
  <2> QED BY <2>1, <2>2, ShowsSame
<1>33. CASE OpenFinder
  <2>1. batch' \in Seq(Items) /\ pc' \in {"frame", "apply", "event"}
    BY <1>33 DEF OpenFinder, Press, AtEvent, Shown
  <2>2. buffers' = buffers /\ active' \in DOMAIN buffers
    BY <1>33 DEF OpenFinder, Press, AtEvent, Shown
  <2> QED BY <2>1, <2>2, ShowsSame
<1>34. CASE FinderAccept
  <2>1. batch' \in Seq(Items) /\ pc' \in {"frame", "apply", "event"}
    BY <1>34 DEF FinderAccept, Press, AtEvent, Shown
  <2>2. \/ buffers' = buffers /\ active' = active
        \/ \E p \in Paths : buffers' = Append(buffers, [path |-> p, rev |-> 0]) /\ active' = Len(buffers) + 1
    BY <1>34 DEF FinderAccept, Press, AtEvent
  <2>3. CASE buffers' = buffers /\ active' = active
    <3>1. active \in DOMAIN buffers
      BY DEF Shown
    <3> QED BY <2>1, <2>3, <3>1, ShowsSame
  <2>4. ASSUME NEW p \in Paths, buffers' = Append(buffers, [path |-> p, rev |-> 0]), active' = Len(buffers) + 1
        PROVE  Shown' /\ Grows(buffers, buffers')
    <3>1. Grows(buffers, buffers') /\ active' \in DOMAIN buffers'
      BY <2>4, OpenedGrows DEF Shown
    <3> QED BY <2>1, <3>1, ShowsOn
  <2> QED BY <2>2, <2>3, <2>4
<1> QED BY <1>1, <1>2, <1>3, <1>4, <1>5, <1>6, <1>7, <1>8, <1>9, <1>10, <1>11, <1>12, <1>13,
       <1>14, <1>15, <1>16, <1>17, <1>18, <1>19, <1>20, <1>21, <1>22, <1>23, <1>24, <1>25,
       <1>26, <1>27, <1>28, <1>29, <1>30, <1>31, <1>32, <1>33, <1>34 DEF EditorStep, Event,
       TryLspTrigger

(* A popup that is shown takes the place of the others; keys only dismiss.  *)
LEMMA EditorPopups ==
    ASSUME AtMostOne, EditorStep
    PROVE  AtMostOne'
<1> USE DEF clientVars, bufferVars, modalVars
<1>1. CASE FireDueLsp
    BY <1>1 DEF FireDueLsp, AtMostOne, Dismissed
<1>2. CASE ApplyStale
    BY <1>2 DEF ApplyStale, Take, AtMostOne, Dismissed
<1>3. CASE ShowPopup
    BY <1>3 DEF ShowPopup, Take, AtMostOne, Popups
<1>4. CASE ApplyGoto
    BY <1>4 DEF ApplyGoto, Take, AtMostOne, Dismissed
<1>5. CASE ApplyRename
    BY <1>5 DEF ApplyRename, Take, AtMostOne, Dismissed
<1>6. CASE ApplyEdit
    BY <1>6 DEF ApplyEdit, Take, AtMostOne, Dismissed
<1>7. CASE ApplyHighlight
    BY <1>7 DEF ApplyHighlight, Take, AtMostOne, Dismissed
<1>8. CASE ApplyFormatting
    BY <1>8 DEF ApplyFormatting, Take, AtMostOne, Dismissed
<1>9. CASE NoEvent
    BY <1>9 DEF NoEvent, AtEvent, AtMostOne, Dismissed
<1>10. CASE Type
    BY <1>10 DEF Type, EditorKey, Press, AtEvent, AtMostOne, Dismissed
<1>11. CASE Move
    BY <1>11 DEF Move, EditorKey, Press, AtEvent, AtMostOne, Dismissed
<1>12. CASE SwitchBuffer
    BY <1>12 DEF SwitchBuffer, EditorKey, Press, AtEvent, AtMostOne, Dismissed
<1>13. CASE SwitchFocus
    BY <1>13 DEF SwitchFocus, EditorKey, Press, AtEvent, AtMostOne, Dismissed
<1>14. CASE TriggerCompletion
    BY <1>14 DEF TriggerCompletion, TriggerOf, EditorKey, Press, AtEvent, AtMostOne, Dismissed
<1>15. CASE TriggerHover
    BY <1>15 DEF TriggerHover, TriggerOf, EditorKey, Press, AtEvent, AtMostOne, Dismissed
<1>16. CASE TriggerGotoDefinition
    BY <1>16 DEF TriggerGotoDefinition, TriggerOf, EditorKey, Press, AtEvent, AtMostOne,
       Dismissed
<1>17. CASE TriggerTypeDefinition
    BY <1>17 DEF TriggerTypeDefinition, TriggerOf, EditorKey, Press, AtEvent, AtMostOne,
       Dismissed
<1>18. CASE TriggerImplementation
    BY <1>18 DEF TriggerImplementation, TriggerOf, EditorKey, Press, AtEvent, AtMostOne,
       Dismissed
<1>19. CASE TriggerReferences
    BY <1>19 DEF TriggerReferences, TriggerOf, EditorKey, Press, AtEvent, AtMostOne, Dismissed
<1>20. CASE TriggerDocumentSymbols
    BY <1>20 DEF TriggerDocumentSymbols, TriggerOf, EditorKey, Press, AtEvent, AtMostOne,
       Dismissed
<1>21. CASE TriggerCodeActions
    BY <1>21 DEF TriggerCodeActions, TriggerOf, EditorKey, Press, AtEvent, AtMostOne, Dismissed
<1>22. CASE TriggerFormatting
    BY <1>22 DEF TriggerFormatting, TriggerOf, EditorKey, Press, AtEvent, AtMostOne, Dismissed
<1>23. CASE TriggerSignatureHelp
    BY <1>23 DEF TriggerSignatureHelp, EditorKey, Press, AtEvent, AtMostOne, Dismissed
<1>24. CASE TriggerRename
    BY <1>24 DEF TriggerRename, OpenPrompt, Press, AtEvent, AtMostOne, Dismissed
<1>25. CASE TriggerWorkspaceSymbols
    BY <1>25 DEF TriggerWorkspaceSymbols, OpenPrompt, Press, AtEvent, AtMostOne, Dismissed
<1>26. CASE ConfirmPrompt
    BY <1>26 DEF ConfirmPrompt, Press, AtEvent, AtMostOne, Dismissed
<1>27. CASE DismissPopup
    BY <1>27 DEF DismissPopup, PopupKey, Press, AtEvent, AtMostOne, Dismissed
<1>28. CASE AcceptCompletion
    BY <1>28 DEF AcceptCompletion, PopupKey, Press, AtEvent, AtMostOne, Dismissed
<1>29. CASE JumpToSelectedReference
    BY <1>29 DEF JumpToSelectedReference, PopupKey, Press, AtEvent, AtMostOne, Dismissed
<1>30. CASE JumpToSelectedSymbol
    BY <1>30 DEF JumpToSelectedSymbol, PopupKey, Press, AtEvent, AtMostOne, Dismissed
<1>31. CASE ApplySelectedCodeAction
    BY <1>31 DEF ApplySelectedCodeAction, PopupKey, Press, AtEvent, AtMostOne, Dismissed
<1>32. CASE OpenSearch
    BY <1>32 DEF OpenSearch, Press, AtEvent, AtMostOne, Dismissed
<1>33. CASE OpenFinder
    BY <1>33 DEF OpenFinder, Press, AtEvent, AtMostOne, Dismissed
<1>34. CASE FinderAccept
    BY <1>34 DEF FinderAccept, Press, AtEvent, AtMostOne, Dismissed
<1> QED BY <1>1, <1>2, <1>3, <1>4, <1>5, <1>6, <1>7, <1>8, <1>9, <1>10, <1>11, <1>12, <1>13,
       <1>14, <1>15, <1>16, <1>17, <1>18, <1>19, <1>20, <1>21, <1>22, <1>23, <1>24, <1>25,
       <1>26, <1>27, <1>28, <1>29, <1>30, <1>31, <1>32, <1>33, <1>34 DEF EditorStep, Event,
       TryLspTrigger

-----------------------------------------------------------------------------
(* The manager's record: what is opened, changed and sent.                 *)

(* What a server held it holds in this version or, if it is sent another,  *)
(* in a later one.                                                         *)
Follows(m, n) ==
    \A p \in DOMAIN m.held :
        /\ p \in DOMAIN n.held /\ n.held[p].version >= m.held[p].version
        /\ (n.held[p] # m.held[p] /\ m.held[p].version < MaxVersion) => n.held[p].version > m.held[p].version

(* The documents and the startup of n are those of m but for p.            *)
Besides(m, n, p) ==
    /\ DOMAIN m.docs \subseteq DOMAIN n.docs /\ DOMAIN n.docs \subseteq DOMAIN m.docs \cup {p}
    /\ \A x \in DOMAIN m.docs \ {p} : n.docs[x].text = m.docs[x].text

(* A partial function, said without its domain.                            *)
LEMMA Partially ==
    ASSUME NEW T, NEW f
    PROVE  f \in Partial(T) <=> DOMAIN f \subseteq Handled /\ f \in [DOMAIN f -> T]
  BY DEF Partial

(* One more value is of the type of the others.                            *)
LEMMA WithOne ==
    ASSUME NEW T, NEW f \in Partial(T), NEW p \in Handled, NEW v \in T
    PROVE  With(f, p, v) \in Partial(T)
<1>1. DOMAIN f \subseteq Handled /\ f \in [DOMAIN f -> T]
    BY Partially
<1>2. DOMAIN With(f, p, v) \subseteq Handled /\ With(f, p, v) \in [DOMAIN With(f, p, v) -> T]
    BY <1>1 DEF With
<1> QED BY <1>2, Partially

(* A manager's parts.                                                      *)
LEMMA Parts ==
    ASSUME NEW m \in Managers
    PROVE  /\ m.docs \in Partial(Entries) /\ m.held \in Partial(Contents)
           /\ \A p \in DOMAIN m.docs : m.docs[p] \in Entries /\ Content(m.docs[p]) \in Contents
           /\ \A p \in DOMAIN m.held : m.held[p] \in Contents
           /\ DOMAIN m.docs \subseteq Handled /\ DOMAIN m.held \subseteq Handled
<1>1. m.docs \in Partial(Entries) /\ m.held \in Partial(Contents)
    BY DEF Managers
<1>2. /\ DOMAIN m.docs \subseteq Handled /\ m.docs \in [DOMAIN m.docs -> Entries]
      /\ DOMAIN m.held \subseteq Handled /\ m.held \in [DOMAIN m.held -> Contents]
    BY <1>1, Partially
<1>3. \A d \in Entries : Content(d) \in Contents
    BY DEF Entries, Contents, Content
<1> QED BY <1>1, <1>2, <1>3

(* Versions are numbers.                                                   *)
LEMMA HeldVersions ==
    ASSUME NEW m \in Managers
    PROVE  \A p \in DOMAIN m.held : m.held[p].version \in Nat
<1>1. \A p \in DOMAIN m.held : m.held[p] \in Contents
    BY Parts
<1> QED BY <1>1 DEF Contents

(* A document that is opened or changed is sent.                           *)
LEMMA Notifies ==
    ASSUME NEW m \in Managers, NEW p \in DOMAIN m.docs
    PROVE  LET n == Notify(m, p)
           IN  /\ n \in Managers /\ n.slot = m.slot /\ n.docs = m.docs
               /\ Delivers(m) => n.held = With(m.held, p, Content(m.docs[p]))
               /\ ~Delivers(m) => n.held = m.held
<1>1. m.held \in Partial(Contents) /\ Content(m.docs[p]) \in Contents /\ p \in Handled
    BY Parts
<1>2. With(m.held, p, Content(m.docs[p])) \in Partial(Contents)
    BY <1>1, WithOne
<1> QED BY <1>2 DEF Notify, Managers

(* An opened document is in the manager, and with a server that lives.     *)
LEMMA Opens ==
    ASSUME NEW m, Manages(m), NEW p \in Handled, p \notin DOMAIN m.held, NEW text \in Texts
    PROVE  LET n == Open(m, p, text)
           IN  /\ Manages(n) /\ Follows(m, n) /\ Besides(m, n, p)
               /\ p \in DOMAIN n.docs /\ n.docs[p].text = text
               /\ n.slot = IF m.slot = "none" THEN "starting" ELSE m.slot
               /\ server # "alive" => n.held = m.held
<1> DEFINE entry == [version |-> 1, text |-> text, diagnosed |-> FALSE]
           opened == [EnsureServerStarting(m) EXCEPT !.docs = With(@, p, entry)]
           n == Open(m, p, text)
<1>1. entry \in Entries /\ m \in Managers
    BY DEF Entries, Manages
<1>2. /\ m.docs \in Partial(Entries) /\ DOMAIN m.docs \subseteq Handled
      /\ \A x \in DOMAIN m.docs : m.docs[x] \in Entries
    BY <1>1, Parts
<1> HIDE DEF entry
<1>3. /\ With(m.docs, p, entry) \in Partial(Entries) /\ DOMAIN With(m.docs, p, entry) = DOMAIN m.docs \cup {p}
      /\ \A x \in DOMAIN m.docs \cup {p} : With(m.docs, p, entry)[x] = IF x = p THEN entry ELSE m.docs[x]
  <2>1. With(m.docs, p, entry) \in Partial(Entries)
    BY <1>1, <1>2, WithOne
  <2> QED BY <2>1 DEF With
<1>4. /\ opened \in Managers /\ opened.docs = With(m.docs, p, entry) /\ opened.held = m.held
      /\ opened.slot = IF m.slot = "none" THEN "starting" ELSE m.slot
    BY <1>1, <1>3 DEF EnsureServerStarting, Managers
<1>5. n = Notify(opened, p)
    BY DEF Open, entry
<1> HIDE DEF opened, n
<1>6. /\ n \in Managers /\ n.slot = opened.slot /\ n.docs = opened.docs
      /\ Delivers(opened) => n.held = With(m.held, p, Content(entry))
      /\ ~Delivers(opened) => n.held = m.held
    BY <1>3, <1>4, <1>5, Notifies
<1>7. entry.text = text /\ entry.version = 1 /\ Content(entry) \in Contents /\ Content(entry).version = 1
    BY <1>1 DEF entry, Content, Entries, Contents
<1>8. CASE Delivers(opened)
  <2>1. m.slot = "ready" /\ server = "alive"
    BY <1>4, <1>8 DEF Delivers
  <2>2. /\ DOMAIN n.held = DOMAIN m.held \cup {p}
        /\ \A x \in DOMAIN m.held \cup {p} : n.held[x] = IF x = p THEN Content(entry) ELSE m.held[x]
    <3>1. m.held \in Partial(Contents)
      BY <1>1, Parts
    <3> DEFINE h == With(m.held, p, Content(entry))
    <3>2. DOMAIN h = DOMAIN m.held \cup {p} /\ \A x \in DOMAIN m.held \cup {p} : h[x] = IF x = p THEN Content(entry) ELSE m.held[x]
      BY DEF With
    <3> QED BY <1>6, <1>8, <3>2
  <2>3. Manages(n)
    BY <1>3, <1>4, <1>6, <1>7, <2>1, <2>2 DEF Manages
  <2>4. Follows(m, n)
    BY <1>1, <2>2, HeldVersions DEF Follows
  <2> QED BY <1>3, <1>4, <1>6, <1>7, <2>1, <2>3, <2>4 DEF n, Besides
<1>9. CASE ~Delivers(opened)
  <2>1. ~(m.slot = "ready" /\ server = "alive") /\ n.held = m.held
    BY <1>4, <1>6, <1>9 DEF Delivers
  <2>2. Manages(n)
    BY <1>3, <1>4, <1>6, <2>1 DEF Manages
  <2>3. Follows(m, n)
    BY <1>1, <2>1, HeldVersions DEF Follows
  <2> QED BY <1>3, <1>4, <1>6, <1>7, <2>1, <2>2, <2>3 DEF n, Besides
<1> QED BY <1>8, <1>9

(* A changed document has another version, and the server gets it.         *)
LEMMA Changes ==
    ASSUME ClientAssumption, NEW m, Manages(m), NEW p \in DOMAIN m.docs, NEW text \in Texts
    PROVE  LET n == Change(m, p, text)
           IN  /\ Manages(n) /\ Follows(m, n) /\ Besides(m, n, p)
               /\ p \in DOMAIN n.docs /\ n.docs[p].text = text
               /\ n.slot = m.slot
               /\ server # "alive" => n.held = m.held
<1> DEFINE next == IF m.docs[p].version < MaxVersion THEN m.docs[p].version + 1 ELSE m.docs[p].version
           entry == [m.docs[p] EXCEPT !.text = text, !.version = next]
           changed == [m EXCEPT !.docs = [@ EXCEPT ![p] = entry]]
           n == Change(m, p, text)
<1>1. m \in Managers /\ m.docs \in Partial(Entries) /\ m.docs[p] \in Entries /\ DOMAIN m.docs \subseteq Handled
    BY Parts DEF Manages
<1>2. m.docs[p].version \in Nat /\ MaxVersion \in Nat
    BY <1>1 DEF Entries, ClientAssumption
<1>3. next \in Nat /\ m.docs[p].version <= next /\ (m.docs[p].version < MaxVersion => m.docs[p].version < next)
    BY <1>2
<1> HIDE DEF next
<1>4. entry \in Entries /\ entry.text = text /\ entry.version = next
    BY <1>1, <1>3 DEF Entries
<1> HIDE DEF entry
<1>5. /\ [m.docs EXCEPT ![p] = entry] \in Partial(Entries) /\ DOMAIN [m.docs EXCEPT ![p] = entry] = DOMAIN m.docs
      /\ \A x \in DOMAIN m.docs : [m.docs EXCEPT ![p] = entry][x] = IF x = p THEN entry ELSE m.docs[x]
    BY <1>1, <1>4, Partially
<1>6. /\ changed \in Managers /\ changed.docs = [m.docs EXCEPT ![p] = entry]
      /\ changed.held = m.held /\ changed.slot = m.slot
    BY <1>1, <1>5 DEF Managers
<1>7. n = Notify(changed, p)
    BY <1>1 DEF Change, entry, next, Managers
<1> HIDE DEF changed, n
<1>8. /\ n \in Managers /\ n.slot = m.slot /\ n.docs = changed.docs
      /\ Delivers(changed) => n.held = With(m.held, p, Content(entry))
      /\ ~Delivers(changed) => n.held = m.held
    BY <1>5, <1>6, <1>7, Notifies
<1>9. Content(entry) \in Contents /\ Content(entry).version = next
    BY <1>4 DEF Content, Entries, Contents
<1>10. CASE Delivers(changed)
  <2>1. m.slot = "ready" /\ server = "alive"
    BY <1>6, <1>10 DEF Delivers
  <2>2. /\ DOMAIN n.held = DOMAIN m.held \cup {p}
        /\ \A x \in DOMAIN m.held \cup {p} : n.held[x] = IF x = p THEN Content(entry) ELSE m.held[x]
    <3>1. m.held \in Partial(Contents) /\ p \in Handled
      BY <1>1, Parts
    <3> DEFINE h == With(m.held, p, Content(entry))
    <3>2. DOMAIN h = DOMAIN m.held \cup {p} /\ \A x \in DOMAIN m.held \cup {p} : h[x] = IF x = p THEN Content(entry) ELSE m.held[x]
      BY DEF With
    <3> QED BY <1>8, <1>10, <3>2
  <2>3. Manages(n)
    BY <1>3, <1>4, <1>5, <1>6, <1>8, <1>9, <2>1, <2>2 DEF Manages
  <2>4. Follows(m, n)
    <3>1. p \in DOMAIN m.held /\ m.held[p].version \in Nat /\ m.held[p].version = m.docs[p].version
      <4>1. p \in DOMAIN m.held /\ m.held[p] = Content(m.docs[p])
        BY <2>1 DEF Manages
      <4>2. Content(m.docs[p]).version = m.docs[p].version
        BY DEF Content
      <4> QED BY <1>2, <4>1, <4>2
    <3> QED BY <1>1, <1>2, <1>3, <1>9, <2>2, <3>1, HeldVersions DEF Follows
  <2> QED BY <1>4, <1>5, <1>6, <1>8, <2>1, <2>3, <2>4 DEF n, Besides
<1>11. CASE ~Delivers(changed)
  <2>1. ~(m.slot = "ready" /\ server = "alive") /\ n.held = m.held
    BY <1>6, <1>8, <1>11 DEF Delivers
  <2>2. \A x \in DOMAIN m.held : n.held[x].version <= n.docs[x].version
    <3>1. \A x \in DOMAIN m.held : m.held[x].version \in Nat /\ x \in DOMAIN m.docs /\ m.held[x].version <= m.docs[x].version
      BY <1>1, Parts DEF Contents, Manages
    <3> QED BY <1>2, <1>3, <1>4, <1>5, <1>6, <1>8, <2>1, <3>1
  <2>3. Manages(n)
    BY <1>5, <1>6, <1>8, <2>1, <2>2 DEF Manages
  <2>4. Follows(m, n)
    BY <1>1, <2>1, HeldVersions DEF Follows
  <2> QED BY <1>4, <1>5, <1>6, <1>8, <2>1, <2>3, <2>4 DEF n, Besides
<1> QED BY <1>10, <1>11

(* A server that comes up is sent all documents.                           *)
LEMMA Advances ==
    ASSUME NEW m, Manages(m)
    PROVE  LET n == AdvanceStartups(m)
           IN  /\ Manages(n) /\ Follows(m, n) /\ n.docs = m.docs
               /\ (n.slot = "none") <=> (m.slot = "none")
               /\ n.slot = "ready" => m.slot = "ready" \/ startup = "ok"
               /\ m.slot = "ready" => n.slot = "ready"
               /\ server # "alive" => n.held = m.held
<1> DEFINE n == AdvanceStartups(m)
<1>1. m \in Managers
    BY DEF Manages
<1>2. CASE m.slot # "starting" \/ startup \notin {"ok", "failed"}
  <2>1. n = m
    BY <1>2 DEF AdvanceStartups
  <2> QED BY <1>1, <2>1, HeldVersions DEF Follows
<1>3. CASE m.slot = "starting" /\ startup = "failed"
  <2>1. n = [m EXCEPT !.slot = "failed"]
    BY <1>3 DEF AdvanceStartups
  <2>2. n \in Managers /\ n.slot = "failed" /\ n.docs = m.docs /\ n.held = m.held
    BY <1>1, <2>1 DEF Managers
  <2> QED BY <1>1, <1>3, <2>2, HeldVersions DEF Manages, Follows
<1>4. CASE m.slot = "starting" /\ startup = "ok" /\ server # "alive"
  <2>1. n = [m EXCEPT !.slot = "ready"]
    BY <1>4 DEF AdvanceStartups
  <2>2. n \in Managers /\ n.slot = "ready" /\ n.docs = m.docs /\ n.held = m.held
    BY <1>1, <2>1 DEF Managers
  <2> QED BY <1>1, <1>4, <2>2, HeldVersions DEF Manages, Follows
<1>5. CASE m.slot = "starting" /\ startup = "ok" /\ server = "alive"
  <2> DEFINE held == [p \in DOMAIN m.docs |-> Content(m.docs[p])]
  <2>1. n = [m EXCEPT !.slot = "ready", !.held = held]
    BY <1>5 DEF AdvanceStartups
  <2>2. held \in Partial(Contents) /\ DOMAIN held = DOMAIN m.docs /\ \A p \in DOMAIN m.docs : held[p] = Content(m.docs[p])
    <3>1. DOMAIN m.docs \subseteq Handled /\ \A p \in DOMAIN m.docs : Content(m.docs[p]) \in Contents
      BY <1>1, Parts
    <3> QED BY <3>1, Partially
  <2> HIDE DEF held
  <2>3. n \in Managers /\ n.slot = "ready" /\ n.docs = m.docs /\ n.held = held
    BY <1>1, <2>1, <2>2 DEF Managers
  <2>4. \A p \in DOMAIN m.docs : held[p].version = m.docs[p].version /\ m.docs[p].version \in Nat
    <3>1. \A p \in DOMAIN m.docs : m.docs[p] \in Entries
      BY <1>1, Parts
    <3>2. \A p \in DOMAIN m.docs : Content(m.docs[p]).version = m.docs[p].version
      BY DEF Content
    <3> QED BY <2>2, <3>1, <3>2 DEF Entries
  <2>5. DOMAIN m.held = {}
    BY <1>5 DEF Manages
  <2>6. Manages(n)
    BY <2>2, <2>3, <2>4 DEF Manages
  <2> QED BY <1>5, <2>3, <2>5, <2>6 DEF Follows
<1> QED BY <1>2, <1>3, <1>4, <1>5

(* Diagnostics are noted, and nothing else of a document changes.          *)
LEMMA Publishes ==
    ASSUME NEW m, Manages(m), NEW about
    PROVE  LET n == Publish(m, about)
           IN  /\ Manages(n) /\ n.slot = m.slot /\ n.held = m.held
               /\ DOMAIN n.docs = DOMAIN m.docs /\ \A p \in DOMAIN m.docs : n.docs[p].text = m.docs[p].text
<1> DEFINE docs == [p \in DOMAIN m.docs |-> IF p \in about THEN [m.docs[p] EXCEPT !.diagnosed = TRUE] ELSE m.docs[p]]
           n == Publish(m, about)
<1>1. m \in Managers /\ DOMAIN m.docs \subseteq Handled /\ \A p \in DOMAIN m.docs : m.docs[p] \in Entries
    BY Parts DEF Manages
<1>2. \A p \in DOMAIN m.docs :
        docs[p] \in Entries /\ docs[p].text = m.docs[p].text /\ docs[p].version = m.docs[p].version
    BY <1>1 DEF Entries
<1>3. DOMAIN docs = DOMAIN m.docs /\ docs \in Partial(Entries)
    BY <1>1, <1>2, Partially
<1>4. n = [m EXCEPT !.docs = docs]
    BY <1>1 DEF Publish, Managers
<1> HIDE DEF docs
<1>5. n \in Managers /\ n.slot = m.slot /\ n.held = m.held /\ n.docs = docs
    BY <1>1, <1>3, <1>4 DEF Managers
<1>6. \A p \in DOMAIN m.docs : Content(docs[p]) = Content(m.docs[p])
    BY <1>2 DEF Content
<1>7. Manages(n)
    BY <1>2, <1>3, <1>5, <1>6 DEF Manages
<1> QED BY <1>2, <1>3, <1>5, <1>7

(* A poll brings the manager on.                                           *)
LEMMA Polls ==
    ASSUME NEW m, Manages(m)
    PROVE  LET n == Poll(m)
           IN  /\ Manages(n) /\ Follows(m, n)
               /\ DOMAIN n.docs = DOMAIN m.docs /\ \A p \in DOMAIN m.docs : n.docs[p].text = m.docs[p].text
               /\ (n.slot = "none") <=> (m.slot = "none")
               /\ n.slot = "ready" => m.slot = "ready" \/ startup = "ok"
               /\ m.slot = "ready" => n.slot = "ready"
               /\ server # "alive" => n.held = m.held
<1> DEFINE a == AdvanceStartups(m)
<1>1. /\ Manages(a) /\ Follows(m, a) /\ a.docs = m.docs
      /\ (a.slot = "none") <=> (m.slot = "none")
      /\ a.slot = "ready" => m.slot = "ready" \/ startup = "ok"
      /\ m.slot = "ready" => a.slot = "ready"
      /\ server # "alive" => a.held = m.held
    BY Advances
<1>2. Poll(m) = IF a.slot = "ready" THEN Publish(a, bus.about) ELSE a
    BY DEF Poll
<1> HIDE DEF a
<1>3. CASE a.slot = "ready"
    BY <1>1, <1>2, <1>3, Publishes DEF Follows
<1>4. CASE a.slot # "ready"
    BY <1>1, <1>2, <1>4
<1> QED BY <1>3, <1>4

-----------------------------------------------------------------------------
(* Every step of every thread keeps each part of the invariant.            *)

(* Following is transitive as long as versions are numbers.                *)
LEMMA FollowsOn ==
    ASSUME NEW l, NEW m, NEW n, Manages(l), Manages(m), Manages(n), Follows(l, m), Follows(m, n), ClientAssumption
    PROVE  Follows(l, n)
<1>1. ASSUME NEW p \in DOMAIN l.held PROVE p \in DOMAIN m.held /\ p \in DOMAIN n.held
    BY <1>1 DEF Follows
<1>2. ASSUME NEW p \in DOMAIN l.held
      PROVE  /\ n.held[p].version >= l.held[p].version
             /\ (n.held[p] # l.held[p] /\ l.held[p].version < MaxVersion) => n.held[p].version > l.held[p].version
  <2>1. l.held[p].version \in Nat /\ m.held[p].version \in Nat /\ n.held[p].version \in Nat /\ MaxVersion \in Nat
    BY <1>1, <1>2, HeldVersions DEF Manages, ClientAssumption
  <2>2. /\ m.held[p].version >= l.held[p].version
        /\ (m.held[p] # l.held[p] /\ l.held[p].version < MaxVersion) => m.held[p].version > l.held[p].version
    BY <1>2 DEF Follows
  <2>3. /\ n.held[p].version >= m.held[p].version
        /\ (n.held[p] # m.held[p] /\ m.held[p].version < MaxVersion) => n.held[p].version > m.held[p].version
    BY <1>1, <1>2 DEF Follows
  <2> QED BY <2>1, <2>2, <2>3
<1> QED BY <1>1, <1>2 DEF Follows

(* A frame syncs the buffer that has the focus: what was sent counts as    *)
(* synced, and only that.                                                  *)
LEMMA SyncStep ==
    ASSUME ClientAssumption, IInv, SyncLsp
    PROVE  Serving' /\ Syncing' /\ Follows(lsp, lsp')
<1> DEFINE p == ActivePath
           due == Handles(p) /\ ~(p \in DOMAIN synced /\ synced[p] = buffers[active].rev)
           m == IF ~due THEN lsp
                ELSE IF p \in DOMAIN synced THEN Change(lsp, p, TextOf(active)) ELSE Open(lsp, p, TextOf(active))
<1>1. /\ Manages(lsp) /\ lsp \in Managers /\ active \in DOMAIN buffers
      /\ p \in Paths /\ buffers[active].path = p /\ buffers[active].rev \in Nat /\ TextOf(active) \in Texts
  <2>1. /\ Manages(lsp) /\ lsp \in Managers /\ buffers \in Seq(Files) /\ active \in DOMAIN buffers
    BY DEF IInv, Serving, Manages, Shown
  <2>2. buffers[active] \in Files /\ active \in Nat
    BY <2>1, Elements
  <2> QED BY <2>1, <2>2 DEF Files, ActivePath, TextOf, Texts
<1>2. /\ Manages(m) /\ Follows(lsp, m) /\ Besides(lsp, m, p) /\ (~due => m = lsp)
      /\ due => p \in DOMAIN m.docs /\ m.docs[p].text = TextOf(active)
      /\ m.slot = IF due /\ lsp.slot = "none" THEN "starting" ELSE lsp.slot
      /\ server # "alive" => m.held = lsp.held
  <2>1. CASE ~due
    BY <1>1, <2>1, HeldVersions DEF Follows, Besides
  <2>2. CASE due /\ p \in DOMAIN synced
    <3>1. p \in DOMAIN lsp.docs /\ lsp.slot # "none"
      BY <1>1, <2>2 DEF IInv, Syncing, Manages
    <3>2. m = Change(lsp, p, TextOf(active))
      BY <2>2
    <3> HIDE DEF m, p
    <3> QED BY <1>1, <2>2, <3>1, <3>2, Changes
  <2>3. CASE due /\ p \notin DOMAIN synced
    <3>1. p \in Handled /\ p \notin DOMAIN lsp.held
      BY <2>3 DEF Handles, IInv, Syncing
    <3>2. m = Open(lsp, p, TextOf(active))
      BY <2>3
    <3> HIDE DEF m, p
    <3> QED BY <1>1, <2>3, <3>1, <3>2, Opens
  <2> QED BY <2>1, <2>2, <2>3
<1>3. /\ lsp' = Poll(m) /\ UNCHANGED <<server, full, buffers, active>>
      /\ startup' = IF lsp.slot = "none" /\ m.slot = "starting" THEN "spawning" ELSE startup
      /\ IF due /\ Sent(m) THEN synced' = With(synced, p, buffers[active].rev) ELSE synced' = synced
  BY DEF SyncLsp, bufferVars, syncVars
<1> HIDE DEF m
<1>4. /\ Manages(lsp') /\ Follows(m, lsp')
      /\ DOMAIN lsp'.docs = DOMAIN m.docs /\ \A x \in DOMAIN m.docs : lsp'.docs[x].text = m.docs[x].text
      /\ (lsp'.slot = "none") <=> (m.slot = "none")
      /\ lsp'.slot = "ready" => m.slot = "ready" \/ startup = "ok"
      /\ m.slot = "ready" => lsp'.slot = "ready"
      /\ server # "alive" => lsp'.held = m.held
  BY <1>2, <1>3, Polls
<1>5. Follows(lsp, lsp')
  BY <1>1, <1>2, <1>4, FollowsOn
<1>6. Serving'
  <2>1. Manages(lsp)'
    BY <1>3, <1>4 DEF Manages
  <2>2. /\ startup' \in {"idle", "spawning", "waiting", "ok", "failed"}
        /\ server' \in {"none", "alive", "dead"} /\ full' \in BOOLEAN
    BY <1>3 DEF IInv, Serving
  <2>3. lsp'.slot = "none" => startup' = "idle"
    BY <1>2, <1>3, <1>4 DEF IInv, Serving
  <2>4. lsp'.slot = "ready" => startup' = "ok"
    BY <1>2, <1>3, <1>4 DEF IInv, Serving
  <2> QED BY <2>1, <2>2, <2>3, <2>4 DEF Serving
<1>7. Syncing'
  <2> HIDE DEF p, due
  <2>1. CASE due /\ Sent(m)
    <3>1. /\ DOMAIN synced' = DOMAIN synced \cup {p} /\ synced'[p] = buffers[active].rev
          /\ \A x \in DOMAIN synced \ {p} : synced'[x] = synced[x]
      BY <1>3, <2>1 DEF With
    <3>2. synced' \in [DOMAIN synced' -> Nat]
      <4>1. synced \in [DOMAIN synced -> Nat]
        BY DEF IInv, Syncing
      <4> QED BY <1>1, <1>3, <2>1, <4>1 DEF With
    <3>3. DOMAIN synced' \subseteq DOMAIN lsp'.docs
      BY <1>2, <1>4, <2>1, <3>1 DEF IInv, Syncing, Besides
    <3>4. \A x \in DOMAIN lsp'.docs \ DOMAIN synced' : lsp'.slot = "ready" /\ server' # "alive" /\ x \in DOMAIN lsp.docs
      BY <1>2, <1>3, <1>4, <3>1 DEF IInv, Syncing, Besides
    <3>5. DOMAIN lsp'.held \subseteq DOMAIN synced'
      <4>1. ASSUME NEW x \in DOMAIN lsp'.held, x \notin DOMAIN synced' PROVE FALSE
        <5>1. x \in DOMAIN lsp'.docs
          BY <1>4, <4>1 DEF Manages
        <5>2. server # "alive"
          BY <1>3, <3>4, <4>1, <5>1
        <5>3. x \in DOMAIN lsp.held
          BY <1>2, <1>4, <4>1, <5>2
        <5> QED BY <3>1, <4>1, <5>3 DEF IInv, Syncing
      <4> QED BY <4>1
    <3>6. \A x \in DOMAIN synced' : \E i \in DOMAIN buffers : buffers[i].path = x
      BY <1>1, <3>1 DEF IInv, Syncing
    <3>7. ASSUME NEW i \in DOMAIN buffers
          PROVE  /\ (buffers[i].path \in DOMAIN synced' /\ ~OpenedTwice(i)) => synced'[buffers[i].path] <= buffers[i].rev
                 /\ Synced(i)' => lsp'.docs[buffers[i].path].text = TextOf(i)
      <4>1. CASE buffers[i].path = p /\ i # active
        <5>1. OpenedTwice(i) /\ OpenedTwice(i)'
          BY <1>1, <1>3, <3>7, <4>1 DEF OpenedTwice
        <5> QED BY <5>1 DEF Synced
      <4>2. CASE i = active
        BY <1>1, <1>2, <1>4, <2>1, <3>1, <4>2
      <4>3. CASE buffers[i].path # p
        <5>1. buffers[i].path \in DOMAIN synced' => buffers[i].path \in DOMAIN synced /\ synced'[buffers[i].path] = synced[buffers[i].path]
          BY <3>1, <4>3
        <5>2. Synced(i)' => Synced(i)
          BY <1>3, <5>1 DEF Synced, OpenedTwice
        <5>3. Synced(i)' => lsp'.docs[buffers[i].path].text = lsp.docs[buffers[i].path].text
          BY <1>2, <1>3, <1>4, <4>3, <5>1 DEF Synced, IInv, Syncing, Besides
        <5> QED BY <3>7, <5>1, <5>2, <5>3 DEF IInv, Syncing
      <4> QED BY <1>1, <4>1, <4>2, <4>3
    <3> QED BY <1>3, <3>2, <3>3, <3>4, <3>5, <3>6, <3>7 DEF Syncing, OpenedTwice, TextOf
  <2>2. CASE ~(due /\ Sent(m))
    <3>1. synced' = synced
      BY <1>3, <2>2
    <3>2. due => lsp.slot = "ready" /\ m.slot = "ready" /\ server # "alive"
      BY <1>2, <2>2 DEF Sent
    <3>3. DOMAIN synced' \subseteq DOMAIN lsp'.docs
      BY <1>2, <1>4, <3>1 DEF IInv, Syncing, Besides
    <3>4. \A x \in DOMAIN lsp'.docs \ DOMAIN synced' : lsp'.slot = "ready" /\ server' # "alive"
      BY <1>2, <1>3, <1>4, <3>1, <3>2 DEF IInv, Syncing, Besides
    <3>5. DOMAIN lsp'.held \subseteq DOMAIN synced'
      <4>1. ASSUME NEW x \in DOMAIN lsp'.held, x \notin DOMAIN synced' PROVE FALSE
        <5>1. x \in DOMAIN lsp'.docs
          BY <1>4, <4>1 DEF Manages
        <5>2. server # "alive"
          BY <1>3, <3>4, <4>1, <5>1
        <5>3. x \in DOMAIN lsp.held
          BY <1>2, <1>4, <4>1, <5>2
        <5> QED BY <3>1, <4>1, <5>3 DEF IInv, Syncing
      <4> QED BY <4>1
    <3>6. ASSUME NEW i \in DOMAIN buffers
          PROVE  Synced(i)' => lsp'.docs[buffers[i].path].text = TextOf(i)
      <4>1. Synced(i)' => Synced(i)
        BY <1>3, <3>1 DEF Synced, OpenedTwice
      <4>2. CASE due /\ buffers[i].path = p /\ i # active
        <5>1. OpenedTwice(i)
          BY <1>1, <3>6, <4>2 DEF OpenedTwice
        <5> QED BY <4>1, <5>1 DEF Synced
      <4>3. CASE due /\ i = active
        <5>1. ~Synced(i)
          BY <1>1, <4>3 DEF Synced, due
        <5> QED BY <4>1, <5>1
      <4>4. CASE ~due \/ buffers[i].path # p
        <5>1. Synced(i) => buffers[i].path \in DOMAIN lsp.docs
          BY DEF Synced, IInv, Syncing
        <5>2. Synced(i) => lsp'.docs[buffers[i].path].text = lsp.docs[buffers[i].path].text
          BY <1>2, <1>4, <4>4, <5>1 DEF Besides
        <5> QED BY <3>6, <4>1, <5>2 DEF IInv, Syncing
      <4> QED BY <1>1, <4>2, <4>3, <4>4
    <3> QED BY <1>3, <3>1, <3>3, <3>4, <3>5, <3>6 DEF IInv, Syncing, OpenedTwice, TextOf
  <2> QED BY <2>1, <2>2
<1> QED BY <1>5, <1>6, <1>7

(* What is synced is so as long as buffers are opened and edited only.     *)
LEMMA SyncedOn ==
    ASSUME Shown, Syncing, Grows(buffers, buffers'), UNCHANGED <<lsp, synced>>,
           lsp.slot = "ready" /\ server # "alive" => server' # "alive"
    PROVE  Syncing'
<1>1. /\ buffers \in Seq(Files) /\ buffers' \in Seq(Files) /\ Len(buffers) <= Len(buffers')
      /\ \A i \in DOMAIN buffers : /\ i \in DOMAIN buffers' /\ buffers'[i].path = buffers[i].path
                                   /\ buffers[i].rev <= buffers'[i].rev
  <2>1. buffers \in Seq(Files) /\ buffers' \in Seq(Files) /\ Len(buffers) <= Len(buffers')
    BY DEF Grows, Shown
  <2>2. \A i \in DOMAIN buffers : i \in DOMAIN buffers'
    BY <2>1, Elements
  <2> QED BY <2>1, <2>2 DEF Grows
<1>2. \A x \in DOMAIN synced : \E i \in DOMAIN buffers' : buffers'[i].path = x
  BY <1>1 DEF Syncing
<1>3. ASSUME NEW i \in DOMAIN buffers', buffers'[i].path \in DOMAIN synced, ~OpenedTwice(i)'
      PROVE  /\ synced[buffers'[i].path] <= buffers'[i].rev
             /\ synced[buffers'[i].path] = buffers'[i].rev => lsp.docs[buffers'[i].path].text = TextOf(i)'
  <2>1. PICK k \in DOMAIN buffers : buffers[k].path = buffers'[i].path
    BY <1>3 DEF Syncing
  <2>2. k = i
    BY <1>1, <1>3, <2>1 DEF OpenedTwice
  <2>3. ~OpenedTwice(i)
    BY <1>1, <1>3, <2>2 DEF OpenedTwice
  <2>4. buffers[i].rev \in Nat /\ buffers'[i].rev \in Nat /\ synced[buffers[i].path] \in Nat
    <3>1. buffers[i] \in Files /\ buffers'[i] \in Files
      BY <1>1, <2>2, Elements
    <3> QED BY <1>3, <2>1, <2>2, <3>1 DEF Files, Syncing
  <2>5. buffers[i].path = buffers'[i].path /\ buffers[i].rev <= buffers'[i].rev
    BY <1>1, <2>2
  <2>6. synced[buffers[i].path] <= buffers[i].rev
    BY <1>3, <2>2, <2>3, <2>5 DEF Syncing
  <2>7. synced[buffers'[i].path] = buffers'[i].rev => buffers[i].rev = buffers'[i].rev /\ Synced(i)
    BY <1>3, <2>2, <2>3, <2>4, <2>5, <2>6 DEF Synced
  <2> QED BY <2>2, <2>4, <2>5, <2>6, <2>7 DEF Syncing, TextOf
<1> QED BY <1>2, <1>3 DEF Syncing, Synced

(* The steps of the other threads and of the server.                       *)
Elsewhere ==
    /\ \/ StartupStep \/ ServerDies \/ PipeStep
       \/ \E w \in work : WorkerStep(w)
       \/ \E q \in questions : ServerAnswers(q)
       \/ \E p \in Paths : ServerPublishes(p) \/ ServerEdits(p)
    /\ UNCHANGED appVars

(* Every step is a frame's sync, another of the editor, or elsewhere.      *)
LEMMA Steps ==
    ASSUME Next
    PROVE  SyncLsp \/ EditorStep \/ Elsewhere
  BY DEF Next, Frame, EditorStep, Elsewhere

(* The server is started once, and stays down when it has gone.            *)
LEMMA ServingStep ==
    ASSUME ClientAssumption, IInv, Next
    PROVE  Serving'
<1> USE DEF pipeVars, workVars
<1>1. CASE SyncLsp
    BY <1>1, SyncStep
<1>2. CASE EditorStep
  <2>1. UNCHANGED <<lsp, startup, server, full>>
    BY <1>2, EditorAsks
  <2> QED BY <2>1 DEF IInv, Serving, Manages
<1>3. CASE Elsewhere
  <2>1. UNCHANGED lsp
    BY <1>3 DEF Elsewhere, StartupStep, StartupSpawns, StartupAnswered, ServerDies, WorkerStep,
       WorkerSends,
       WorkerTimesOut, ServerAnswers, ServerPublishes, ServerEdits,
       PipeStep, ServerStopsReading, ServerReadsOn
  <2>2. \/ UNCHANGED <<startup, server, full>>
        \/ StartupSpawns \/ StartupAnswered \/ ServerDies \/ PipeStep
    BY <1>3 DEF Elsewhere, StartupStep, WorkerStep, WorkerSends, WorkerTimesOut, ServerAnswers,
       ServerPublishes, ServerEdits
  <2>3. CASE UNCHANGED <<startup, server, full>>
    BY <2>1, <2>3 DEF IInv, Serving, Manages
  <2>4. CASE StartupSpawns
    BY <2>1, <2>4 DEF StartupSpawns, IInv, Serving, Manages
  <2>5. CASE StartupAnswered
    BY <2>1, <2>5 DEF StartupAnswered, IInv, Serving, Manages
  <2>6. CASE ServerDies
    BY <2>1, <2>6 DEF ServerDies, IInv, Serving, Manages
  <2>7. CASE PipeStep
    BY <2>1, <2>7 DEF PipeStep, ServerStopsReading, ServerReadsOn, IInv, Serving, Manages
  <2> QED BY <2>2, <2>3, <2>4, <2>5, <2>6, <2>7
<1> QED BY <1>1, <1>2, <1>3, Steps

(* What counts as synced is what the manager has.                          *)
LEMMA SyncingStep ==
    ASSUME ClientAssumption, IInv, Next
    PROVE  Syncing'
<1> USE DEF pipeVars, workVars
<1>1. CASE SyncLsp
    BY <1>1, SyncStep
<1>2. CASE EditorStep
  <2>1. UNCHANGED <<lsp, server, synced>> /\ Grows(buffers, buffers')
    BY <1>2, EditorAsks, EditorShows DEF IInv
  <2> QED BY <2>1, SyncedOn DEF IInv
<1>3. CASE Elsewhere
  <2>1. UNCHANGED <<lsp, synced, buffers>>
    BY <1>3 DEF Elsewhere, appVars, bufferVars, syncVars, StartupStep, StartupSpawns,
       StartupAnswered, ServerDies,
       WorkerStep, WorkerSends, WorkerTimesOut, ServerAnswers, ServerPublishes, ServerEdits,
       PipeStep, ServerStopsReading, ServerReadsOn
  <2>2. server' = server \/ server' # "alive" \/ StartupSpawns
    BY <1>3 DEF Elsewhere, StartupStep, StartupAnswered, ServerDies, WorkerStep, WorkerSends,
       WorkerTimesOut,
       ServerAnswers, ServerPublishes, ServerEdits, PipeStep, ServerStopsReading, ServerReadsOn
  <2>3. lsp.slot = "ready" /\ server # "alive" => server' # "alive"
    BY <2>2 DEF StartupSpawns, IInv, Serving
  <2>4. Grows(buffers, buffers')
    BY <2>1, GrowsOn DEF IInv, Shown
  <2> QED BY <2>1, <2>3, <2>4, SyncedOn DEF IInv
<1> QED BY <1>1, <1>2, <1>3, Steps

(* What is to be applied says what its kind says.                          *)
LEMMA ShownStep ==
    ASSUME ClientAssumption, IInv, Next
    PROVE  Shown'
<1>1. CASE SyncLsp
  <2>1. UNCHANGED <<buffers, active>> /\ pc' = "apply"
    BY <1>1 DEF SyncLsp, bufferVars
  <2>2. News(outcomes) \in Seq(Items)
    <3>1. outcomes \in Seq(Results)
      BY DEF IInv, Answered
    <3>2. \A i \in DOMAIN outcomes : outcomes[i] \in Results
      BY <3>1, Elements
    <3>3. \A i \in DOMAIN outcomes : [kind |-> outcomes[i].kind, path |-> outcomes[i].path, what |-> outcomes[i].what] \in Items
      BY <3>2 DEF Results, Items, Places
    <3> QED BY <3>1, <3>3, Elements DEF News
  <2>3. CommandEdits(bus.edits) \in Seq(Items)
    <3>1. bus.edits \in Seq(Paths)
      BY DEF IInv, Asking
    <3>2. \A i \in DOMAIN bus.edits : bus.edits[i] \in Paths
      BY <3>1, Elements
    <3>3. \A i \in DOMAIN bus.edits : [kind |-> "edits", path |-> None, what |-> bus.edits[i]] \in Items
      BY <3>2 DEF Items, Places, Whats
    <3> QED BY <3>1, <3>3, Elements DEF CommandEdits
  <2>4. batch' \in Seq(Items)
    <3>1. batch' = News(outcomes) \/ batch' = News(outcomes) \o CommandEdits(bus.edits)
      BY <1>1 DEF SyncLsp
    <3>2. News(outcomes) \o CommandEdits(bus.edits) \in Seq(Items)
      <4>1. \A s, t \in Seq(Items) : s \o t \in Seq(Items)
        OBVIOUS
      <4> QED BY <2>2, <2>3, <4>1
    <3> QED BY <2>2, <3>1, <3>2
  <2> QED BY <2>1, <2>4 DEF IInv, Shown
<1>2. CASE EditorStep
    BY <1>2, EditorShows DEF IInv
<1>3. CASE Elsewhere
    BY <1>3 DEF Elsewhere, appVars, bufferVars, IInv, Shown
<1> QED BY <1>1, <1>2, <1>3, Steps

(* At most one popup.                                                      *)
LEMMA PopupStep ==
    ASSUME ClientAssumption, IInv, Next
    PROVE  AtMostOne'
<1>1. CASE SyncLsp \/ Elsewhere
    BY <1>1 DEF SyncLsp, Elsewhere, appVars, modalVars, IInv, AtMostOne
<1>2. CASE EditorStep
    BY <1>2, EditorPopups DEF IInv
<1> QED BY <1>1, <1>2, Steps

Jobs == [id : Nat, kind : Kinds, path : Paths, at : {"spawned", "waiting"}]

(* A request has a new id, so that its worker is told from all others.     *)
LEMMA AsksNew ==
    ASSUME ClientAssumption, Serving, Working, Asking, NewWork, UNCHANGED <<pending, questions, bus>>
    PROVE  Working' /\ Asking'
<1>1. asked \in Nat /\ MaxAsked \in Nat /\ asked \in 0..MaxAsked
    BY DEF Working, ClientAssumption
<1>2. CASE UNCHANGED <<work, asked>>
    BY <1>2 DEF Working, Asking
<1>3. ASSUME NEW kind \in Kinds, NEW p \in DOMAIN lsp.docs,
             asked < MaxAsked, work' = work \cup {Worker(kind, p)}, asked' = asked + 1
      PROVE  Working' /\ Asking'
  <2>1. Worker(kind, p) \in Jobs /\ Worker(kind, p).id = asked + 1 /\ Worker(kind, p).at = "spawned"
    <3>1. p \in Paths
      BY Parts DEF Serving, Manages, ClientAssumption
    <3> QED BY <1>1, <3>1 DEF Worker, Jobs
  <2> QED BY <1>1, <1>3, <2>1 DEF Working, Asking, Jobs
<1>4. ASSUME NEW p \in DOMAIN lsp.docs, asked + 1 < MaxAsked, asked' = asked + 2,
             work' = work \cup {RequestInlayHints(p), RequestFoldingRanges(p)}
      PROVE  Working' /\ Asking'
  <2> DEFINE v == RequestInlayHints(p)
             w == RequestFoldingRanges(p)
  <2>1. v \in Jobs /\ v.id = asked + 1 /\ v.at = "spawned" /\ w \in Jobs /\ w.id = asked + 2 /\ w.at = "spawned"
    <3>1. p \in Paths
      BY Parts DEF Serving, Manages, ClientAssumption
    <3> QED BY <1>1, <3>1 DEF Worker, Jobs, RequestInlayHints, RequestFoldingRanges, Kinds
  <2> HIDE DEF v, w
  <2> QED BY <1>1, <1>4, <2>1 DEF Working, Asking, Jobs, v, w
<1> QED BY <1>2, <1>3, <1>4 DEF NewWork

(* A worker that ends says what it was answered, or nothing.               *)
LEMMA Ends ==
    ASSUME Working, Answered, NEW w \in work, NEW answer \in Nat, NEW what \in Whats,
           w.kind \in {"goto", "rename"} => what \in Paths \cup {None},
           what # None => answer = w.id,
           End(w, answer, what)
    PROVE  work' = work \ {w} /\ Answered'
<1> DEFINE o == [kind |-> w.kind, path |-> w.path, id |-> w.id, answer |-> answer, what |-> what]
<1>1. w \in Jobs
    BY DEF Working, Jobs
<1>2. o \in Results /\ (o.what # None => o.answer = o.id)
    BY <1>1 DEF Jobs, Results, Places, Kinds, Popups
<1>3. work' = work \ {w} /\ (outcomes' = outcomes \/ outcomes' = Append(outcomes, o))
    BY DEF End
<1> HIDE DEF o
<1>4. outcomes \in Seq(Results)
    BY DEF Answered
<1>5. CASE outcomes' = Append(outcomes, o)
  <2>1. outcomes' \in Seq(Results)
    BY <1>2, <1>4, <1>5
  <2>2. \A i \in DOMAIN outcomes' : outcomes'[i] = o \/ (i \in DOMAIN outcomes /\ outcomes'[i] = outcomes[i])
    BY <1>4, <1>5
  <2> QED BY <1>2, <1>3, <2>1, <2>2 DEF Answered
<1> QED BY <1>3, <1>5 DEF Answered

(* Without a worker the others are as they were.                           *)
LEMMA WorksOn ==
    ASSUME Working, NEW w \in work, work' = work \ {w}, asked' = asked, pending \ {w.id} \subseteq pending'
    PROVE  Working'
<1>1. \A v \in work' : v \in work /\ v.id # w.id
    BY DEF Working
<1> QED BY <1>1 DEF Working

(* What an answer can say is what its kind can say.                        *)
LEMMA AnswersPlace ==
    ASSUME NEW q, NEW what \in Answers(q)
    PROVE  what \in Whats /\ (q.kind \in {"goto", "rename"} => what \in Paths \cup {None})
<1>1. CASE q.kind \in {"goto", "rename"}
    BY <1>1 DEF Answers, Whats
<1>2. CASE q.kind \in {"command", "inlay", "folds"}
    BY <1>2 DEF Answers, Whats
<1>3. CASE q.kind \notin {"goto", "rename", "command", "inlay", "folds"}
    BY <1>3 DEF Answers, Whats
<1> QED BY <1>1, <1>2, <1>3

(* Requests are sent, answered and given up, each by its own id.           *)
LEMMA WorkStep ==
    ASSUME ClientAssumption, IInv, Next
    PROVE  Working' /\ Asking' /\ Answered'
<1> USE DEF pipeVars, workVars
<1>1. CASE SyncLsp
  <2>1. UNCHANGED <<work, asked, pending, questions>> /\ outcomes' = <<>> /\ (bus' = bus \/ bus' = Silence)
    BY <1>1 DEF SyncLsp
  <2>2. Silence \in [about : SUBSET Paths, edits : Seq(Paths)]
    BY DEF Silence
  <2> QED BY <2>1, <2>2 DEF IInv, Working, Asking, Answered
<1>2. CASE EditorStep
  <2>1. NewWork /\ UNCHANGED <<pending, questions, bus, outcomes>>
    BY <1>2, EditorAsks
  <2> QED BY <2>1, AsksNew DEF IInv, Answered
<1>3. CASE StartupStep
    BY <1>3 DEF StartupStep, StartupSpawns, StartupAnswered, IInv, Working, Asking, Answered
<1>4. CASE ServerDies
    BY <1>4 DEF ServerDies, IInv, Working, Asking, Answered
<1>5. ASSUME NEW w \in work, WorkerSends(w) PROVE Working' /\ Asking' /\ Answered'
  <2>1. w \in Jobs /\ pending' = pending \cup {w.id} /\ asked' = asked /\ bus' = bus
    BY <1>5 DEF WorkerSends, IInv, Working, Jobs
  <2>2. CASE server = "alive"
    <3> DEFINE v == [w EXCEPT !.at = "waiting"]
    <3>1. v \in Jobs /\ v.id = w.id /\ v.kind = w.kind
      BY <2>1 DEF Jobs
    <3>2. /\ work' = (work \ {w}) \cup {v} /\ outcomes' = outcomes
          /\ questions' = questions \cup {[id |-> w.id, kind |-> w.kind, edited |-> FALSE]}
      BY <1>5, <2>2 DEF WorkerSends, Wait
    <3> HIDE DEF v
    <3>3. Working'
      BY <2>1, <3>1, <3>2 DEF IInv, Working, Jobs
    <3>4. Asking'
      <4>1. [id |-> w.id, kind |-> w.kind, edited |-> FALSE] \in [id : Nat, kind : Kinds, edited : BOOLEAN]
        BY <2>1 DEF Jobs
      <4>2. w.id <= asked /\ \A x \in work : x.id = w.id => x = w
        BY DEF IInv, Working
      <4>3. ASSUME NEW q \in questions', NEW x \in work', q.id = x.id PROVE q.kind = x.kind
        <5>1. CASE q \in questions /\ x \in work
          BY <4>3, <5>1 DEF IInv, Asking
        <5>2. CASE q \in questions /\ x = v
          BY <3>1, <4>3, <5>2 DEF IInv, Asking
        <5>3. CASE q = [id |-> w.id, kind |-> w.kind, edited |-> FALSE]
          BY <3>1, <3>2, <4>2, <4>3, <5>3
        <5> QED BY <3>2, <5>1, <5>2, <5>3
      <4>4. \A q \in questions' : q.id <= asked'
        BY <2>1, <3>2, <4>2 DEF IInv, Asking
      <4> QED BY <2>1, <3>2, <4>1, <4>3, <4>4 DEF IInv, Asking
    <3> QED BY <3>2, <3>3, <3>4 DEF IInv, Answered
  <2>3. CASE server # "alive"
    <3>1. End(w, 0, None) /\ questions' = questions
      BY <1>5, <2>3 DEF WorkerSends
    <3>2. work' = work \ {w} /\ Answered'
      BY <3>1, Ends DEF IInv, Whats
    <3>3. Working'
      BY <2>1, <3>2, WorksOn DEF IInv
    <3> QED BY <2>1, <3>1, <3>2, <3>3 DEF IInv, Asking
  <2> QED BY <2>2, <2>3
<1>6. ASSUME NEW w \in work, WorkerTimesOut(w) PROVE Working' /\ Asking' /\ Answered'
  <2>1. pending' = pending \ {w.id} /\ UNCHANGED <<asked, bus, questions>> /\ End(w, 0, None)
    BY <1>6 DEF WorkerTimesOut
  <2>2. work' = work \ {w} /\ Answered'
    BY <2>1, Ends DEF IInv, Whats
  <2>3. Working'
    BY <2>1, <2>2, WorksOn DEF IInv
  <2> QED BY <2>1, <2>2, <2>3 DEF IInv, Asking
<1>7. ASSUME NEW q \in questions, ServerAnswers(q) PROVE Working' /\ Asking' /\ Answered'
  <2>1. /\ pending' = pending \ {q.id} /\ UNCHANGED <<asked, bus>> /\ questions' = questions \ {q}
        /\ questions' \subseteq questions
    BY <1>7 DEF ServerAnswers
  <2>2. ASSUME NEW w \in work, w.id = q.id, NEW what \in Answers(q), End(w, q.id, what)
        PROVE  Working' /\ Asking' /\ Answered'
    <3>1. q.kind = w.kind /\ q.id \in Nat
      BY <2>2 DEF IInv, Asking
    <3>2. what \in Whats /\ (w.kind \in {"goto", "rename"} => what \in Paths \cup {None})
      BY <3>1, AnswersPlace
    <3>3. work' = work \ {w} /\ Answered'
      BY <2>2, <3>1, <3>2, Ends DEF IInv
    <3>4. Working'
      BY <2>1, <2>2, <3>3, WorksOn DEF IInv
    <3> QED BY <2>1, <3>3, <3>4 DEF IInv, Asking
  <2>3. CASE q.id \notin pending
    <3>1. UNCHANGED <<work, outcomes>> /\ pending' = pending
      BY <1>7, <2>1, <2>3 DEF ServerAnswers
    <3> QED BY <2>1, <3>1 DEF IInv, Working, Asking, Answered
  <2> QED BY <1>7, <2>2, <2>3 DEF ServerAnswers
<1>8. ASSUME NEW p \in Paths, ServerPublishes(p) PROVE Working' /\ Asking' /\ Answered'
    BY <1>8 DEF ServerPublishes, IInv, Working, Asking, Answered
<1>9. ASSUME NEW p \in Paths, ServerEdits(p) PROVE Working' /\ Asking' /\ Answered'
  <2>1. UNCHANGED <<work, asked, pending, outcomes>> /\ bus' = [bus EXCEPT !.edits = Append(@, p)]
    BY <1>9 DEF ServerEdits
  <2>2. bus' \in [about : SUBSET Paths, edits : Seq(Paths)]
    <3>1. bus \in [about : SUBSET Paths, edits : Seq(Paths)]
      BY DEF IInv, Asking
    <3>2. Append(bus.edits, p) \in Seq(Paths)
      BY <3>1
    <3> QED BY <2>1, <3>1, <3>2
  <2>3. PICK q \in questions : questions' = (questions \ {q}) \cup {[q EXCEPT !.edited = TRUE]}
    BY <1>9 DEF ServerEdits
  <2>4. Asking'
    <3>1. /\ q \in [id : Nat, kind : Kinds, edited : BOOLEAN]
          /\ [q EXCEPT !.edited = TRUE] \in [id : Nat, kind : Kinds, edited : BOOLEAN]
          /\ [q EXCEPT !.edited = TRUE].id = q.id /\ [q EXCEPT !.edited = TRUE].kind = q.kind
      BY DEF IInv, Asking
    <3> QED BY <2>1, <2>2, <2>3, <3>1 DEF IInv, Asking
  <2> QED BY <2>1, <2>4 DEF IInv, Working, Answered
<1>10. CASE PipeStep
    BY <1>10 DEF PipeStep, ServerStopsReading, ServerReadsOn, IInv, Working, Asking, Answered
<1>11. Elsewhere => Working' /\ Asking' /\ Answered'
    BY <1>10, <1>3, <1>4, <1>5, <1>6, <1>7, <1>8, <1>9 DEF Elsewhere, WorkerStep
<1> QED BY <1>1, <1>2, <1>11, Steps

-----------------------------------------------------------------------------
(* The theorems.                                                           *)

(* The invariant holds when the editor has started.                        *)
LEMMA InitIInv ==
    ASSUME ClientAssumption, Init
    PROVE  IInv
<1> USE DEF Init, ClientInit
<1>1. DOMAIN lsp.docs = {} /\ DOMAIN lsp.held = {} /\ DOMAIN synced = {}
    OBVIOUS
<1>2. Serving
  <2>1. <<>> \in Partial(Entries) /\ <<>> \in Partial(Contents)
    <3>1. DOMAIN <<>> = {} /\ <<>> \in [{} -> Entries] /\ <<>> \in [{} -> Contents]
      OBVIOUS
    <3> QED BY <3>1 DEF Partial
  <2>2. lsp \in Managers
    BY <2>1 DEF Managers
  <2> QED BY <1>1, <2>2 DEF Serving, Manages
<1>3. PICK p \in Paths : buffers = <<[path |-> p, rev |-> 0]>>
    OBVIOUS
<1>4. Shown
    BY <1>3 DEF Shown, Files
<1>5. Syncing
    BY <1>1 DEF Syncing, Synced
<1>6. Working
    BY DEF Working, ClientAssumption
<1>7. Asking
    BY DEF Asking, Silence
<1>8. Answered
    BY DEF Answered
<1>9. AtMostOne
    BY DEF AtMostOne
<1> QED BY <1>2, <1>4, <1>5, <1>6, <1>7, <1>8, <1>9 DEF IInv

(* A step in which nothing changes keeps the invariant.                    *)
LEMMA StutterIInv ==
    ASSUME IInv, UNCHANGED vars
    PROVE  IInv'
<1> USE DEF vars, clientVars, appVars, bufferVars, modalVars, syncVars, hintVars, IInv
<1>1. Serving' /\ Working' /\ Asking' /\ Answered' /\ AtMostOne'
    BY DEF Serving, Manages, Working, Asking, Answered, AtMostOne
<1>2. Shown' /\ Syncing'
    BY DEF Shown, Syncing, Synced, OpenedTwice, TextOf
<1> QED BY <1>1, <1>2

(* The invariant always holds.                                             *)
LEMMA Invariance == Spec => []IInv
<1>1. Init => IInv
    BY InitIInv, ClientAssumption
<1>2. IInv /\ [Next]_vars => IInv'
  <2>1. IInv /\ Next => IInv'
    BY ServingStep, SyncingStep, ShownStep, PopupStep, WorkStep, ClientAssumption DEF IInv
  <2> QED BY <2>1, StutterIInv
<1> QED BY <1>1, <1>2, PTL DEF Spec

(* Every variable of the language client and of the front-end keeps its    *)
(* type.                                                                   *)
THEOREM LanguageTypes == Spec => []LanguageTypeOK
<1>1. IInv => LanguageTypeOK
  <2> SUFFICES ASSUME IInv PROVE LanguageTypeOK
    OBVIOUS
  <2>1. lsp \in Managers
    BY DEF IInv, Serving, Manages
  <2>2. /\ lsp.slot \in {"none", "starting", "ready", "failed"} /\ DOMAIN lsp.docs \subseteq Handled
    BY <2>1, Parts DEF Managers
  <2>3. DOMAIN lsp.held \subseteq DOMAIN lsp.docs /\ DOMAIN synced \subseteq Handled
    BY <2>2 DEF IInv, Serving, Manages, Syncing
  <2> QED BY <2>2, <2>3 DEF IInv, Serving, Shown, Working, AtMostOne, LanguageTypeOK
<1> QED BY <1>1, Invariance, PTL

(* A live server holds what the manager converts positions against, and of *)
(* each synced buffer the text of its revision (LspManager, App::sync_lsp).*)
THEOREM ServerStaysUpToDate == Spec => []ServerIsUpToDate
<1>1. IInv => ServerIsUpToDate
  <2>1. IInv => \A i \in DOMAIN buffers : Synced(i) => lsp.docs[buffers[i].path].text = TextOf(i)
    BY DEF IInv, Syncing
  <2>2. \A d : Content(d).text = d.text
    BY DEF Content
  <2> QED BY <2>1, <2>2 DEF IInv, Serving, Manages, ServerIsUpToDate
<1> QED BY <1>1, Invariance, PTL

(* The popups at the cursor exclude one another, however late answers come *)
(* (App::apply_lsp_outcomes).                                              *)
THEOREM PopupsExcludeOneAnother == Spec => []OnePopup
<1>1. IInv => OnePopup
  <2> SUFFICES ASSUME IInv PROVE Cardinality(popups) <= 1
    BY DEF OnePopup
  <2>1. popups = {} \/ \E x : popups = {x}
    BY DEF IInv, AtMostOne
  <2>2. Cardinality(popups) = 0 \/ Cardinality(popups) = 1
    BY <2>1, FS_EmptySet, FS_Singleton
  <2> QED BY <2>2
<1> QED BY <1>1, Invariance, PTL

(* Whoever waits is listed, and is handed the answer to its own question   *)
(* (Connection::request and route).                                        *)
THEOREM AnswersReachTheirRequest == Spec => []EachItsOwnAnswer
<1>1. IInv => EachItsOwnAnswer
    BY DEF IInv, Working, Answered, ToSet, EachItsOwnAnswer
<1> QED BY <1>1, Invariance, PTL

(* The versions of a document that a server is sent increase               *)
(* (LanguageServer::did_change, LspManager::change).                       *)
THEOREM VersionsGoUp == Spec => VersionsIncrease
<1> DEFINE Increase ==
      \A p \in DOMAIN lsp.held :
          /\ p \in DOMAIN lsp'.held
          /\ (lsp'.held[p] # lsp.held[p] /\ lsp.held[p].version < MaxVersion) =>
                lsp'.held[p].version > lsp.held[p].version
<1>1. IInv /\ Next => Increase
  <2>1. ASSUME IInv, SyncLsp PROVE Increase
    BY <2>1, SyncStep, ClientAssumption DEF Follows
  <2>2. ASSUME IInv, EditorStep \/ Elsewhere PROVE lsp' = lsp
    <3>1. EditorStep => lsp' = lsp
      BY EditorAsks DEF pipeVars
    <3>2. Elsewhere => lsp' = lsp
      BY DEF Elsewhere, StartupStep, StartupSpawns, StartupAnswered, ServerDies, WorkerStep,
         WorkerSends,
         WorkerTimesOut, ServerAnswers, ServerPublishes, ServerEdits,
       PipeStep, ServerStopsReading, ServerReadsOn, pipeVars
    <3> QED BY <2>2, <3>1, <3>2
  <2> QED BY <2>1, <2>2, Steps
<1>2. IInv /\ [Next]_vars => [Increase]_vars
    BY <1>1
<1> QED BY <1>2, Invariance, PTL DEF Spec, VersionsIncrease
=============================================================================
