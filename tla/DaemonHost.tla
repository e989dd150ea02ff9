----------------------------- MODULE DaemonHost -----------------------------
(***************************************************************************)
(* The session daemon and its clients (mj/daemon_host.rs with the Daemon   *)
(* and the protocol of majestic-daemon, the SessionHost of mj/tui.rs and   *)
(* the session file).                                                      *)
(*                                                                         *)
(* Threads: the accept loop, one reader per attached client, the broker,   *)
(* the reader of the integrated terminal; on the client's side an input    *)
(* loop and a painter.  A connection is named by the process that made it. *)
(* The broker's channel is a merge of the sockets in any order, since each *)
(* reader thread forwards what its client sent when it is scheduled: the   *)
(* broker takes the next input of any client whose Attach it has handled.  *)
(*                                                                         *)
(* Simplifications: a session is the number of keys that changed it; what  *)
(* is drawn is the session, the terminal's screen and the size; a process  *)
(* attaches once (a user who comes back is another one); rows and columns  *)
(* are at least 1; one daemon at a time owns the socket; what happens in  *)
(* the background flips one bit of what is shown; a drop of the host joins *)
(* the reader of its terminal at once (TerminalPane shows that it returns).*)
(***************************************************************************)
EXTENDS Integers, FiniteSets, SequencesExt

CONSTANTS
    Clients,        \* processes that run `mj attach`
    Controls,       \* processes that send one request
    Terminal,       \* of each client the size its terminal has first
    Sizes,          \* the sizes of terminals, pairs <<columns, rows>>
    MaxSpent,       \* bound: keys, resizes, lost clients and kills, together
    Capacity        \* frames that fit into a socket nobody reads

ASSUME DaemonAssumption ==
    /\ IsFiniteSet(Clients)
    /\ Clients \cap Controls = {}
    /\ Sizes \subseteq (Nat \ {0}) \X (Nat \ {0})
    /\ Terminal \in [Clients -> Sizes]
    /\ MaxSpent \in Nat
    /\ Capacity \in Nat \ {0}

VARIABLES
    at,         \* client: "home", "connecting", "attached" or "done"
    told,       \* client: the painter has set the stop flag
    term,       \* client: the size of its terminal
    shown,      \* client: what its terminal shows
    up, down,   \* client: what is in its socket, to and from the daemon
    ctl,        \* control process: "home", its request, "answered" or "failed"
    backlog,    \* connections: the first is being served by the accept loop
    answer,     \* the broker's reply on its way to the accept loop
    rt,         \* client: "none", "offered" (its Attach is in the channel),
                \* "reading" or "ended" (its reader thread)
    bpc,        \* the broker: "wait", "mirror", "ending", "leaving" or "down"
    clients,    \* the mirror set: of each client its size and front buffer
    todo, gone, \* the rest of a broadcast, and whose write failed in it
    frame,      \* the frame of this broadcast
    live,       \* the session host, or NoHost
    screen,     \* what shows of the background: the shell, the agent, the language server
    saved,      \* Daemon.session
    disk,       \* the session file
    cut,        \* that file ends in the middle: it is read as no session
    failed,     \* the last save of this daemon returned an error, which nobody hears of
    spent       \* keys, resizes, lost clients and kills so far (bounds the run)

clientVars == <<at, told, term, shown>>
acceptVars == <<ctl, backlog, answer>>
castVars == <<todo, gone, frame>>
brokerVars == <<bpc, clients, castVars, live, screen>>
storeVars == <<saved, disk, cut, failed>>
serverVars == <<brokerVars, storeVars>>
vars == <<clientVars, up, down, rt, acceptVars, brokerVars, storeVars, spent>>

NoHost == [layout |-> -1]
Blank == <<>>
Ended == [type |-> "ended"]
Requests == {"save", "shutdown"}
EmptySession == 0
LastSession == 1     \* left in the file by an earlier daemon

Key(k) == [type |-> "key", key |-> k]
Resize(s) == [type |-> "resize", size |-> s]
Detach == [type |-> "detach"]

Up == bpc # "down"
Spend == spent < MaxSpent /\ spent' = spent + 1
Smaller(a, b) == IF a <= b THEN a ELSE b

\* The daemon still has a descriptor of the client's socket.
Held(c) ==
    Up /\ (c \in DOMAIN clients \/ rt[c] \in {"offered", "reading"} \/ c \in ToSet(backlog))

\* The client has closed its end.
HungUp(c) == at[c] = "done"

Init ==
    /\ at = [c \in Clients |-> "home"] /\ told = [c \in Clients |-> FALSE]
    /\ term = Terminal /\ shown = [c \in Clients |-> Blank]
    /\ up = [c \in Clients |-> <<>>] /\ down = [c \in Clients |-> <<>>]
    /\ ctl = [k \in Controls |-> "home"]
    /\ backlog = <<>> /\ answer = FALSE
    /\ rt = [c \in Clients |-> "none"]
    /\ bpc = "wait" /\ clients = <<>> /\ todo = {} /\ gone = {} /\ frame = Blank
    /\ live = NoHost /\ screen = 0 /\ saved = LastSession /\ disk = LastSession
    /\ cut = FALSE /\ failed = FALSE
    /\ spent = 0

-----------------------------------------------------------------------------
(* The client: `mj attach`, and `mj daemon status | stop`.                 *)

Connect(c) ==
    /\ at[c] = "home"
    /\ IF Up THEN /\ at' = [at EXCEPT ![c] = "connecting"]
                  /\ backlog' = Append(backlog, c)
             ELSE /\ at' = [at EXCEPT ![c] = "done"] /\ UNCHANGED backlog
    /\ UNCHANGED <<told, term, shown, up, down, rt, ctl, answer, spent, serverVars>>

\* What is sent to a daemon that is gone is lost.
Send(c, m) == up' = IF Held(c) THEN [up EXCEPT ![c] = Append(@, m)] ELSE up

AskToAttach(c) ==
    /\ at[c] = "connecting"
    /\ at' = [at EXCEPT ![c] = "attached"]
    /\ Send(c, Resize(term[c]))
    /\ UNCHANGED <<told, term, shown, down, rt, acceptVars, spent, serverVars>>

Forwarding(c) == at[c] = "attached" /\ ~told[c]

ForwardKey(c, k) ==
    /\ Forwarding(c) /\ Spend
    /\ Send(c, Key(k))
    /\ UNCHANGED <<clientVars, down, rt, acceptVars, serverVars>>

ForwardResize(c, s) ==
    /\ Forwarding(c) /\ Spend /\ s # term[c]
    /\ term' = [term EXCEPT ![c] = s]
    /\ Send(c, Resize(s))
    /\ UNCHANGED <<at, told, shown, down, rt, acceptVars, serverVars>>

\* Leaving closes both directions: what was not painted is lost.
Leave(c) ==
    /\ at' = [at EXCEPT ![c] = "done"] /\ told' = [told EXCEPT ![c] = FALSE]
    /\ term' = [term EXCEPT ![c] = Terminal[c]]
    /\ shown' = [shown EXCEPT ![c] = Blank] /\ down' = [down EXCEPT ![c] = <<>>]
    /\ UNCHANGED <<rt, acceptVars, serverVars>>

ForwardDetach(c) ==
    /\ Forwarding(c)
    /\ Send(c, Detach) /\ Leave(c) /\ UNCHANGED spent

StopForwarding(c) == at[c] = "attached" /\ told[c] /\ Leave(c) /\ UNCHANGED <<up, spent>>

\* The client is killed or its terminal goes away.
LoseClient(c) == at[c] \in {"connecting", "attached"} /\ Spend /\ Leave(c) /\ UNCHANGED up

\* The painter shows a frame, or sets the flag when the session has ended or
\* the daemon's end is closed.
Paint(c) ==
    /\ Forwarding(c)
    /\ \/ /\ down[c] # <<>>
          /\ down' = [down EXCEPT ![c] = Tail(@)]
          /\ IF Head(down[c]) = Ended
             THEN told' = [told EXCEPT ![c] = TRUE] /\ UNCHANGED shown
             ELSE shown' = [shown EXCEPT ![c] = Head(down[c]).to] /\ UNCHANGED told
       \/ /\ down[c] = <<>> /\ ~Held(c)
          /\ told' = [told EXCEPT ![c] = TRUE]
          /\ UNCHANGED <<shown, down>>
    /\ UNCHANGED <<at, term, up, rt, acceptVars, spent, serverVars>>

SendRequest(k, r) ==
    /\ ctl[k] = "home" /\ Spend
    /\ IF Up THEN ctl' = [ctl EXCEPT ![k] = r] /\ backlog' = Append(backlog, k)
             ELSE ctl' = [ctl EXCEPT ![k] = "failed"] /\ UNCHANGED backlog
    /\ UNCHANGED <<clientVars, up, down, rt, answer, serverVars>>

\* The connection of a request is closed without an answer.
RequestFails(k) ==
    /\ ctl[k] \in Requests
    /\ k \notin ToSet(backlog)
    /\ ctl' = [ctl EXCEPT ![k] = "failed"]
    /\ UNCHANGED <<clientVars, up, down, rt, backlog, answer, spent, serverVars>>

-----------------------------------------------------------------------------
(* The accept loop.                                                        *)

Serves(x) == Up /\ backlog # <<>> /\ Head(backlog) = x

AcceptAttach(c) ==
    /\ Serves(c) /\ up[c] # <<>>
    /\ rt' = [rt EXCEPT ![c] = "offered"]
    /\ backlog' = Tail(backlog)
    /\ UNCHANGED <<clientVars, up, down, ctl, answer, spent, serverVars>>

\* Mutant of AcceptHungUp: the end of file is read for ever.
AcceptHungUpRetries(c) == Serves(c) /\ up[c] = <<>> /\ HungUp(c) /\ UNCHANGED vars

AcceptHungUp(c) ==
    /\ Serves(c) /\ up[c] = <<>> /\ HungUp(c)
    /\ backlog' = Tail(backlog)
    /\ UNCHANGED <<clientVars, up, down, rt, ctl, answer, spent, serverVars>>

\* The loop waits for the broker's answer before it takes the next connection.
AnswerControl(k) ==
    /\ Serves(k) /\ answer
    /\ ctl' = [ctl EXCEPT ![k] = "answered"]
    /\ backlog' = Tail(backlog) /\ answer' = FALSE
    /\ UNCHANGED <<clientVars, up, down, rt, spent, serverVars>>

-----------------------------------------------------------------------------
(* The broker.                                                             *)

\* The smallest attached terminal; a session nobody watches keeps its size.
Renegotiate(host, cs) ==
    IF host = NoHost \/ cs = <<>> THEN host
    ELSE LET least(i) == Min({cs[c].size[i] : c \in DOMAIN cs})
         IN  [host EXCEPT !.cols = least(1), !.rows = least(2)]

\* Mutant of NewHost: the stored session is not taken up.
NewHostEmpty(layout, size) == [layout |-> EmptySession, cols |-> size[1], rows |-> size[2]]

NewHost(layout, size) ==
    [layout |-> layout, cols |-> size[1], rows |-> size[2]]

Having(cs, c, entry) == [x \in DOMAIN cs \cup {c} |-> IF x = c THEN entry ELSE cs[x]]
Without(cs, S) == [c \in DOMAIN cs \ S |-> cs[c]]

\* The next input of a client is taken out of the channel.
Input(c, type) ==
    /\ bpc = "wait" /\ rt[c] = "reading" /\ up[c] # <<>> /\ Head(up[c]).type = type
    /\ up' = [up EXCEPT ![c] = Tail(@)]

View(host) == <<host.layout, screen, host.cols, host.rows>>

\* After an event the frame is mirrored if anybody watches.
Mirror(host, cs) ==
    /\ live' = host
    /\ IF cs = <<>> \/ host = NoHost
       THEN bpc' = "wait" /\ UNCHANGED castVars
       ELSE bpc' = "mirror" /\ frame' = View(host) /\ todo' = DOMAIN cs /\ UNCHANGED gone
    /\ UNCHANGED screen

\* The session is stored, then written in place.  The write succeeds, is refused before it
\* touches the file (the directory, the open), or stops in the middle (a full disk).  The
\* broker drops the error; a save request is answered all the same, with the error.
Save(session) ==
    /\ saved' = session
    /\ \/ disk' = session /\ cut' = FALSE /\ failed' = FALSE
       \/ UNCHANGED <<disk, cut>> /\ failed' = TRUE
       \/ disk' = EmptySession /\ cut' = TRUE /\ failed' = TRUE

\* Mutant of HandleAttach: a new client is thought to show the frame already.
HandleAttachAsDrawn(c) ==
    /\ bpc = "wait" /\ rt[c] = "offered"
    /\ rt' = [rt EXCEPT ![c] = "reading"]
    /\ up' = [up EXCEPT ![c] = Tail(@)]
    /\ LET size == Head(up[c]).size
           host == IF live = NoHost THEN NewHost(saved, size) ELSE live
       IN  /\ clients' = Having(clients, c, [size |-> size, front |-> View(host)])
           /\ Mirror(Renegotiate(host, clients'), clients')
    /\ UNCHANGED <<clientVars, down, acceptVars, storeVars, spent>>

HandleAttach(c) ==
    /\ bpc = "wait" /\ rt[c] = "offered"
    /\ rt' = [rt EXCEPT ![c] = "reading"]
    /\ up' = [up EXCEPT ![c] = Tail(@)]
    /\ LET size == Head(up[c]).size
           host == IF live = NoHost THEN NewHost(saved, size) ELSE live
       IN  /\ clients' = Having(clients, c, [size |-> size, front |-> Blank])
           /\ Mirror(Renegotiate(host, clients'), clients')
    /\ UNCHANGED <<clientVars, down, acceptVars, storeVars, spent>>

\* A key edits, or goes to the shell when the integrated terminal has the focus; a write
\* that the shell does not take ends the broker.
HandleKey(c) ==
    /\ Input(c, "key")
    /\ \/ live = NoHost /\ Mirror(live, clients)
       \/ /\ live # NoHost /\ Head(up[c]).key = "char"
          /\ \/ Mirror([live EXCEPT !.layout = @ + 1], clients)
             \/ Mirror(live, clients)
             \/ bpc' = "leaving" /\ UNCHANGED <<live, screen, castVars>>
    /\ UNCHANGED <<clientVars, down, rt, acceptVars, clients, storeVars, spent>>

\* The editor quits: save, drop the host (which joins the shell's reader), then
\* tell every client.
HandleQuit(c) ==
    /\ Input(c, "key") /\ Head(up[c]).key = "quit"
    /\ live # NoHost
    /\ Save(live.layout) /\ live' = NoHost /\ screen' = 0
    /\ bpc' = "ending" /\ todo' = DOMAIN clients
    /\ UNCHANGED <<clientVars, down, rt, acceptVars, clients, gone, frame, spent>>

\* Mutant of HandleResize: the size is noted and not negotiated.
HandleResizeAlone(c) ==
    /\ Input(c, "resize")
    /\ clients' = IF c \in DOMAIN clients
                  THEN [clients EXCEPT ![c].size = Head(up[c]).size] ELSE clients
    /\ Mirror(live, clients')
    /\ UNCHANGED <<clientVars, down, rt, acceptVars, storeVars, spent>>

HandleResize(c) ==
    /\ Input(c, "resize")
    /\ clients' = IF c \in DOMAIN clients
                  THEN [clients EXCEPT ![c].size = Head(up[c]).size] ELSE clients
    /\ Mirror(Renegotiate(live, clients'), clients')
    /\ UNCHANGED <<clientVars, down, rt, acceptVars, storeVars, spent>>

\* Mutant of ForgetClient: nothing is saved.
ForgetClientUnsaved(c) ==
    /\ clients' = Without(clients, {c})
    /\ Mirror(Renegotiate(live, clients'), clients')
    /\ UNCHANGED storeVars

\* The session is saved when the last client leaves.
ForgetClient(c) ==
    /\ clients' = Without(clients, {c})
    /\ Mirror(Renegotiate(live, clients'), clients')
    /\ IF live # NoHost /\ clients' = <<>> THEN Save(live.layout) ELSE UNCHANGED storeVars

\* A detach, or the reader's end of file once all input is handled.
HandleLeave(c) ==
    /\ \/ Input(c, "detach")
       \/ /\ bpc = "wait" /\ rt[c] = "reading" /\ up[c] = <<>> /\ HungUp(c)
          /\ UNCHANGED up
    /\ rt' = [rt EXCEPT ![c] = "ended"]
    /\ ForgetClient(c)
    /\ UNCHANGED <<clientVars, down, acceptVars, spent>>

\* A shutdown is answered, then the live session is saved; a save writes what was stored
\* last (a status is answered likewise and writes nothing).
HandleControl(k) ==
    /\ bpc = "wait" /\ Serves(k) /\ ~answer
    /\ answer' = TRUE
    /\ \/ /\ ctl[k] = "save"
          /\ Save(saved) /\ Mirror(live, clients)
       \/ /\ ctl[k] = "shutdown"
          /\ IF live = NoHost THEN UNCHANGED storeVars ELSE Save(live.layout)
          /\ bpc' = "leaving" /\ UNCHANGED <<live, screen, castVars>>
    /\ UNCHANGED <<clientVars, up, down, rt, ctl, backlog, clients, spent>>

Background ==
    /\ live # NoHost /\ Spend
    /\ screen' = 1 - screen
    /\ UNCHANGED <<clientVars, up, down, rt, acceptVars, storeVars, bpc, clients, castVars, live>>

\* Nothing came for a while: what happened in the background is mirrored (if nothing did,
\* every front buffer is the frame already and nothing is sent).
Tick ==
    /\ bpc = "wait" /\ live # NoHost
    /\ \E c \in DOMAIN clients : clients[c].front # View(live)
    /\ Mirror(live, clients)
    /\ UNCHANGED <<clientVars, up, down, rt, acceptVars, storeVars, spent, clients>>

\* The diff against the front buffer; it is complete when the sizes differ.
Update(front, next) ==
    [from |-> IF front = Blank \/ SubSeq(front, 3, 4) # SubSeq(next, 3, 4) THEN Blank ELSE front,
     to |-> next]

\* Mutant of MirrorTo: a write to a socket that is full returns.
MirrorToUnbounded(c) ==
    /\ bpc = "mirror" /\ c \in todo
    /\ todo' = todo \ {c}
    /\ LET same == clients[c].front = frame
           lost == IF ~same /\ HungUp(c) THEN gone \cup {c} ELSE gone
           sent == IF same \/ HungUp(c) THEN clients ELSE [clients EXCEPT ![c].front = frame]
       IN  /\ \/ sent = clients /\ UNCHANGED down
              \/ /\ sent # clients
                 /\ down' = [down EXCEPT ![c] = Append(@, Update(clients[c].front, frame))]
           /\ IF todo' = {}
              THEN clients' = Without(sent, lost) /\ bpc' = "wait" /\ gone' = {} /\ frame' = Blank
              ELSE clients' = sent /\ gone' = lost /\ UNCHANGED <<bpc, frame>>
    /\ UNCHANGED <<clientVars, up, rt, acceptVars, storeVars, spent, screen, live>>

\* Those whose write failed are dropped at the end, without more.
\* A client is sent what changed; a write to a socket that is full blocks.
MirrorTo(c) ==
    /\ bpc = "mirror" /\ c \in todo
    /\ todo' = todo \ {c}
    /\ LET same == clients[c].front = frame
           lost == IF ~same /\ HungUp(c) THEN gone \cup {c} ELSE gone
           sent == IF same \/ HungUp(c) THEN clients ELSE [clients EXCEPT ![c].front = frame]
       IN  /\ \/ sent = clients /\ UNCHANGED down
              \/ /\ sent # clients /\ Len(down[c]) < Capacity
                 /\ down' = [down EXCEPT ![c] = Append(@, Update(clients[c].front, frame))]
           /\ IF todo' = {}
              THEN clients' = Without(sent, lost) /\ bpc' = "wait" /\ gone' = {} /\ frame' = Blank
              ELSE clients' = sent /\ gone' = lost /\ UNCHANGED <<bpc, frame>>
    /\ UNCHANGED <<clientVars, up, rt, acceptVars, storeVars, spent, screen, live>>

EndTo(c) ==
    /\ bpc = "ending" /\ c \in todo
    /\ \/ HungUp(c) /\ UNCHANGED down
       \/ /\ ~HungUp(c) /\ Len(down[c]) < Capacity
          /\ down' = [down EXCEPT ![c] = Append(@, Ended)]
    /\ todo' = todo \ {c}
    /\ UNCHANGED <<clientVars, up, rt, acceptVars, storeVars, spent, screen,
                   bpc, clients, gone, frame, live>>

EndDone ==
    /\ bpc = "ending" /\ todo = {}
    /\ clients' = <<>> /\ bpc' = "wait"
    /\ UNCHANGED <<clientVars, up, down, rt, acceptVars, storeVars, spent, castVars, live, screen>>

-----------------------------------------------------------------------------
(* The end of the process, and the next one.                               *)

\* Everything that lives in the process goes with it.
Die ==
    /\ bpc' = "down"
    /\ clients' = <<>> /\ todo' = {} /\ gone' = {} /\ frame' = Blank
    /\ live' = NoHost /\ screen' = 0
    /\ backlog' = <<>> /\ answer' = FALSE
    /\ rt' = [c \in Clients |-> "none"]
    /\ up' = [c \in Clients |-> <<>>]
    /\ UNCHANGED <<clientVars, down, ctl>>

\* The broker has returned and joined the shell's reader.
Exit == bpc = "leaving" /\ Die /\ UNCHANGED <<storeVars, spent>>

Kill == Up /\ Spend /\ Die /\ UNCHANGED storeVars

\* The next event makes the broker write the session file.
AboutToSave ==
    /\ bpc = "wait"
    /\ \/ \E c \in Clients :
            /\ rt[c] = "reading" /\ live # NoHost
            /\ \/ /\ DOMAIN clients \subseteq {c}
                  /\ IF up[c] = <<>> THEN HungUp(c) ELSE Head(up[c]) = Detach
               \/ up[c] # <<>> /\ Head(up[c]) = Key("quit")
       \/ \E k \in Controls :
            /\ Serves(k) /\ ~answer
            /\ ctl[k] = "save" \/ (ctl[k] = "shutdown" /\ live # NoHost)

\* Killed between the truncation of the session file and the end of the write.
KillWhileSaving ==
    /\ Up /\ Spend /\ AboutToSave
    /\ disk' = EmptySession /\ cut' = TRUE
    /\ Die /\ UNCHANGED <<saved, failed>>

Bootstrap ==
    /\ bpc = "down" /\ Spend
    /\ bpc' = "wait" /\ saved' = disk /\ failed' = FALSE
    /\ UNCHANGED <<clientVars, up, down, rt, acceptVars, screen, clients, castVars, live, disk, cut>>

-----------------------------------------------------------------------------

BrokerOwn == Tick \/ EndDone \/ Exit

Next ==
    \/ \E c \in Clients :
        \/ Connect(c) \/ AskToAttach(c) \/ ForwardDetach(c) \/ StopForwarding(c) \/ LoseClient(c)
        \/ Paint(c) \/ \E k \in {"char", "quit"} : ForwardKey(c, k)
        \/ \E s \in Sizes : ForwardResize(c, s)
        \/ AcceptAttach(c) \/ AcceptHungUp(c)
        \/ HandleAttach(c) \/ HandleKey(c) \/ HandleQuit(c) \/ HandleResize(c) \/ HandleLeave(c)
        \/ MirrorTo(c) \/ EndTo(c)
    \/ \E k \in Controls :
        \/ \E r \in Requests : SendRequest(k, r)
        \/ RequestFails(k) \/ AnswerControl(k) \/ HandleControl(k)
    \/ BrokerOwn \/ Background
    \/ Kill \/ KillWhileSaving \/ Bootstrap

\* Every thread runs when it can, and the channel is first in first out, so that no
\* input waits for ever; `mj attach` sends its first frame as soon as it is connected
\* and its painter reads what arrives.
Fairness ==
    /\ WF_vars(BrokerOwn)
    /\ \A c \in Clients :
        /\ WF_vars(AskToAttach(c)) /\ WF_vars(Paint(c)) /\ WF_vars(StopForwarding(c))
        /\ WF_vars(AcceptAttach(c) \/ AcceptHungUp(c))
        /\ WF_vars(MirrorTo(c) \/ EndTo(c))
        /\ SF_vars(HandleAttach(c))
        /\ SF_vars(HandleKey(c) \/ HandleQuit(c) \/ HandleResize(c) \/ HandleLeave(c))
    /\ \A k \in Controls : /\ WF_vars(RequestFails(k)) /\ WF_vars(AnswerControl(k))
                           /\ SF_vars(HandleControl(k))

Spec == Init /\ [][Next]_vars
FairSpec == Spec /\ Fairness

-----------------------------------------------------------------------------
(* Properties.                                                             *)

\* Each variable has its type, and no socket holds more than it can.
DaemonTypeOK ==
    /\ screen \in {0, 1}
    /\ \A c \in Clients : /\ at[c] \in {"home", "connecting", "attached", "done"}
                          /\ term[c] \in Sizes
                          /\ rt[c] \in {"none", "offered", "reading", "ended"}
                          /\ Len(down[c]) <= Capacity
    /\ \A k \in Controls : ctl[k] \in {"home", "answered", "failed"} \cup Requests
    /\ bpc \in {"wait", "mirror", "ending", "leaving", "down"}
    /\ DOMAIN clients \subseteq Clients /\ todo \subseteq DOMAIN clients /\ gone \subseteq Clients
    /\ {saved, disk} \subseteq Nat
    /\ live = NoHost \/ live.layout \in Nat
    /\ ToSet(backlog) \subseteq Clients \cup Controls

\* An update can be painted over `on`: it is complete, or was computed from what is
\* there.
Paints(d, on) == d = Ended \/ d.from = Blank \/ d.from = on

\* The front buffer that the broker keeps of a client is what the client's terminal
\* will show once everything on its way is painted: no update is computed from
\* something else than what is there when it is painted (broadcast's diffs).
MirrorIsExact ==
    \A c \in DOMAIN clients : Forwarding(c) =>
        LET way == down[c]
            before(i) == IF i = 1 THEN shown[c] ELSE way[i - 1].to
        IN  /\ \A i \in DOMAIN way : Paints(way[i], before(i))
            /\ way = <<>> => clients[c].front = shown[c]
            /\ way # <<>> /\ way[Len(way)] # Ended => clients[c].front = way[Len(way)].to

\* The session is never larger than the terminal of a client in the mirror set, so
\* that its content fits everybody (renegotiate), also when a client that was
\* dropped by a failed write is not renegotiated.
FitsEveryClient ==
    live # NoHost => \A c \in DOMAIN clients : /\ live.cols <= clients[c].size[1]
                                              /\ live.rows <= clients[c].size[2]

\* A session that nobody watches is stored as it is, and is in the session file unless
\* the write of it failed (then a request to save tries again); or the reader of a client
\* that was dropped by a failed frame is still to report it, which saves it (forget_client;
\* broadcast itself saves nothing).
UnwatchedIsSaved ==
    live # NoHost /\ clients = <<>> /\ bpc = "wait" =>
        \/ saved = live.layout /\ (disk = saved \/ failed)
        \/ \E c \in Clients : rt[c] \in {"offered", "reading"}

\* The session file never goes back to an earlier session, neither by a request to save
\* (which writes what was stored last) nor over a failed save or a restart; it may only be
\* cut short, by a write that fails or a process that is killed in the middle of one.
DiskNeverGoesBack == [][disk' >= disk \/ (cut' /\ disk' = EmptySession)]_vars

\* Whoever attaches is shown the session or learns that there is none, and whoever
\* sends a request gets an answer or an end of file, although one thread accepts,
\* one thread draws for all, and both may wait for others.
EveryoneIsServed ==
    /\ \A c \in Clients : at[c] = "connecting" ~> (shown[c] # Blank \/ at[c] = "done")
    /\ \A k \in Controls : ctl[k] \in Requests ~> ctl[k] \in {"answered", "failed"}
=============================================================================
