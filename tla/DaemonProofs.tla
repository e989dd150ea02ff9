---------------------------- MODULE DaemonProofs ----------------------------
(***************************************************************************)
(* Safety of the session daemon for all sets of clients, sizes of their    *)
(* terminals and bounds.                                                   *)
(***************************************************************************)
EXTENDS DaemonHost, WellFoundedInduction, TLAPS

-----------------------------------------------------------------------------
(* The inductive invariant.                                                *)

Views == {Blank} \cup (Nat \X {0, 1} \X Nat \X Nat)
Hosts == [layout : Nat, cols : Nat, rows : Nat]
Entries == [size : Sizes, front : Views]
Inputs == [type : {"key"}, key : {"char", "quit"}] \cup [type : {"resize"}, size : Sizes] \cup {Detach}
Updates == [from : Views, to : Views]

Processes ==
    /\ at \in [Clients -> {"home", "connecting", "attached", "done"}]
    /\ told \in [Clients -> BOOLEAN]
    /\ term \in [Clients -> Sizes]
    /\ shown \in [Clients -> Views]
    /\ ctl \in [Controls -> {"home", "answered", "failed"} \cup Requests]
    /\ rt \in [Clients -> {"none", "offered", "reading", "ended"}]
    /\ backlog \in Seq(Clients \cup Controls)

Sockets ==
    /\ up \in [Clients -> Seq(Inputs)]
    /\ down \in [Clients -> Seq(Updates \cup {Ended})]
    /\ \A c \in Clients : Len(down[c]) <= Capacity

Broker ==
    /\ bpc \in {"wait", "mirror", "ending", "leaving", "down"}
    /\ DOMAIN clients \subseteq Clients /\ clients \in [DOMAIN clients -> Entries]
    /\ todo \subseteq DOMAIN clients /\ gone \subseteq Clients
    /\ bpc \notin {"mirror", "ending"} => todo = {}
    /\ frame \in Views /\ screen \in {0, 1}
    /\ live \in Hosts \cup {NoHost}
    /\ bpc \in {"ending", "down"} => live = NoHost

(* Where a client is: at home, in the backlog, offered or read, in this    *)
(* order and once; those in the mirror set are read.  The first that a     *)
(* client sends is its size.                                               *)
Waiting(c) == c \in ToSet(backlog) \/ rt[c] = "offered"

Station(c) ==
    /\ at[c] \in {"home", "connecting"} => up[c] = <<>> /\ rt[c] = "none"
    /\ at[c] = "home" => c \notin ToSet(backlog)
    /\ c \in ToSet(backlog) => rt[c] = "none"
    /\ c \in DOMAIN clients => rt[c] = "reading"
    /\ rt[c] = "offered" => up[c] # <<>>
    /\ Waiting(c) => Up /\ (at[c] = "attached" => up[c] # <<>>)
    /\ Waiting(c) /\ up[c] # <<>> => Head(up[c]).type = "resize"
    /\ at[c] = "home" \/ Waiting(c) => down[c] = <<>> /\ shown[c] = Blank

Once == \A i, j \in DOMAIN backlog : backlog[i] = backlog[j] => i = j \/ backlog[i] \notin Clients

Stations == Once /\ \A c \in Clients : Station(c)

(* What is stored is in the file unless the last write of it failed; the   *)
(* file is not newer than what is stored, which is not newer than what is  *)
(* live.                                                                   *)
Stored ==
    /\ saved \in Nat /\ disk \in Nat
    /\ Up => saved >= disk /\ (failed \/ saved = disk)
    /\ live # NoHost => live.layout >= saved

(* The updates on their way lead from what is shown to the front buffer.   *)
Leads(way, on, front) ==
    /\ \A i \in DOMAIN way : Paints(way[i], IF i = 1 THEN on ELSE way[i - 1].to)
    /\ way = <<>> => front = on
    /\ way # <<>> /\ way[Len(way)] # Ended => front = way[Len(way)].to

(* A client is told once that the session has ended, and nothing after it. *)
EndIsLast ==
    \A c \in DOMAIN clients : \A i \in DOMAIN down[c] :
        down[c][i] = Ended => bpc = "ending" /\ c \notin todo

(* The file is not older after a step, or it is cut short.                 *)
Forward == disk' >= disk \/ (cut' /\ disk' = EmptySession)

IInv ==
    /\ Processes /\ Sockets /\ Broker
    /\ Stations /\ Stored /\ EndIsLast
    /\ FitsEveryClient
    /\ MirrorIsExact
    /\ UnwatchedIsSaved

-----------------------------------------------------------------------------
(* Sizes.                                                                  *)

(* A set of numbers has a least one.                                       *)
LEMMA LeastNumber ==
    ASSUME NEW S, S \subseteq Nat, S # {}
    PROVE  Min(S) \in S /\ \A y \in S : Min(S) <= y
<1>1. PICK x \in S : \A y \in S : ~(<<y, x>> \in OpToRel(<, Nat))
    BY NatLessThanWellFounded, WFMin, Zenon
<1>2. ASSUME NEW y \in S PROVE x <= y
  <2>1. ~(<<y, x>> \in OpToRel(<, Nat))
    BY <1>1
  <2>2. ~(y < x)
    <3>1. SUFFICES ASSUME y < x PROVE <<y, x>> \in OpToRel(<, Nat)
      BY <2>1
    <3> QED BY <3>1 DEF OpToRel
  <2> QED BY <2>2
<1> QED BY <1>2 DEF Min

(* A mirror set is empty when nobody is in it.                             *)
LEMMA NobodyWatches ==
    ASSUME NEW cs, cs \in [DOMAIN cs -> Entries]
    PROVE  cs = <<>> <=> DOMAIN cs = {}
  OBVIOUS

(* A host stays what it is but for its size, which fits who watches.       *)
LEMMA Renegotiated ==
    ASSUME DaemonAssumption,
           NEW host \in Hosts \cup {NoHost}, NEW cs, cs \in [DOMAIN cs -> Entries]
    PROVE  /\ Renegotiate(host, cs) \in Hosts \cup {NoHost}
           /\ Renegotiate(host, cs) = NoHost <=> host = NoHost
           /\ Renegotiate(host, cs).layout = host.layout
           /\ host # NoHost => \A c \in DOMAIN cs :
                 /\ Renegotiate(host, cs).cols <= cs[c].size[1]
                 /\ Renegotiate(host, cs).rows <= cs[c].size[2]
<1>1. CASE host = NoHost
    BY <1>1 DEF Renegotiate
<1>2. CASE host # NoHost /\ cs = <<>>
  <2>1. DOMAIN cs = {}
    BY <1>2, NobodyWatches
  <2> QED BY <1>2, <2>1 DEF Renegotiate
<1>3. CASE host # NoHost /\ cs # <<>>
  <2> DEFINE sizes(i) == {cs[c].size[i] : c \in DOMAIN cs}
  <2>1. DOMAIN cs # {}
    BY <1>3, NobodyWatches
  <2>2. \A c \in DOMAIN cs : cs[c].size[1] \in Nat /\ cs[c].size[2] \in Nat
    BY DEF Entries, DaemonAssumption
  <2>3. sizes(1) \subseteq Nat /\ sizes(1) # {} /\ sizes(2) \subseteq Nat /\ sizes(2) # {}
    BY <2>1, <2>2
  <2>4. /\ Min(sizes(1)) \in Nat /\ \A y \in sizes(1) : Min(sizes(1)) <= y
        /\ Min(sizes(2)) \in Nat /\ \A y \in sizes(2) : Min(sizes(2)) <= y
    <3>1. Min(sizes(1)) \in sizes(1) /\ \A y \in sizes(1) : Min(sizes(1)) <= y
      BY <2>3, LeastNumber
    <3>2. Min(sizes(2)) \in sizes(2) /\ \A y \in sizes(2) : Min(sizes(2)) <= y
      BY <2>3, LeastNumber
    <3> QED BY <2>3, <3>1, <3>2
  <2>5. Renegotiate(host, cs) = [host EXCEPT !.cols = Min(sizes(1)), !.rows = Min(sizes(2))]
    BY <1>3 DEF Renegotiate
  <2>6. host \in Hosts
    BY <1>3
  <2> HIDE DEF sizes
  <2>7. /\ Renegotiate(host, cs) \in Hosts
        /\ Renegotiate(host, cs).layout = host.layout
        /\ Renegotiate(host, cs).cols = Min(sizes(1))
        /\ Renegotiate(host, cs).rows = Min(sizes(2))
    BY <2>4, <2>5, <2>6 DEF Hosts
  <2>8. Renegotiate(host, cs) # NoHost
    BY <2>7 DEF Hosts, NoHost
  <2>9. \A c \in DOMAIN cs : Min(sizes(1)) <= cs[c].size[1] /\ Min(sizes(2)) <= cs[c].size[2]
    BY <2>4 DEF sizes
  <2> QED BY <1>3, <2>7, <2>8, <2>9
<1> QED BY <1>1, <1>2, <1>3

(* What a client sends comes to the end of its socket, or is lost.         *)
LEMMA Sends ==
    ASSUME Sockets, NEW c \in Clients, NEW m \in Inputs, Send(c, m)
    PROVE  up' \in [Clients -> Seq(Inputs)]
<1>1. Append(up[c], m) \in Seq(Inputs)
    BY DEF Sockets
<1> QED BY <1>1 DEF Send, Sockets

(* What is taken out of a socket leaves the rest in it.                    *)
LEMMA Takes ==
    ASSUME NEW T, NEW s \in Seq(T), s # <<>>
    PROVE  /\ Head(s) \in T /\ Tail(s) \in Seq(T) /\ Len(Tail(s)) = Len(s) - 1
           /\ \A i \in DOMAIN Tail(s) : i + 1 \in DOMAIN s /\ Tail(s)[i] = s[i + 1]
  OBVIOUS

(* An update is no end.                                                    *)
LEMMA UpdateIsNoEnd ==
    ASSUME NEW d \in Updates
    PROVE  d # Ended
  BY DEF Updates, Ended

(* What comes to a client fits into its socket.                            *)
LEMMA Puts ==
    ASSUME DaemonAssumption, Sockets, NEW c \in Clients,
           NEW s \in Seq(Updates \cup {Ended}), Len(s) <= Capacity,
           down' = [down EXCEPT ![c] = s], up' \in [Clients -> Seq(Inputs)]
    PROVE  Sockets'
<1>1. down' \in [Clients -> Seq(Updates \cup {Ended})]
    BY DEF Sockets
<1>2. \A x \in Clients : down'[x] = IF x = c THEN s ELSE down[x]
    BY DEF Sockets
<1> QED BY <1>1, <1>2 DEF Sockets
(* A frame is drawn for whoever watches, and sent to all of them.          *)
LEMMA Mirrors ==
    ASSUME Broker, bpc = "wait", DOMAIN clients' \subseteq Clients, clients' \in [DOMAIN clients' -> Entries],
           NEW host \in Hosts \cup {NoHost}, Mirror(host, clients')
    PROVE  /\ Broker'
           /\ live' = host /\ gone' = gone /\ bpc' \in {"wait", "mirror"}
           /\ bpc' = "wait" => todo' = {} /\ (host = NoHost \/ DOMAIN clients' = {})
           /\ bpc' = "mirror" => host # NoHost /\ todo' = DOMAIN clients'
<1>1. CASE clients' = <<>> \/ host = NoHost
  <2>1. clients' = <<>> => DOMAIN clients' = {}
    BY NobodyWatches
  <2>2. live' = host /\ bpc' = "wait" /\ UNCHANGED <<todo, gone, frame, screen>>
    BY <1>1 DEF Mirror, castVars
  <2> QED BY <1>1, <2>1, <2>2 DEF Broker
<1>2. CASE clients' # <<>> /\ host # NoHost
  <2>1. /\ live' = host /\ bpc' = "mirror" /\ UNCHANGED <<gone, screen>>
        /\ frame' = View(host) /\ todo' = DOMAIN clients'
    BY <1>2 DEF Mirror
  <2>2. View(host) \in Views
    BY <1>2 DEF View, Views, Hosts, Broker
  <2> QED BY <1>2, <2>1, <2>2 DEF Broker
<1> QED BY <1>1, <1>2

(* Who comes in is in the mirror set with its size, and has seen nothing.  *)
LEMMA Enters ==
    ASSUME Broker, NEW c \in Clients, NEW size \in Sizes,
           clients' = Having(clients, c, [size |-> size, front |-> Blank])
    PROVE  /\ DOMAIN clients' = DOMAIN clients \cup {c} /\ clients' \in [DOMAIN clients' -> Entries]
           /\ clients'[c] = [size |-> size, front |-> Blank]
           /\ \A x \in DOMAIN clients : x # c => clients'[x] = clients[x]
<1>1. [size |-> size, front |-> Blank] \in Entries
    BY DEF Entries, Views
<1> QED BY <1>1 DEF Broker, Having

(* A new size is noted.                                                    *)
LEMMA Resizes ==
    ASSUME Broker, NEW c, NEW size \in Sizes,
           clients' = IF c \in DOMAIN clients THEN [clients EXCEPT ![c].size = size] ELSE clients
    PROVE  /\ DOMAIN clients' = DOMAIN clients /\ clients' \in [DOMAIN clients' -> Entries]
           /\ \A x \in DOMAIN clients : clients'[x].front = clients[x].front
  BY DEF Entries, Broker
(* Who connects is the last of the backlog.                                *)
LEMMA BacklogGrows ==
    ASSUME Processes, NEW x \in Clients \cup Controls, backlog' = Append(backlog, x), Once,
           x \in Clients => x \notin ToSet(backlog)
    PROVE  Once' /\ ToSet(backlog') = ToSet(backlog) \cup {x}
<1>1. backlog \in Seq(Clients \cup Controls)
    BY DEF Processes
<1>2. /\ DOMAIN backlog' = 1 .. Len(backlog) + 1 /\ DOMAIN backlog = 1 .. Len(backlog)
      /\ Len(backlog) \in Nat
      /\ backlog'[Len(backlog) + 1] = x
      /\ \A i \in DOMAIN backlog : backlog'[i] = backlog[i]
    BY <1>1
<1>3. ToSet(backlog') = ToSet(backlog) \cup {x}
  <2>1. \A y \in ToSet(backlog) \cup {x} : y \in ToSet(backlog')
    BY <1>2 DEF ToSet
  <2>2. \A y \in ToSet(backlog') : y \in ToSet(backlog) \cup {x}
    <3>1. \A i \in DOMAIN backlog' : i \in DOMAIN backlog \/ i = Len(backlog) + 1
      BY <1>2
    <3> QED BY <1>2, <3>1 DEF ToSet
  <2> QED BY <2>1, <2>2
<1>4. ASSUME NEW i \in DOMAIN backlog', NEW j \in DOMAIN backlog', backlog'[i] = backlog'[j]
      PROVE  i = j \/ backlog'[i] \notin Clients
  <2>1. \A k \in DOMAIN backlog : backlog[k] = x => x \notin Clients
    BY DEF ToSet
  <2>2. CASE i \in DOMAIN backlog /\ j \in DOMAIN backlog
    BY <1>2, <1>4, <2>2 DEF Once
  <2>3. CASE i = Len(backlog) + 1 \/ j = Len(backlog) + 1
    BY <1>2, <1>4, <2>1, <2>3
  <2> QED BY <1>2, <2>2, <2>3
<1> QED BY <1>3, <1>4 DEF Once

(* Who is served is the first, and does not come again.                    *)
LEMMA BacklogShrinks ==
    ASSUME Processes, backlog # <<>>, backlog' = Tail(backlog), Once
    PROVE  /\ Once' /\ ToSet(backlog') \subseteq ToSet(backlog) /\ Head(backlog) \in ToSet(backlog)
           /\ Head(backlog) \in Clients => Head(backlog) \notin ToSet(backlog')
<1>1. backlog \in Seq(Clients \cup Controls)
    BY DEF Processes
<1>2. /\ DOMAIN backlog' = 1 .. Len(backlog) - 1 /\ DOMAIN backlog = 1 .. Len(backlog)
      /\ Len(backlog) \in Nat \ {0}
      /\ Head(backlog) = backlog[1]
      /\ \A i \in DOMAIN backlog' : i + 1 \in DOMAIN backlog /\ backlog'[i] = backlog[i + 1]
    BY <1>1
<1>3. ToSet(backlog') \subseteq ToSet(backlog) /\ Head(backlog) \in ToSet(backlog)
    BY <1>2 DEF ToSet
<1>4. ASSUME NEW i \in DOMAIN backlog', NEW j \in DOMAIN backlog', backlog'[i] = backlog'[j]
      PROVE  i = j \/ backlog'[i] \notin Clients
    BY <1>2, <1>4 DEF Once
<1>5. Head(backlog) \in Clients => Head(backlog) \notin ToSet(backlog')
  <2>1. \A i \in DOMAIN backlog' : backlog'[i] = backlog[1] => backlog[1] \notin Clients
    BY <1>2 DEF Once
  <2> QED BY <1>2, <2>1 DEF ToSet
<1> QED BY <1>3, <1>4, <1>5 DEF Once

(* What is sent comes after what is there.                                 *)
LEMMA Comes ==
    ASSUME NEW T, NEW s \in Seq(T), NEW m \in T
    PROVE  Append(s, m) # <<>> /\ Head(Append(s, m)) = IF s = <<>> THEN m ELSE Head(s)
<1>1. CASE s = <<>>
    BY <1>1
<1>2. CASE s # <<>>
  <2>1. Len(s) \in Nat \ {0} /\ Head(s) = s[1]
    BY <1>2
  <2>2. Append(s, m)[1] = s[1] /\ Append(s, m) # <<>>
    BY <2>1
  <2>3. Append(s, m) \in Seq(T)
    OBVIOUS
  <2>4. Head(Append(s, m)) = Append(s, m)[1]
    BY <2>2, <2>3
  <2> QED BY <1>2, <2>1, <2>2, <2>4
<1> QED BY <1>1, <1>2
(* The first that a client sends is the size of its terminal.              *)
LEMMA SizeComes ==
    ASSUME IInv, NEW c \in Clients, rt[c] = "offered"
    PROVE  up[c] # <<>> /\ Head(up[c]) \in Inputs /\ Head(up[c]).size \in Sizes
<1>1. up[c] # <<>> /\ Head(up[c]).type = "resize"
    BY DEF IInv, Stations, Station, Waiting
<1>2. Head(up[c]) \in Inputs
    BY <1>1, Takes DEF IInv, Sockets
<1> QED BY <1>1, <1>2 DEF Inputs, Detach

(* Exactness of a mirror, said of the updates on their way.                *)
LEMMA ExactLeads ==
    MirrorIsExact <=> \A c \in DOMAIN clients : Forwarding(c) => Leads(down[c], shown[c], clients[c].front)
  BY DEF MirrorIsExact, Leads

(* The same, said of the next state.                                       *)
LEMMA ExactNext ==
    (\A c \in DOMAIN clients' : Forwarding(c)' => Leads(down'[c], shown'[c], clients'[c].front))
        => MirrorIsExact'
  BY DEF MirrorIsExact, Leads

(* What is painted is no longer on its way.                                *)
LEMMA LeadsOn ==
    ASSUME NEW way \in Seq(Updates \cup {Ended}), way # <<>>, Head(way) # Ended,
           NEW on, NEW front, Leads(way, on, front)
    PROVE  Leads(Tail(way), Head(way).to, front)
<1>1. /\ Len(way) \in Nat \ {0} /\ Head(way) = way[1] /\ Len(Tail(way)) = Len(way) - 1
      /\ DOMAIN way = 1 .. Len(way) /\ DOMAIN Tail(way) = 1 .. Len(way) - 1
      /\ \A i \in DOMAIN Tail(way) : Tail(way)[i] = way[i + 1]
    OBVIOUS
<1>2. ASSUME NEW i \in DOMAIN Tail(way)
      PROVE  Paints(Tail(way)[i], IF i = 1 THEN Head(way).to ELSE Tail(way)[i - 1].to)
  <2>1. i \in DOMAIN way /\ i \in Nat
    BY <1>1
  <2>2. Paints(way[i + 1], way[i].to)
    <3>1. PICK j \in DOMAIN way : j = i + 1
      BY <1>1
    <3>2. j # 1 /\ j - 1 = i
      BY <2>1, <3>1
    <3>3. Paints(way[j], IF j = 1 THEN on ELSE way[j - 1].to)
      BY DEF Leads
    <3> QED BY <3>1, <3>2, <3>3
  <2>3. way[i].to = IF i = 1 THEN Head(way).to ELSE Tail(way)[i - 1].to
    BY <1>1, <2>1
  <2>4. Tail(way)[i] = way[i + 1]
    BY <1>1
  <2> QED BY <2>2, <2>3, <2>4
<1>3. Tail(way) = <<>> => front = Head(way).to
  <2>1. ASSUME Tail(way) = <<>> PROVE Len(way) = 1
    <3>1. DOMAIN Tail(way) = {}
      <4>1. DOMAIN <<>> = {}
        OBVIOUS
      <4> QED BY <2>1, <4>1, Zenon
    <3>2. 1 .. Len(way) - 1 = {}
      BY <1>1, <3>1, Zenon
    <3>3. Len(way) \in Nat \ {0}
      BY <1>1, Zenon
    <3>4. \A n \in Nat \ {0} : n # 1 => 1 \in 1 .. n - 1
      OBVIOUS
    <3> QED BY <3>2, <3>3, <3>4, Zenon
  <2> QED BY <1>1, <2>1 DEF Leads
<1>4. Tail(way) # <<>> => Tail(way)[Len(Tail(way))] = way[Len(way)]
  <2>1. Tail(way) # <<>> => Len(way) - 1 \in DOMAIN Tail(way)
    BY <1>1
  <2> QED BY <1>1, <2>1
<1> QED BY <1>1, <1>2, <1>3, <1>4 DEF Leads

(* What is sent was computed from what will be there.                      *)
LEMMA LeadsFurther ==
    ASSUME NEW way \in Seq(Updates \cup {Ended}), NEW on, NEW front, Leads(way, on, front),
           NEW d \in Updates \cup {Ended}, way # <<>> => way[Len(way)] # Ended, Paints(d, front)
    PROVE  Leads(Append(way, d), on, IF d = Ended THEN front ELSE d.to)
<1> DEFINE long == Append(way, d)
<1>1. /\ Len(way) \in Nat /\ Len(long) = Len(way) + 1 /\ long # <<>>
      /\ DOMAIN way = 1 .. Len(way) /\ DOMAIN long = 1 .. Len(way) + 1
      /\ long[Len(way) + 1] = d
      /\ \A i \in DOMAIN way : long[i] = way[i]
    OBVIOUS
<1> HIDE DEF long
<1>2. ASSUME NEW i \in DOMAIN long
      PROVE  Paints(long[i], IF i = 1 THEN on ELSE long[i - 1].to)
  <2>1. CASE i \in DOMAIN way
    <3>1. i # 1 => i - 1 \in DOMAIN way
      BY <1>1, <2>1
    <3>2. Paints(way[i], IF i = 1 THEN on ELSE way[i - 1].to)
      BY <2>1 DEF Leads
    <3> QED BY <1>1, <2>1, <3>1, <3>2
  <2>2. CASE i = Len(way) + 1 /\ way = <<>>
    <3>1. i = 1 /\ front = on
      BY <1>1, <2>2 DEF Leads
    <3> QED BY <1>1, <2>2, <3>1
  <2>3. CASE i = Len(way) + 1 /\ way # <<>>
    <3>1. i # 1 /\ i - 1 = Len(way) /\ Len(way) \in DOMAIN way
      BY <1>1, <2>3
    <3>2. front = way[Len(way)].to
      BY <2>3 DEF Leads
    <3> QED BY <1>1, <2>3, <3>1, <3>2
  <2> QED BY <1>1, <2>1, <2>2, <2>3
<1> QED BY <1>1, <1>2 DEF Leads, long

-----------------------------------------------------------------------------
(* Every step of every thread keeps each part of the invariant.            *)

(* Every step keeps the types of what the processes and the threads hold.  *)
LEMMA ProcessesStep ==
    ASSUME DaemonAssumption, IInv, Next
    PROVE  Processes'
<1> USE DEF IInv, DaemonAssumption, Processes, vars, clientVars, acceptVars, castVars, brokerVars, storeVars, serverVars
<1>1. ASSUME NEW c \in Clients, Connect(c) PROVE Processes'
  <2>1. Append(backlog, c) \in Seq(Clients \cup Controls)
    BY DEF Processes
  <2>2. backlog' \in Seq(Clients \cup Controls) /\ at' \in [Clients -> {"home", "connecting", "attached", "done"}]
    BY <1>1, <2>1 DEF Connect, Processes
  <2> QED BY <1>1, <2>2 DEF Connect
<1>2. ASSUME NEW c \in Clients, AskToAttach(c) PROVE Processes'
    BY <1>2 DEF AskToAttach
<1>3. ASSUME NEW c \in Clients, NEW k \in {"char", "quit"}, ForwardKey(c, k) PROVE Processes'
    BY <1>3 DEF ForwardKey
<1>4. ASSUME NEW c \in Clients, NEW s \in Sizes, ForwardResize(c, s) PROVE Processes'
    BY <1>4 DEF ForwardResize
<1>5. ASSUME NEW c \in Clients, ForwardDetach(c) PROVE Processes'
    BY <1>5 DEF ForwardDetach, Leave, Views
<1>6. ASSUME NEW c \in Clients, StopForwarding(c) PROVE Processes'
    BY <1>6 DEF StopForwarding, Leave, Views
<1>7. ASSUME NEW c \in Clients, LoseClient(c) PROVE Processes'
    BY <1>7 DEF LoseClient, Leave, Views
<1>8. ASSUME NEW c \in Clients, Paint(c) PROVE Processes'
  <2>1. CASE down[c] # <<>> /\ Head(down[c]) # Ended
    <3>1. Head(down[c]) \in Updates
      BY <2>1 DEF Sockets
    <3>2. Head(down[c]).to \in Views
      BY <3>1 DEF Updates
    <3> QED BY <1>8, <2>1, <3>2 DEF Paint
  <2>2. CASE down[c] = <<>> \/ Head(down[c]) = Ended
    BY <1>8, <2>2 DEF Paint
  <2> QED BY <2>1, <2>2
<1>9. ASSUME NEW c \in Clients, AcceptAttach(c) PROVE Processes'
    BY <1>9 DEF AcceptAttach, Serves
<1>10. ASSUME NEW c \in Clients, AcceptHungUp(c) PROVE Processes'
    BY <1>10 DEF AcceptHungUp, Serves
<1>11. ASSUME NEW c \in Clients, HandleAttach(c) PROVE Processes'
    BY <1>11 DEF HandleAttach
<1>12. ASSUME NEW c \in Clients, HandleKey(c) PROVE Processes'
    BY <1>12 DEF HandleKey
<1>13. ASSUME NEW c \in Clients, HandleQuit(c) PROVE Processes'
    BY <1>13 DEF HandleQuit
<1>14. ASSUME NEW c \in Clients, HandleResize(c) PROVE Processes'
    BY <1>14 DEF HandleResize
<1>15. ASSUME NEW c \in Clients, HandleLeave(c) PROVE Processes'
    BY <1>15 DEF HandleLeave
<1>16. ASSUME NEW c \in Clients, MirrorTo(c) PROVE Processes'
    BY <1>16 DEF MirrorTo
<1>17. ASSUME NEW c \in Clients, EndTo(c) PROVE Processes'
    BY <1>17 DEF EndTo
<1>18. ASSUME NEW k \in Controls, NEW r \in Requests, SendRequest(k, r) PROVE Processes'
  <2>1. Append(backlog, k) \in Seq(Clients \cup Controls)
    BY DEF Processes
  <2>2. backlog' \in Seq(Clients \cup Controls) /\ ctl' \in [Controls -> {"home", "answered", "failed"} \cup Requests]
    BY <1>18, <2>1 DEF SendRequest, Processes
  <2> QED BY <1>18, <2>2 DEF SendRequest
<1>19. ASSUME NEW k \in Controls, RequestFails(k) PROVE Processes'
    BY <1>19 DEF RequestFails
<1>20. ASSUME NEW k \in Controls, AnswerControl(k) PROVE Processes'
    BY <1>20 DEF AnswerControl, Serves
<1>21. ASSUME NEW k \in Controls, HandleControl(k) PROVE Processes'
    BY <1>21 DEF HandleControl
<1>22. ASSUME Tick PROVE Processes'
    BY <1>22 DEF Tick
<1>23. ASSUME EndDone PROVE Processes'
    BY <1>23 DEF EndDone
<1>24. ASSUME Exit PROVE Processes'
    BY <1>24 DEF Exit, Die
<1>25. ASSUME Background PROVE Processes'
    BY <1>25 DEF Background
<1>26. ASSUME Kill PROVE Processes'
    BY <1>26 DEF Kill, Die
<1>27. ASSUME KillWhileSaving PROVE Processes'
    BY <1>27 DEF KillWhileSaving, Die
<1>28. ASSUME Bootstrap PROVE Processes'
    BY <1>28 DEF Bootstrap
<1> QED
    BY <1>1, <1>2, <1>3, <1>4, <1>5, <1>6, <1>7, <1>8, <1>9, <1>10, <1>11, <1>12, <1>13, <1>14,
       <1>15, <1>16, <1>17, <1>18, <1>19, <1>20, <1>21, <1>22, <1>23, <1>24, <1>25, <1>26, <1>27, <1>28
       DEF Next, BrokerOwn

(* What is sent is an input or an update, and a socket holds no more than  *)
(* it can.                                                                 *)
LEMMA SocketsStep ==
    ASSUME DaemonAssumption, IInv, Next
    PROVE  Sockets'
<1> USE DEF IInv, vars, clientVars, acceptVars, castVars, brokerVars, storeVars, serverVars
<1>1. ASSUME NEW c \in Clients, Connect(c) PROVE Sockets'
    BY <1>1 DEF Connect, Sockets
<1>2. ASSUME NEW c \in Clients, AskToAttach(c) PROVE Sockets'
  <2>1. Resize(term[c]) \in Inputs
    BY DEF Inputs, Processes, Resize
  <2>2. up' \in [Clients -> Seq(Inputs)]
    BY <1>2, <2>1, Sends DEF AskToAttach
  <2> QED BY <1>2, <2>2 DEF AskToAttach, Sockets
<1>3. ASSUME NEW c \in Clients, NEW k \in {"char", "quit"}, ForwardKey(c, k) PROVE Sockets'
  <2>1. Key(k) \in Inputs
    BY DEF Inputs, Processes, Key
  <2>2. up' \in [Clients -> Seq(Inputs)]
    BY <1>3, <2>1, Sends DEF ForwardKey
  <2> QED BY <1>3, <2>2 DEF ForwardKey, Sockets
<1>4. ASSUME NEW c \in Clients, NEW s \in Sizes, ForwardResize(c, s) PROVE Sockets'
  <2>1. Resize(s) \in Inputs
    BY DEF Inputs, Processes, Resize
  <2>2. up' \in [Clients -> Seq(Inputs)]
    BY <1>4, <2>1, Sends DEF ForwardResize
  <2> QED BY <1>4, <2>2 DEF ForwardResize, Sockets
<1>5. ASSUME NEW c \in Clients, ForwardDetach(c) PROVE Sockets'
  <2>1. <<>> \in Seq(Updates \cup {Ended}) /\ Len(<<>>) <= Capacity
    BY DEF DaemonAssumption
  <2>2. down' = [down EXCEPT ![c] = <<>>]
    BY <1>5 DEF ForwardDetach, Leave
  <2>3. up' \in [Clients -> Seq(Inputs)]
    BY <1>5, Sends DEF ForwardDetach, Inputs
  <2> QED BY <2>1, <2>2, <2>3, Puts
<1>6. ASSUME NEW c \in Clients, StopForwarding(c) PROVE Sockets'
  <2>1. <<>> \in Seq(Updates \cup {Ended}) /\ Len(<<>>) <= Capacity
    BY DEF DaemonAssumption
  <2>2. down' = [down EXCEPT ![c] = <<>>]
    BY <1>6 DEF StopForwarding, Leave
  <2>3. up' \in [Clients -> Seq(Inputs)]
    BY <1>6 DEF StopForwarding, Sockets
  <2> QED BY <2>1, <2>2, <2>3, Puts
<1>7. ASSUME NEW c \in Clients, LoseClient(c) PROVE Sockets'
  <2>1. <<>> \in Seq(Updates \cup {Ended}) /\ Len(<<>>) <= Capacity
    BY DEF DaemonAssumption
  <2>2. down' = [down EXCEPT ![c] = <<>>]
    BY <1>7 DEF LoseClient, Leave
  <2>3. up' \in [Clients -> Seq(Inputs)]
    BY <1>7 DEF LoseClient, Sockets
  <2> QED BY <2>1, <2>2, <2>3, Puts
<1>8. ASSUME NEW c \in Clients, Paint(c) PROVE Sockets'
  <2>1. CASE down[c] # <<>> /\ down' = [down EXCEPT ![c] = Tail(@)]
    <3>1. Tail(down[c]) \in Seq(Updates \cup {Ended}) /\ Len(Tail(down[c])) <= Capacity
      <4>1. down[c] \in Seq(Updates \cup {Ended}) /\ Len(down[c]) \in Nat /\ Len(down[c]) <= Capacity
        BY DEF Sockets
      <4> QED BY <2>1, <4>1, Takes DEF DaemonAssumption
    <3> QED BY <1>8, <2>1, <3>1, Puts DEF Paint, Sockets
  <2>2. CASE UNCHANGED down
    BY <1>8, <2>2 DEF Paint, Sockets
  <2>3. \/ down[c] # <<>> /\ down' = [down EXCEPT ![c] = Tail(@)]
        \/ UNCHANGED down
    BY <1>8 DEF Paint
  <2> QED BY <2>1, <2>2, <2>3
<1>9. ASSUME NEW c \in Clients, AcceptAttach(c) PROVE Sockets'
    BY <1>9 DEF AcceptAttach, Sockets
<1>10. ASSUME NEW c \in Clients, AcceptHungUp(c) PROVE Sockets'
    BY <1>10 DEF AcceptHungUp, Sockets
<1>11. ASSUME NEW c \in Clients, HandleAttach(c) PROVE Sockets'
  <2>1. up[c] # <<>>
    BY <1>11 DEF HandleAttach, Stations, Station, Waiting
  <2>2. Tail(up[c]) \in Seq(Inputs)
    BY <2>1, Takes DEF Sockets
  <2> QED BY <1>11, <2>2 DEF HandleAttach, Sockets
<1>12. ASSUME NEW c \in Clients, HandleKey(c) PROVE Sockets'
  <2>1. Tail(up[c]) \in Seq(Inputs)
    BY <1>12, Takes DEF HandleKey, Input, Sockets
  <2> QED BY <1>12, <2>1 DEF HandleKey, Input, Sockets
<1>13. ASSUME NEW c \in Clients, HandleQuit(c) PROVE Sockets'
  <2>1. Tail(up[c]) \in Seq(Inputs)
    BY <1>13, Takes DEF HandleQuit, Input, Sockets
  <2> QED BY <1>13, <2>1 DEF HandleQuit, Input, Sockets
<1>14. ASSUME NEW c \in Clients, HandleResize(c) PROVE Sockets'
  <2>1. Tail(up[c]) \in Seq(Inputs)
    BY <1>14, Takes DEF HandleResize, Input, Sockets
  <2> QED BY <1>14, <2>1 DEF HandleResize, Input, Sockets
<1>15. ASSUME NEW c \in Clients, HandleLeave(c) PROVE Sockets'
  <2>1. CASE Input(c, "detach")
    <3>1. Tail(up[c]) \in Seq(Inputs)
      BY <2>1, Takes DEF Input, Sockets
    <3> QED BY <1>15, <2>1, <3>1 DEF HandleLeave, Input, Sockets
  <2>2. CASE UNCHANGED up
    BY <1>15, <2>2 DEF HandleLeave, Sockets
  <2> QED BY <1>15, <2>1, <2>2 DEF HandleLeave
<1>16. ASSUME NEW c \in Clients, MirrorTo(c) PROVE Sockets'
  <2>1. CASE UNCHANGED down
    BY <1>16, <2>1 DEF MirrorTo, Sockets
  <2>2. CASE /\ Len(down[c]) < Capacity
             /\ down' = [down EXCEPT ![c] = Append(@, Update(clients[c].front, frame))]
    <3>1. clients[c] \in Entries /\ frame \in Views
      BY <1>16 DEF MirrorTo, Broker
    <3>2. Update(clients[c].front, frame) \in Updates
      BY <3>1 DEF Update, Updates, Entries, Views
    <3>3. /\ Append(down[c], Update(clients[c].front, frame)) \in Seq(Updates \cup {Ended})
          /\ Len(Append(down[c], Update(clients[c].front, frame))) <= Capacity
      BY <2>2, <3>2 DEF Sockets, DaemonAssumption
    <3> QED BY <1>16, <2>2, <3>3, Puts DEF MirrorTo, Sockets
  <2>3. \/ UNCHANGED down
        \/ /\ Len(down[c]) < Capacity
           /\ down' = [down EXCEPT ![c] = Append(@, Update(clients[c].front, frame))]
    BY <1>16 DEF MirrorTo
  <2> QED BY <2>1, <2>2, <2>3
<1>17. ASSUME NEW c \in Clients, EndTo(c) PROVE Sockets'
  <2>1. CASE UNCHANGED down
    BY <1>17, <2>1 DEF EndTo, Sockets
  <2>2. CASE Len(down[c]) < Capacity /\ down' = [down EXCEPT ![c] = Append(@, Ended)]
    <3>1. Append(down[c], Ended) \in Seq(Updates \cup {Ended}) /\ Len(Append(down[c], Ended)) <= Capacity
      BY <2>2 DEF Sockets, DaemonAssumption
    <3> QED BY <1>17, <2>2, <3>1, Puts DEF EndTo, Sockets
  <2>3. \/ UNCHANGED down
        \/ Len(down[c]) < Capacity /\ down' = [down EXCEPT ![c] = Append(@, Ended)]
    BY <1>17 DEF EndTo
  <2> QED BY <2>1, <2>2, <2>3
<1>18. ASSUME NEW k \in Controls, NEW r \in Requests, SendRequest(k, r) PROVE Sockets'
    BY <1>18 DEF SendRequest, Sockets
<1>19. ASSUME NEW k \in Controls, RequestFails(k) PROVE Sockets'
    BY <1>19 DEF RequestFails, Sockets
<1>20. ASSUME NEW k \in Controls, AnswerControl(k) PROVE Sockets'
    BY <1>20 DEF AnswerControl, Sockets
<1>21. ASSUME NEW k \in Controls, HandleControl(k) PROVE Sockets'
    BY <1>21 DEF HandleControl, Sockets
<1>22. ASSUME Tick PROVE Sockets'
    BY <1>22 DEF Tick, Sockets
<1>23. ASSUME EndDone PROVE Sockets'
    BY <1>23 DEF EndDone, Sockets
<1>24. ASSUME Exit PROVE Sockets'
    BY <1>24 DEF Exit, Sockets, Die
<1>25. ASSUME Background PROVE Sockets'
    BY <1>25 DEF Background, Sockets
<1>26. ASSUME Kill PROVE Sockets'
    BY <1>26 DEF Kill, Sockets, Die
<1>27. ASSUME KillWhileSaving PROVE Sockets'
    BY <1>27 DEF KillWhileSaving, Sockets, Die
<1>28. ASSUME Bootstrap PROVE Sockets'
    BY <1>28 DEF Bootstrap, Sockets
<1> QED
    BY <1>1, <1>2, <1>3, <1>4, <1>5, <1>6, <1>7, <1>8, <1>9, <1>10, <1>11, <1>12, <1>13, <1>14,
       <1>15, <1>16, <1>17, <1>18, <1>19, <1>20, <1>21, <1>22, <1>23, <1>24, <1>25, <1>26, <1>27, <1>28
       DEF Next, BrokerOwn

(* The broker's own: a broadcast goes to those who are in the mirror set.  *)
LEMMA BrokerStep ==
    ASSUME DaemonAssumption, IInv, Next
    PROVE  Broker'
<1> USE DEF IInv, vars, clientVars, acceptVars, castVars, brokerVars, storeVars, serverVars
<1>1. ASSUME NEW c \in Clients, Connect(c) PROVE Broker'
    BY <1>1 DEF Connect, Broker
<1>2. ASSUME NEW c \in Clients, AskToAttach(c) PROVE Broker'
    BY <1>2 DEF AskToAttach, Broker
<1>3. ASSUME NEW c \in Clients, NEW k \in {"char", "quit"}, ForwardKey(c, k) PROVE Broker'
    BY <1>3 DEF ForwardKey, Broker
<1>4. ASSUME NEW c \in Clients, NEW s \in Sizes, ForwardResize(c, s) PROVE Broker'
    BY <1>4 DEF ForwardResize, Broker
<1>5. ASSUME NEW c \in Clients, ForwardDetach(c) PROVE Broker'
    BY <1>5 DEF ForwardDetach, Broker, Leave
<1>6. ASSUME NEW c \in Clients, StopForwarding(c) PROVE Broker'
    BY <1>6 DEF StopForwarding, Broker, Leave
<1>7. ASSUME NEW c \in Clients, LoseClient(c) PROVE Broker'
    BY <1>7 DEF LoseClient, Broker, Leave
<1>8. ASSUME NEW c \in Clients, Paint(c) PROVE Broker'
    BY <1>8 DEF Paint, Broker
<1>9. ASSUME NEW c \in Clients, AcceptAttach(c) PROVE Broker'
    BY <1>9 DEF AcceptAttach, Broker
<1>10. ASSUME NEW c \in Clients, AcceptHungUp(c) PROVE Broker'
    BY <1>10 DEF AcceptHungUp, Broker
<1>11. ASSUME NEW c \in Clients, HandleAttach(c) PROVE Broker'
  <2> DEFINE size == Head(up[c]).size
             host == IF live = NoHost THEN NewHost(saved, size) ELSE live
  <2>1. size \in Sizes
    <3>1. Head(up[c]) \in Inputs /\ Head(up[c]).type = "resize"
      BY <1>11, Takes DEF HandleAttach, Stations, Station, Sockets, Waiting
    <3> QED BY <3>1 DEF Inputs, Detach
  <2>2. host \in Hosts \cup {NoHost}
    BY <2>1 DEF NewHost, Hosts, Broker, Stored, DaemonAssumption
  <2>3. bpc = "wait" /\ clients' = Having(clients, c, [size |-> size, front |-> Blank])
    BY <1>11 DEF HandleAttach
  <2>4. DOMAIN clients' \subseteq Clients /\ clients' \in [DOMAIN clients' -> Entries]
    <3>1. DOMAIN clients \subseteq Clients
      BY DEF Broker
    <3> HIDE DEF size
    <3>2. [size |-> size, front |-> Blank] \in Entries
      BY <2>1 DEF Entries, Views
    <3>3. clients \in [DOMAIN clients -> Entries]
      BY DEF Broker
    <3> QED BY <2>3, <3>1, <3>2, <3>3 DEF Having
  <2>5. Renegotiate(host, clients') \in Hosts \cup {NoHost}
    BY <2>2, <2>4, Renegotiated
  <2>6. Mirror(Renegotiate(host, clients'), clients')
    BY <1>11 DEF HandleAttach
  <2> QED BY <2>3, <2>4, <2>5, <2>6, Mirrors
<1>12. ASSUME NEW c \in Clients, HandleKey(c) PROVE Broker'
  <2>1. bpc = "wait" /\ clients' = clients /\ live \in Hosts \cup {NoHost}
    BY <1>12 DEF HandleKey, Input, Broker
  <2>2. ASSUME NEW host \in Hosts \cup {NoHost}, Mirror(host, clients) PROVE Broker'
    <3>1. DOMAIN clients' \subseteq Clients /\ clients' \in [DOMAIN clients' -> Entries]
      BY <2>1 DEF Broker
    <3> QED BY <2>1, <2>2, <3>1, Mirrors
  <2>3. CASE live # NoHost /\ Mirror([live EXCEPT !.layout = @ + 1], clients)
    <3>1. [live EXCEPT !.layout = @ + 1] \in Hosts
      BY <2>1, <2>3 DEF Hosts
    <3> QED BY <2>2, <2>3, <3>1
  <2>4. CASE Mirror(live, clients)
    BY <2>1, <2>2, <2>4
  <2>5. CASE bpc' = "leaving" /\ UNCHANGED <<live, screen, castVars>>
    BY <2>1, <2>5 DEF Broker
  <2> QED BY <1>12, <2>3, <2>4, <2>5 DEF HandleKey
<1>13. ASSUME NEW c \in Clients, HandleQuit(c) PROVE Broker'
    BY <1>13 DEF HandleQuit, Broker
<1>14. ASSUME NEW c \in Clients, HandleResize(c) PROVE Broker'
  <2>1. bpc = "wait" /\ Head(up[c]) \in Inputs /\ Head(up[c]).type = "resize"
    BY <1>14, Takes DEF HandleResize, Input, Sockets
  <2>2. Head(up[c]).size \in Sizes
    BY <2>1 DEF Inputs, Detach
  <2>3. DOMAIN clients' \subseteq Clients /\ clients' \in [DOMAIN clients' -> Entries]
    BY <1>14, <2>2, Resizes DEF HandleResize, Broker
  <2>4. Renegotiate(live, clients') \in Hosts \cup {NoHost}
    BY <2>3, Renegotiated DEF Broker
  <2> QED BY <1>14, <2>1, <2>3, <2>4, Mirrors DEF HandleResize
<1>15. ASSUME NEW c \in Clients, HandleLeave(c) PROVE Broker'
  <2>1. bpc = "wait" /\ clients' = Without(clients, {c}) /\ Mirror(Renegotiate(live, clients'), clients')
    BY <1>15 DEF HandleLeave, Input, ForgetClient
  <2>2. DOMAIN clients' \subseteq Clients /\ clients' \in [DOMAIN clients' -> Entries]
    <3>1. clients \in [DOMAIN clients -> Entries] /\ DOMAIN clients \subseteq Clients
      BY DEF Broker
    <3> QED BY <2>1, <3>1 DEF Without
  <2>3. Renegotiate(live, clients') \in Hosts \cup {NoHost}
    BY <2>2, Renegotiated DEF Broker
  <2> QED BY <2>1, <2>2, <2>3, Mirrors
<1>16. ASSUME NEW c \in Clients, MirrorTo(c) PROVE Broker'
  <2> DEFINE same == clients[c].front = frame
             lost == IF ~same /\ HungUp(c) THEN gone \cup {c} ELSE gone
             sent == IF same \/ HungUp(c) THEN clients ELSE [clients EXCEPT ![c].front = frame]
  <2>1. c \in DOMAIN clients
    BY <1>16 DEF MirrorTo, Broker
  <2>2. DOMAIN sent = DOMAIN clients /\ sent \in [DOMAIN sent -> Entries]
    BY <2>1 DEF Entries, Broker
  <2>3. lost \subseteq Clients
    BY DEF Broker
  <2>4. CASE todo' = {} /\ clients' = Without(sent, lost) /\ bpc' = "wait" /\ gone' = {} /\ frame' = Blank
    <3>1. DOMAIN clients' \subseteq Clients /\ clients' \in [DOMAIN clients' -> Entries]
      <4>1. DOMAIN sent \subseteq Clients
        BY <2>2 DEF Broker
      <4> HIDE DEF sent, lost
      <4> QED BY <2>2, <2>4, <4>1 DEF Without
    <3>2. bpc' \notin {"ending", "down"} /\ todo' \subseteq DOMAIN clients' /\ frame' \in Views
      BY <2>4 DEF Views
    <3> QED BY <1>16, <2>4, <3>1, <3>2 DEF MirrorTo, Broker
  <2>5. CASE clients' = sent /\ gone' = lost /\ UNCHANGED <<bpc, frame>>
    <3>1. clients' \in [DOMAIN clients' -> Entries] /\ DOMAIN clients' = DOMAIN clients
      BY <2>2, <2>5
    <3>2. gone' \subseteq Clients
      BY <2>3, <2>5
    <3>3. todo' \subseteq todo /\ bpc' = "mirror" /\ UNCHANGED <<frame, screen, live>>
      BY <1>16, <2>5 DEF MirrorTo
    <3> QED BY <3>1, <3>2, <3>3 DEF Broker
  <2> QED BY <1>16, <2>4, <2>5 DEF MirrorTo
<1>17. ASSUME NEW c \in Clients, EndTo(c) PROVE Broker'
    BY <1>17 DEF EndTo, Broker
<1>18. ASSUME NEW k \in Controls, NEW r \in Requests, SendRequest(k, r) PROVE Broker'
    BY <1>18 DEF SendRequest, Broker
<1>19. ASSUME NEW k \in Controls, RequestFails(k) PROVE Broker'
    BY <1>19 DEF RequestFails, Broker
<1>20. ASSUME NEW k \in Controls, AnswerControl(k) PROVE Broker'
    BY <1>20 DEF AnswerControl, Broker
<1>21. ASSUME NEW k \in Controls, HandleControl(k) PROVE Broker'
  <2>1. /\ bpc = "wait" /\ live \in Hosts \cup {NoHost}
        /\ clients' = clients /\ DOMAIN clients' \subseteq Clients /\ clients' \in [DOMAIN clients' -> Entries]
    BY <1>21 DEF HandleControl, Broker
  <2>2. CASE Mirror(live, clients)
    BY <2>1, <2>2, Mirrors
  <2>3. CASE bpc' = "leaving" /\ UNCHANGED <<live, screen, castVars>>
    BY <2>1, <2>3 DEF Broker
  <2> QED BY <1>21, <2>2, <2>3 DEF HandleControl
<1>22. ASSUME Tick PROVE Broker'
  <2>1. /\ bpc = "wait" /\ live \in Hosts \cup {NoHost}
        /\ clients' = clients /\ DOMAIN clients' \subseteq Clients /\ clients' \in [DOMAIN clients' -> Entries]
    BY <1>22 DEF Tick, Broker
  <2>2. Mirror(live, clients)
    BY <1>22 DEF Tick
  <2> QED BY <2>1, <2>2, Mirrors
<1>23. ASSUME EndDone PROVE Broker'
    BY <1>23 DEF EndDone, Broker
<1>24. ASSUME Exit PROVE Broker'
    BY <1>24 DEF Exit, Broker, Die, Views
<1>25. ASSUME Background PROVE Broker'
    BY <1>25 DEF Background, Broker
<1>26. ASSUME Kill PROVE Broker'
    BY <1>26 DEF Kill, Broker, Die, Views
<1>27. ASSUME KillWhileSaving PROVE Broker'
    BY <1>27 DEF KillWhileSaving, Broker, Die, Views
<1>28. ASSUME Bootstrap PROVE Broker'
    BY <1>28 DEF Bootstrap, Broker
<1> QED
    BY <1>1, <1>2, <1>3, <1>4, <1>5, <1>6, <1>7, <1>8, <1>9, <1>10, <1>11, <1>12, <1>13, <1>14,
       <1>15, <1>16, <1>17, <1>18, <1>19, <1>20, <1>21, <1>22, <1>23, <1>24, <1>25, <1>26, <1>27, <1>28
       DEF Next, BrokerOwn

(* Nobody is at two places.                                                *)
LEMMA StationsStep ==
    ASSUME DaemonAssumption, IInv, Next
    PROVE  Stations'
<1> USE DEF IInv, vars, clientVars, acceptVars, castVars, brokerVars, storeVars, serverVars
<1>1. ASSUME NEW c \in Clients, Connect(c) PROVE Stations'
  <2>1. CASE UNCHANGED backlog
    BY <1>1, <2>1 DEF Connect, Stations, Station, Waiting, Once, Up, Processes
  <2>2. CASE Up /\ at' = [at EXCEPT ![c] = "connecting"] /\ backlog' = Append(backlog, c)
    <3>1. at[c] = "home" /\ c \notin ToSet(backlog)
      BY <1>1 DEF Connect, Stations, Station
    <3>2. Once' /\ ToSet(backlog') = ToSet(backlog) \cup {c}
      BY <2>2, <3>1, BacklogGrows DEF Stations
    <3>3. ASSUME NEW x \in Clients PROVE Station(x)'
      BY <1>1, <2>2, <3>1, <3>2 DEF Connect, Stations, Station, Waiting, Processes, Up
    <3> QED BY <3>2, <3>3 DEF Stations
  <2> QED BY <1>1, <2>1, <2>2 DEF Connect
<1>2. ASSUME NEW c \in Clients, AskToAttach(c) PROVE Stations'
  <2>1. Resize(term[c]) \in Inputs /\ Resize(term[c]).type = "resize"
    BY DEF Inputs, Processes, Resize
  <2>2. /\ \A x \in Clients \ {c} : up'[x] = up[x]
        /\ up'[c] = IF Held(c) THEN Append(up[c], Resize(term[c])) ELSE up[c]
    BY <1>2 DEF AskToAttach, Send, Sockets
  <2>3. Append(up[c], Resize(term[c])) # <<>> /\ Head(Append(up[c], Resize(term[c]))) = IF up[c] = <<>> THEN Resize(term[c]) ELSE Head(up[c])
    BY <2>1, Comes DEF Sockets
  <2>4. Waiting(c) => Held(c)
    BY DEF Waiting, Held, Stations, Station
  <2>5. Once' /\ ToSet(backlog') = ToSet(backlog)
    BY <1>2 DEF AskToAttach, Stations, Once
  <2>6. ASSUME NEW x \in Clients \ {c} PROVE Station(x)'
    BY <1>2, <2>2, <2>5 DEF AskToAttach, Stations, Station, Waiting, Processes, Up, Sockets
  <2>7. Station(c)'
    BY <1>2, <2>1, <2>2, <2>3, <2>4, <2>5 DEF AskToAttach, Forwarding, Stations, Station, Waiting,
       Processes, Up, Sockets
  <2> QED BY <2>5, <2>6, <2>7 DEF Stations
<1>3. ASSUME NEW c \in Clients, NEW k \in {"char", "quit"}, ForwardKey(c, k) PROVE Stations'
  <2>1. Key(k) \in Inputs
    BY DEF Inputs, Processes, Key
  <2>2. /\ \A x \in Clients \ {c} : up'[x] = up[x]
        /\ up'[c] = IF Held(c) THEN Append(up[c], Key(k)) ELSE up[c]
    BY <1>3 DEF ForwardKey, Send, Sockets
  <2>3. Append(up[c], Key(k)) # <<>> /\ Head(Append(up[c], Key(k))) = IF up[c] = <<>> THEN Key(k) ELSE Head(up[c])
    BY <2>1, Comes DEF Sockets
  <2>4. Waiting(c) => Held(c)
    BY DEF Waiting, Held, Stations, Station
  <2>5. Once' /\ ToSet(backlog') = ToSet(backlog)
    BY <1>3 DEF ForwardKey, Stations, Once
  <2>6. ASSUME NEW x \in Clients \ {c} PROVE Station(x)'
    BY <1>3, <2>2, <2>5 DEF ForwardKey, Stations, Station, Waiting, Processes, Up, Sockets
  <2>7. Station(c)'
    BY <1>3, <2>1, <2>2, <2>3, <2>4, <2>5 DEF ForwardKey, Forwarding, Stations, Station, Waiting,
       Processes, Up, Sockets
  <2> QED BY <2>5, <2>6, <2>7 DEF Stations
<1>4. ASSUME NEW c \in Clients, NEW s \in Sizes, ForwardResize(c, s) PROVE Stations'
  <2>1. Resize(s) \in Inputs
    BY DEF Inputs, Processes, Resize
  <2>2. /\ \A x \in Clients \ {c} : up'[x] = up[x]
        /\ up'[c] = IF Held(c) THEN Append(up[c], Resize(s)) ELSE up[c]
    BY <1>4 DEF ForwardResize, Send, Sockets
  <2>3. Append(up[c], Resize(s)) # <<>> /\ Head(Append(up[c], Resize(s))) = IF up[c] = <<>> THEN Resize(s) ELSE Head(up[c])
    BY <2>1, Comes DEF Sockets
  <2>4. Waiting(c) => Held(c)
    BY DEF Waiting, Held, Stations, Station
  <2>5. Once' /\ ToSet(backlog') = ToSet(backlog)
    BY <1>4 DEF ForwardResize, Stations, Once
  <2>6. ASSUME NEW x \in Clients \ {c} PROVE Station(x)'
    BY <1>4, <2>2, <2>5 DEF ForwardResize, Stations, Station, Waiting, Processes, Up, Sockets
  <2>7. Station(c)'
    BY <1>4, <2>1, <2>2, <2>3, <2>4, <2>5 DEF ForwardResize, Forwarding, Stations, Station,
       Waiting, Processes, Up, Sockets
  <2> QED BY <2>5, <2>6, <2>7 DEF Stations
<1>5. ASSUME NEW c \in Clients, ForwardDetach(c) PROVE Stations'
  <2>1. Detach \in Inputs
    BY DEF Inputs, Processes
  <2>2. /\ \A x \in Clients \ {c} : up'[x] = up[x]
        /\ up'[c] = IF Held(c) THEN Append(up[c], Detach) ELSE up[c]
    BY <1>5 DEF ForwardDetach, Send, Sockets
  <2>3. Append(up[c], Detach) # <<>> /\ Head(Append(up[c], Detach)) = IF up[c] = <<>> THEN Detach ELSE Head(up[c])
    BY <2>1, Comes DEF Sockets
  <2>4. Waiting(c) => Held(c)
    BY DEF Waiting, Held, Stations, Station
  <2>5. Once' /\ ToSet(backlog') = ToSet(backlog)
    BY <1>5 DEF ForwardDetach, Leave, Stations, Once
  <2>6. ASSUME NEW x \in Clients \ {c} PROVE Station(x)'
    BY <1>5, <2>2, <2>5 DEF ForwardDetach, Leave, Stations, Station, Waiting, Processes, Up, Sockets
  <2>7. Station(c)'
    BY <1>5, <2>1, <2>2, <2>3, <2>4, <2>5 DEF ForwardDetach, Leave, Forwarding, Stations, Station,
       Waiting, Processes, Up, Sockets
  <2> QED BY <2>5, <2>6, <2>7 DEF Stations
<1>6. ASSUME NEW c \in Clients, StopForwarding(c) PROVE Stations'
  <2>1. Once' /\ ToSet(backlog') = ToSet(backlog)
    BY <1>6 DEF StopForwarding, Leave, Stations, Once
  <2>2. ASSUME NEW x \in Clients PROVE Station(x)'
    BY <1>6, <2>1 DEF StopForwarding, Leave, Stations, Station, Waiting, Processes, Sockets, Up
  <2> QED BY <2>1, <2>2 DEF Stations
<1>7. ASSUME NEW c \in Clients, LoseClient(c) PROVE Stations'
  <2>1. Once' /\ ToSet(backlog') = ToSet(backlog)
    BY <1>7 DEF LoseClient, Leave, Stations, Once
  <2>2. ASSUME NEW x \in Clients PROVE Station(x)'
    BY <1>7, <2>1 DEF LoseClient, Leave, Stations, Station, Waiting, Processes, Sockets, Up
  <2> QED BY <2>1, <2>2 DEF Stations
<1>8. ASSUME NEW c \in Clients, Paint(c) PROVE Stations'
  <2>1. Once' /\ ToSet(backlog') = ToSet(backlog)
    BY <1>8 DEF Paint, Stations, Once
  <2>2. ASSUME NEW x \in Clients PROVE Station(x)'
    BY <1>8, <2>1 DEF Paint, Stations, Station, Waiting, Processes, Sockets, Up
  <2> QED BY <2>1, <2>2 DEF Stations
<1>9. ASSUME NEW c \in Clients, AcceptAttach(c) PROVE Stations'
  <2>1. backlog # <<>> /\ Head(backlog) = c /\ backlog' = Tail(backlog) /\ Up
    BY <1>9 DEF AcceptAttach, Serves
  <2>2. Once' /\ ToSet(backlog') \subseteq ToSet(backlog) /\ c \in ToSet(backlog) /\ (c \in Clients => c \notin ToSet(backlog'))
    BY <2>1, BacklogShrinks DEF Stations
  <2>3. ASSUME NEW x \in Clients PROVE Station(x)'
    BY <1>9, <2>1, <2>2 DEF AcceptAttach, Stations, Station, Waiting, Processes, Up
  <2> QED BY <2>2, <2>3 DEF Stations
<1>10. ASSUME NEW c \in Clients, AcceptHungUp(c) PROVE Stations'
  <2>1. backlog # <<>> /\ Head(backlog) = c /\ backlog' = Tail(backlog) /\ Up
    BY <1>10 DEF AcceptHungUp, Serves
  <2>2. Once' /\ ToSet(backlog') \subseteq ToSet(backlog) /\ c \in ToSet(backlog) /\ (c \in Clients => c \notin ToSet(backlog'))
    BY <2>1, BacklogShrinks DEF Stations
  <2>3. ASSUME NEW x \in Clients PROVE Station(x)'
    BY <1>10, <2>1, <2>2 DEF AcceptHungUp, Stations, Station, Waiting, Processes, Up
  <2> QED BY <2>2, <2>3 DEF Stations
<1>11. ASSUME NEW c \in Clients, HandleAttach(c) PROVE Stations'
  <2>1. Once' /\ ToSet(backlog') = ToSet(backlog)
    BY <1>11 DEF HandleAttach, Stations, Once
  <2>2. DOMAIN clients' = DOMAIN clients \cup {c}
    BY <1>11 DEF HandleAttach, Having
  <2>3. rt[c] = "offered" /\ rt' = [rt EXCEPT ![c] = "reading"]
    BY <1>11 DEF HandleAttach
  <2>4. bpc = "wait" /\ bpc' \in {"wait", "mirror"}
    BY <1>11 DEF HandleAttach, Mirror
  <2>5. \A x \in Clients \ {c} : up'[x] = up[x]
    BY <1>11 DEF HandleAttach, Sockets
  <2>6. UNCHANGED <<at, down, shown>>
    BY <1>11 DEF HandleAttach
  <2>7. ASSUME NEW x \in Clients PROVE Station(x)'
    <3>1. CASE x = c
      BY <2>1, <2>2, <2>3, <2>6, <3>1 DEF Stations, Station, Waiting, Processes
    <3>2. CASE x # c
      BY <2>1, <2>2, <2>3, <2>4, <2>5, <2>6, <3>2 DEF Stations, Station, Waiting, Processes, Up
    <3> QED BY <3>1, <3>2
  <2> QED BY <2>1, <2>7 DEF Stations
<1>12. ASSUME NEW c \in Clients, HandleKey(c) PROVE Stations'
  <2>1. Once' /\ ToSet(backlog') = ToSet(backlog)
    BY <1>12 DEF HandleKey, Stations, Once
  <2>2. /\ DOMAIN clients' = DOMAIN clients /\ rt[c] = "reading" /\ UNCHANGED rt
        /\ bpc = "wait" /\ bpc' # "down" /\ \A x \in Clients \ {c} : up'[x] = up[x]
    BY <1>12 DEF HandleKey, Input, Mirror, Sockets
  <2>3. ASSUME NEW x \in Clients PROVE Station(x)'
    BY <1>12, <2>1, <2>2 DEF HandleKey, Stations, Station, Waiting, Processes, Sockets, Up
  <2> QED BY <2>1, <2>3 DEF Stations
<1>13. ASSUME NEW c \in Clients, HandleQuit(c) PROVE Stations'
  <2>1. Once' /\ ToSet(backlog') = ToSet(backlog)
    BY <1>13 DEF HandleQuit, Stations, Once
  <2>2. /\ DOMAIN clients' = DOMAIN clients /\ rt[c] = "reading" /\ UNCHANGED rt
        /\ bpc = "wait" /\ bpc' # "down" /\ \A x \in Clients \ {c} : up'[x] = up[x]
    BY <1>13 DEF HandleQuit, Input, Mirror, Sockets
  <2>3. ASSUME NEW x \in Clients PROVE Station(x)'
    BY <1>13, <2>1, <2>2 DEF HandleQuit, Stations, Station, Waiting, Processes, Sockets, Up
  <2> QED BY <2>1, <2>3 DEF Stations
<1>14. ASSUME NEW c \in Clients, HandleResize(c) PROVE Stations'
  <2>1. Once' /\ ToSet(backlog') = ToSet(backlog)
    BY <1>14 DEF HandleResize, Stations, Once
  <2>2. /\ DOMAIN clients' = DOMAIN clients /\ rt[c] = "reading" /\ UNCHANGED rt
        /\ bpc = "wait" /\ bpc' # "down" /\ \A x \in Clients \ {c} : up'[x] = up[x]
    BY <1>14 DEF HandleResize, Input, Mirror, Sockets
  <2>3. ASSUME NEW x \in Clients PROVE Station(x)'
    BY <1>14, <2>1, <2>2 DEF HandleResize, Stations, Station, Waiting, Processes, Sockets, Up
  <2> QED BY <2>1, <2>3 DEF Stations
<1>15. ASSUME NEW c \in Clients, HandleLeave(c) PROVE Stations'
  <2>1. Once' /\ ToSet(backlog') = ToSet(backlog)
    BY <1>15 DEF HandleLeave, Stations, Once
  <2>2. DOMAIN clients' = DOMAIN clients \ {c}
    BY <1>15 DEF HandleLeave, ForgetClient, Without
  <2>3. rt[c] = "reading" /\ rt' = [rt EXCEPT ![c] = "ended"]
    BY <1>15 DEF HandleLeave, Input
  <2>4. bpc = "wait" /\ bpc' \in {"wait", "mirror"}
    BY <1>15 DEF HandleLeave, Input, ForgetClient, Mirror
  <2>5. \A x \in Clients \ {c} : up'[x] = up[x]
    BY <1>15 DEF HandleLeave, Input, Sockets
  <2>6. UNCHANGED <<at, down, shown>>
    BY <1>15 DEF HandleLeave
  <2>7. ASSUME NEW x \in Clients PROVE Station(x)'
    <3>1. CASE x = c
      BY <2>1, <2>2, <2>3, <2>6, <3>1 DEF Stations, Station, Waiting, Processes
    <3>2. CASE x # c
      BY <2>1, <2>2, <2>3, <2>4, <2>5, <2>6, <3>2 DEF Stations, Station, Waiting, Processes, Up
    <3> QED BY <3>1, <3>2
  <2> QED BY <2>1, <2>7 DEF Stations
<1>16. ASSUME NEW c \in Clients, MirrorTo(c) PROVE Stations'
  <2>1. Once' /\ ToSet(backlog') = ToSet(backlog)
    BY <1>16 DEF MirrorTo, Stations, Once
  <2>2. c \in DOMAIN clients /\ rt[c] = "reading"
    BY <1>16 DEF MirrorTo, Broker, Stations, Station
  <2>3. DOMAIN clients' \subseteq DOMAIN clients
    BY <1>16, <2>2 DEF MirrorTo, Without, Broker
  <2>4. \A x \in Clients \ {c} : down'[x] = down[x]
    BY <1>16 DEF MirrorTo, Sockets
  <2>5. bpc = "mirror" /\ bpc' \in {"wait", "mirror"} /\ UNCHANGED <<at, up, rt, shown>>
    BY <1>16 DEF MirrorTo
  <2>6. ASSUME NEW x \in Clients PROVE Station(x)'
    <3>1. CASE x = c
      BY <2>1, <2>2, <2>3, <2>5, <3>1 DEF Stations, Station, Waiting, Processes
    <3>2. CASE x # c
      BY <2>1, <2>3, <2>4, <2>5, <3>2 DEF Stations, Station, Waiting, Processes, Up
    <3> QED BY <3>1, <3>2
  <2> QED BY <2>1, <2>6 DEF Stations
<1>17. ASSUME NEW c \in Clients, EndTo(c) PROVE Stations'
  <2>1. Once' /\ ToSet(backlog') = ToSet(backlog)
    BY <1>17 DEF EndTo, Stations, Once
  <2>2. c \in DOMAIN clients
    BY <1>17 DEF EndTo, Broker
  <2>3. ASSUME NEW x \in Clients PROVE Station(x)'
    BY <1>17, <2>1, <2>2 DEF EndTo, Stations, Station, Waiting, Processes, Sockets, Up
  <2> QED BY <2>1, <2>3 DEF Stations
<1>18. ASSUME NEW k \in Controls, NEW r \in Requests, SendRequest(k, r) PROVE Stations'
  <2>1. CASE UNCHANGED backlog
    BY <1>18, <2>1 DEF SendRequest, Stations, Station, Waiting, Once, Up
  <2>2. CASE Up /\ backlog' = Append(backlog, k)
    <3>1. k \notin Clients
      BY DEF DaemonAssumption
    <3>2. Once' /\ ToSet(backlog') = ToSet(backlog) \cup {k}
      BY <2>2, <3>1, BacklogGrows DEF Stations
    <3>3. ASSUME NEW x \in Clients PROVE Station(x)'
      BY <1>18, <2>2, <3>1, <3>2 DEF SendRequest, Stations, Station, Waiting, Up
    <3> QED BY <3>2, <3>3 DEF Stations
  <2> QED BY <1>18, <2>1, <2>2 DEF SendRequest
<1>19. ASSUME NEW k \in Controls, RequestFails(k) PROVE Stations'
  <2>1. Once' /\ ToSet(backlog') = ToSet(backlog)
    BY <1>19 DEF RequestFails, Stations, Once
  <2>2. ASSUME NEW x \in Clients PROVE Station(x)'
    BY <1>19, <2>1 DEF RequestFails, Stations, Station, Waiting, Processes, Sockets, Up
  <2> QED BY <2>1, <2>2 DEF Stations
<1>20. ASSUME NEW k \in Controls, AnswerControl(k) PROVE Stations'
  <2>1. backlog # <<>> /\ Head(backlog) = k /\ backlog' = Tail(backlog) /\ Up
    BY <1>20 DEF AnswerControl, Serves
  <2>2. Once' /\ ToSet(backlog') \subseteq ToSet(backlog) /\ k \in ToSet(backlog) /\ (k \in Clients => k \notin ToSet(backlog'))
    BY <2>1, BacklogShrinks DEF Stations
  <2>3. ASSUME NEW x \in Clients PROVE Station(x)'
    BY <1>20, <2>1, <2>2 DEF AnswerControl, Stations, Station, Waiting, Processes, Up
  <2> QED BY <2>2, <2>3 DEF Stations
<1>21. ASSUME NEW k \in Controls, HandleControl(k) PROVE Stations'
  <2>1. Once' /\ ToSet(backlog') = ToSet(backlog)
    BY <1>21 DEF HandleControl, Stations, Once
  <2>2. ASSUME NEW x \in Clients PROVE Station(x)'
    BY <1>21, <2>1 DEF HandleControl, Stations, Station, Waiting, Processes, Sockets, Up, Mirror
  <2> QED BY <2>1, <2>2 DEF Stations
<1>22. ASSUME Tick PROVE Stations'
  <2>1. Once' /\ ToSet(backlog') = ToSet(backlog)
    BY <1>22 DEF Tick, Stations, Once
  <2>2. ASSUME NEW x \in Clients PROVE Station(x)'
    BY <1>22, <2>1 DEF Tick, Stations, Station, Waiting, Processes, Sockets, Up, Mirror
  <2> QED BY <2>1, <2>2 DEF Stations
<1>23. ASSUME EndDone PROVE Stations'
  <2>1. Once' /\ ToSet(backlog') = ToSet(backlog)
    BY <1>23 DEF EndDone, Stations, Once
  <2>2. ASSUME NEW x \in Clients PROVE Station(x)'
    BY <1>23, <2>1 DEF EndDone, Stations, Station, Waiting, Processes, Sockets, Up
  <2> QED BY <2>1, <2>2 DEF Stations
<1>24. ASSUME Exit PROVE Stations'
  <2>1. /\ backlog' = <<>> /\ rt' = [x \in Clients |-> "none"] /\ up' = [x \in Clients |-> <<>>]
        /\ clients' = <<>> /\ UNCHANGED <<at, down, shown>>
    BY <1>24 DEF Exit, Die
  <2>2. ToSet(backlog') = {} /\ DOMAIN clients' = {} /\ Once'
    BY <2>1 DEF ToSet, Once
  <2>3. ASSUME NEW x \in Clients PROVE Station(x)'
    BY <2>1, <2>2 DEF Stations, Station, Waiting, Processes
  <2> QED BY <2>2, <2>3 DEF Stations
<1>25. ASSUME Background PROVE Stations'
  <2>1. Once' /\ ToSet(backlog') = ToSet(backlog)
    BY <1>25 DEF Background, Stations, Once
  <2>2. ASSUME NEW x \in Clients PROVE Station(x)'
    BY <1>25, <2>1 DEF Background, Stations, Station, Waiting, Processes, Sockets, Up
  <2> QED BY <2>1, <2>2 DEF Stations
<1>26. ASSUME Kill PROVE Stations'
  <2>1. /\ backlog' = <<>> /\ rt' = [x \in Clients |-> "none"] /\ up' = [x \in Clients |-> <<>>]
        /\ clients' = <<>> /\ UNCHANGED <<at, down, shown>>
    BY <1>26 DEF Kill, Die
  <2>2. ToSet(backlog') = {} /\ DOMAIN clients' = {} /\ Once'
    BY <2>1 DEF ToSet, Once
  <2>3. ASSUME NEW x \in Clients PROVE Station(x)'
    BY <2>1, <2>2 DEF Stations, Station, Waiting, Processes
  <2> QED BY <2>2, <2>3 DEF Stations
<1>27. ASSUME KillWhileSaving PROVE Stations'
  <2>1. /\ backlog' = <<>> /\ rt' = [x \in Clients |-> "none"] /\ up' = [x \in Clients |-> <<>>]
        /\ clients' = <<>> /\ UNCHANGED <<at, down, shown>>
    BY <1>27 DEF KillWhileSaving, Die
  <2>2. ToSet(backlog') = {} /\ DOMAIN clients' = {} /\ Once'
    BY <2>1 DEF ToSet, Once
  <2>3. ASSUME NEW x \in Clients PROVE Station(x)'
    BY <2>1, <2>2 DEF Stations, Station, Waiting, Processes
  <2> QED BY <2>2, <2>3 DEF Stations
<1>28. ASSUME Bootstrap PROVE Stations'
  <2>1. Once' /\ ToSet(backlog') = ToSet(backlog)
    BY <1>28 DEF Bootstrap, Stations, Once
  <2>2. ASSUME NEW x \in Clients PROVE Station(x)'
    BY <1>28, <2>1 DEF Bootstrap, Stations, Station, Waiting, Processes, Sockets, Up
  <2> QED BY <2>1, <2>2 DEF Stations
<1> QED
    BY <1>1, <1>2, <1>3, <1>4, <1>5, <1>6, <1>7, <1>8, <1>9, <1>10, <1>11, <1>12, <1>13, <1>14,
       <1>15, <1>16, <1>17, <1>18, <1>19, <1>20, <1>21, <1>22, <1>23, <1>24, <1>25, <1>26, <1>27, <1>28
       DEF Next, BrokerOwn

(* What is stored does not go back.                                        *)
LEMMA StoredStep ==
    ASSUME DaemonAssumption, IInv, Next
    PROVE  Stored' /\ Forward
<1> USE DEF IInv, vars, clientVars, acceptVars, castVars, brokerVars, storeVars, serverVars, Forward, EmptySession
<1>1. ASSUME NEW c \in Clients, Connect(c) PROVE Stored' /\ Forward
    BY <1>1 DEF Connect, Stored, Up
<1>2. ASSUME NEW c \in Clients, AskToAttach(c) PROVE Stored' /\ Forward
    BY <1>2 DEF AskToAttach, Stored, Up
<1>3. ASSUME NEW c \in Clients, NEW k \in {"char", "quit"}, ForwardKey(c, k)
      PROVE  Stored' /\ Forward
    BY <1>3 DEF ForwardKey, Stored, Up
<1>4. ASSUME NEW c \in Clients, NEW s \in Sizes, ForwardResize(c, s)
      PROVE  Stored' /\ Forward
    BY <1>4 DEF ForwardResize, Stored, Up
<1>5. ASSUME NEW c \in Clients, ForwardDetach(c) PROVE Stored' /\ Forward
    BY <1>5 DEF ForwardDetach, Stored, Up, Leave
<1>6. ASSUME NEW c \in Clients, StopForwarding(c) PROVE Stored' /\ Forward
    BY <1>6 DEF StopForwarding, Stored, Up, Leave
<1>7. ASSUME NEW c \in Clients, LoseClient(c) PROVE Stored' /\ Forward
    BY <1>7 DEF LoseClient, Stored, Up, Leave
<1>8. ASSUME NEW c \in Clients, Paint(c) PROVE Stored' /\ Forward
    BY <1>8 DEF Paint, Stored, Up
<1>9. ASSUME NEW c \in Clients, AcceptAttach(c) PROVE Stored' /\ Forward
    BY <1>9 DEF AcceptAttach, Stored, Up
<1>10. ASSUME NEW c \in Clients, AcceptHungUp(c) PROVE Stored' /\ Forward
    BY <1>10 DEF AcceptHungUp, Stored, Up
<1>11. ASSUME NEW c \in Clients, HandleAttach(c) PROVE Stored' /\ Forward
  <2> DEFINE size == Head(up[c]).size
             host == IF live = NoHost THEN NewHost(saved, size) ELSE live
  <2>1. clients' \in [DOMAIN clients' -> Entries]
    BY <1>11, BrokerStep DEF Broker
  <2>2. host \in Hosts \cup {NoHost} /\ (host # NoHost => host.layout >= saved)
    BY <1>11, SizeComes DEF HandleAttach, NewHost, Hosts, Broker, Stored, DaemonAssumption
  <2>3. live' = Renegotiate(host, clients') /\ UNCHANGED storeVars /\ bpc = "wait"
    BY <1>11 DEF HandleAttach, Mirror
  <2> HIDE DEF host
  <2>4. live'.layout = host.layout /\ (live' = NoHost <=> host = NoHost)
    BY <2>1, <2>2, <2>3, Renegotiated
  <2> QED BY <2>2, <2>3, <2>4 DEF Stored, Up
<1>12. ASSUME NEW c \in Clients, HandleKey(c) PROVE Stored' /\ Forward
  <2>1. UNCHANGED storeVars /\ bpc = "wait"
    BY <1>12 DEF HandleKey, Input
  <2>2. live' = live \/ (live # NoHost /\ live' = [live EXCEPT !.layout = @ + 1])
    <3>1. \A host : Mirror(host, clients) => live' = host
      BY DEF Mirror
    <3> QED BY <1>12, <3>1 DEF HandleKey
  <2>3. live # NoHost => live \in Hosts /\ live.layout >= saved
    BY DEF Broker, Stored
  <2>4. live' # NoHost => live'.layout >= saved
    BY <2>2, <2>3 DEF Stored, Hosts
  <2> QED BY <2>1, <2>4 DEF Stored, Up
<1>13. ASSUME NEW c \in Clients, HandleQuit(c) PROVE Stored' /\ Forward
  <2>1. /\ live \in Hosts /\ live.layout >= saved /\ bpc = "wait"
        /\ Save(live.layout) /\ live' = NoHost /\ bpc' = "ending"
    BY <1>13 DEF HandleQuit, Input, Broker, Stored
  <2> QED BY <2>1 DEF Save, Stored, Hosts, Up
<1>14. ASSUME NEW c \in Clients, HandleResize(c) PROVE Stored' /\ Forward
  <2>1. clients' \in [DOMAIN clients' -> Entries]
    BY <1>14, BrokerStep DEF Broker
  <2>2. live' = Renegotiate(live, clients') /\ UNCHANGED storeVars /\ bpc = "wait"
    BY <1>14 DEF HandleResize, Mirror, Input
  <2>3. live'.layout = live.layout /\ (live' = NoHost <=> live = NoHost)
    BY <2>1, <2>2, Renegotiated DEF Broker
  <2> QED BY <2>2, <2>3 DEF Stored, Up
<1>15. ASSUME NEW c \in Clients, HandleLeave(c) PROVE Stored' /\ Forward
  <2>1. clients' \in [DOMAIN clients' -> Entries]
    BY <1>15, BrokerStep DEF Broker
  <2>2. live' = Renegotiate(live, clients') /\ bpc = "wait"
    BY <1>15 DEF HandleLeave, ForgetClient, Mirror, Input
  <2>3. live'.layout = live.layout /\ (live' = NoHost <=> live = NoHost)
    BY <2>1, <2>2, Renegotiated DEF Broker
  <2>4. CASE UNCHANGED storeVars
    BY <2>2, <2>3, <2>4 DEF Stored, Up
  <2>5. CASE live # NoHost /\ Save(live.layout)
    <3>1. live \in Hosts /\ live.layout >= saved
      BY <2>5 DEF Broker, Stored
    <3> QED BY <2>2, <2>3, <2>5, <3>1 DEF Save, Stored, Hosts, Up
  <2> QED BY <1>15, <2>4, <2>5 DEF HandleLeave, ForgetClient
<1>16. ASSUME NEW c \in Clients, MirrorTo(c) PROVE Stored' /\ Forward
    BY <1>16 DEF MirrorTo, Stored, Up
<1>17. ASSUME NEW c \in Clients, EndTo(c) PROVE Stored' /\ Forward
    BY <1>17 DEF EndTo, Stored, Up
<1>18. ASSUME NEW k \in Controls, NEW r \in Requests, SendRequest(k, r)
       PROVE  Stored' /\ Forward
    BY <1>18 DEF SendRequest, Stored, Up
<1>19. ASSUME NEW k \in Controls, RequestFails(k) PROVE Stored' /\ Forward
    BY <1>19 DEF RequestFails, Stored, Up
<1>20. ASSUME NEW k \in Controls, AnswerControl(k) PROVE Stored' /\ Forward
    BY <1>20 DEF AnswerControl, Stored, Up
<1>21. ASSUME NEW k \in Controls, HandleControl(k) PROVE Stored' /\ Forward
  <2>1. bpc = "wait" /\ live' = live
    BY <1>21 DEF HandleControl, Mirror
  <2>2. CASE UNCHANGED storeVars
    BY <2>1, <2>2 DEF Stored, Up
  <2>3. CASE Save(saved)
    BY <2>1, <2>3 DEF Save, Stored, Up
  <2>4. CASE live # NoHost /\ Save(live.layout)
    <3>1. live \in Hosts /\ live.layout >= saved
      BY <2>4 DEF Broker, Stored
    <3> QED BY <2>1, <2>4, <3>1 DEF Save, Stored, Hosts, Up
  <2> QED BY <1>21, <2>2, <2>3, <2>4 DEF HandleControl
<1>22. ASSUME Tick PROVE Stored' /\ Forward
    BY <1>22 DEF Tick, Mirror, Stored, Up
<1>23. ASSUME EndDone PROVE Stored' /\ Forward
    BY <1>23 DEF EndDone, Stored, Up
<1>24. ASSUME Exit PROVE Stored' /\ Forward
    BY <1>24 DEF Exit, Die, Stored, Up
<1>25. ASSUME Background PROVE Stored' /\ Forward
    BY <1>25 DEF Background, Stored, Up
<1>26. ASSUME Kill PROVE Stored' /\ Forward
    BY <1>26 DEF Kill, Die, Stored, Up
<1>27. ASSUME KillWhileSaving PROVE Stored' /\ Forward
    BY <1>27 DEF KillWhileSaving, Die, Stored, Up
<1>28. ASSUME Bootstrap PROVE Stored' /\ Forward
    BY <1>28 DEF Bootstrap, Broker, Stored, Up
<1> QED
    BY <1>1, <1>2, <1>3, <1>4, <1>5, <1>6, <1>7, <1>8, <1>9, <1>10, <1>11, <1>12, <1>13, <1>14,
       <1>15, <1>16, <1>17, <1>18, <1>19, <1>20, <1>21, <1>22, <1>23, <1>24, <1>25, <1>26, <1>27, <1>28
       DEF Next, BrokerOwn

(* Nobody is told anything after the end.                                  *)
LEMMA EndIsLastStep ==
    ASSUME DaemonAssumption, IInv, Next
    PROVE  EndIsLast'
<1> USE DEF IInv, vars, clientVars, acceptVars, castVars, brokerVars, storeVars, serverVars
<1>1. ASSUME NEW c \in Clients, Connect(c) PROVE EndIsLast'
    BY <1>1 DEF Connect, EndIsLast
<1>2. ASSUME NEW c \in Clients, AskToAttach(c) PROVE EndIsLast'
    BY <1>2 DEF AskToAttach, EndIsLast
<1>3. ASSUME NEW c \in Clients, NEW k \in {"char", "quit"}, ForwardKey(c, k) PROVE EndIsLast'
    BY <1>3 DEF ForwardKey, EndIsLast
<1>4. ASSUME NEW c \in Clients, NEW s \in Sizes, ForwardResize(c, s) PROVE EndIsLast'
    BY <1>4 DEF ForwardResize, EndIsLast
<1>5. ASSUME NEW c \in Clients, ForwardDetach(c) PROVE EndIsLast'
    BY <1>5 DEF ForwardDetach, EndIsLast, Leave, Sockets
<1>6. ASSUME NEW c \in Clients, StopForwarding(c) PROVE EndIsLast'
    BY <1>6 DEF StopForwarding, EndIsLast, Leave, Sockets
<1>7. ASSUME NEW c \in Clients, LoseClient(c) PROVE EndIsLast'
    BY <1>7 DEF LoseClient, EndIsLast, Leave, Sockets
<1>8. ASSUME NEW c \in Clients, Paint(c) PROVE EndIsLast'
  <2>1. CASE UNCHANGED down
    BY <1>8, <2>1 DEF Paint, EndIsLast
  <2>2. CASE down[c] # <<>> /\ down' = [down EXCEPT ![c] = Tail(@)]
    <3>1. \A i \in DOMAIN Tail(down[c]) : i + 1 \in DOMAIN down[c] /\ Tail(down[c])[i] = down[c][i + 1]
      BY <2>2, Takes DEF Sockets
    <3> QED BY <1>8, <2>2, <3>1 DEF Paint, EndIsLast, Sockets
  <2>3. UNCHANGED down \/ (down[c] # <<>> /\ down' = [down EXCEPT ![c] = Tail(@)])
    BY <1>8 DEF Paint
  <2> QED BY <2>1, <2>2, <2>3
<1>9. ASSUME NEW c \in Clients, AcceptAttach(c) PROVE EndIsLast'
    BY <1>9 DEF AcceptAttach, EndIsLast
<1>10. ASSUME NEW c \in Clients, AcceptHungUp(c) PROVE EndIsLast'
    BY <1>10 DEF AcceptHungUp, EndIsLast
<1>11. ASSUME NEW c \in Clients, HandleAttach(c) PROVE EndIsLast'
  <2>1. bpc = "wait" /\ DOMAIN clients' = DOMAIN clients \cup {c} /\ UNCHANGED down
    BY <1>11 DEF HandleAttach, Having
  <2>2. down[c] = <<>>
    BY <1>11 DEF HandleAttach, Stations, Station, Waiting
  <2> QED BY <2>1, <2>2 DEF EndIsLast
<1>12. ASSUME NEW c \in Clients, HandleKey(c) PROVE EndIsLast'
  <2>1. bpc = "wait" /\ DOMAIN clients' \subseteq DOMAIN clients /\ UNCHANGED down
    BY <1>12 DEF HandleKey, Input
  <2> QED BY <2>1 DEF EndIsLast
<1>13. ASSUME NEW c \in Clients, HandleQuit(c) PROVE EndIsLast'
  <2>1. bpc = "wait" /\ DOMAIN clients' \subseteq DOMAIN clients /\ UNCHANGED down
    BY <1>13 DEF HandleQuit, Input
  <2> QED BY <2>1 DEF EndIsLast
<1>14. ASSUME NEW c \in Clients, HandleResize(c) PROVE EndIsLast'
  <2>1. bpc = "wait" /\ DOMAIN clients' \subseteq DOMAIN clients /\ UNCHANGED down
    BY <1>14 DEF HandleResize, Input
  <2> QED BY <2>1 DEF EndIsLast
<1>15. ASSUME NEW c \in Clients, HandleLeave(c) PROVE EndIsLast'
  <2>1. bpc = "wait" /\ DOMAIN clients' \subseteq DOMAIN clients /\ UNCHANGED down
    BY <1>15 DEF HandleLeave, Input, ForgetClient, Without
  <2> QED BY <2>1 DEF EndIsLast
<1>16. ASSUME NEW c \in Clients, MirrorTo(c) PROVE EndIsLast'
  <2>1. bpc = "mirror" /\ c \in DOMAIN clients /\ clients[c] \in Entries /\ frame \in Views
    BY <1>16 DEF MirrorTo, Broker
  <2>2. DOMAIN clients' \subseteq DOMAIN clients
    BY <1>16, <2>1 DEF MirrorTo, Without
  <2>3. UNCHANGED down \/ down' = [down EXCEPT ![c] = Append(@, Update(clients[c].front, frame))]
    BY <1>16 DEF MirrorTo
  <2>4. Update(clients[c].front, frame) # Ended
    BY <2>1, UpdateIsNoEnd DEF Update, Updates, Entries, Views
  <2>5. ASSUME NEW x \in DOMAIN clients', NEW i \in DOMAIN down'[x] PROVE down'[x][i] # Ended
    <3>1. \A j \in DOMAIN down[x] : down[x][j] # Ended
      BY <2>1, <2>2 DEF EndIsLast
    <3>2. down[x] \in Seq(Updates \cup {Ended})
      BY <2>2 DEF Sockets, Broker
    <3>3. CASE down'[x] = down[x]
      BY <3>1, <3>3
    <3>4. CASE down'[x] = Append(down[x], Update(clients[c].front, frame))
      BY <2>4, <3>1, <3>2, <3>4
    <3> QED BY <2>1, <2>2, <2>3, <3>3, <3>4 DEF Sockets, Broker
  <2> QED BY <2>5 DEF EndIsLast
<1>17. ASSUME NEW c \in Clients, EndTo(c) PROVE EndIsLast'
  <2>1. bpc = "ending" /\ bpc' = "ending" /\ todo' = todo \ {c} /\ UNCHANGED clients
    BY <1>17 DEF EndTo
  <2>2. UNCHANGED down \/ down' = [down EXCEPT ![c] = Append(@, Ended)]
    BY <1>17 DEF EndTo
  <2>3. \A x \in DOMAIN clients \ {c} : down'[x] = down[x]
    BY <2>2 DEF Sockets, Broker
  <2> QED BY <2>1, <2>3 DEF EndIsLast
<1>18. ASSUME NEW k \in Controls, NEW r \in Requests, SendRequest(k, r) PROVE EndIsLast'
    BY <1>18 DEF SendRequest, EndIsLast
<1>19. ASSUME NEW k \in Controls, RequestFails(k) PROVE EndIsLast'
    BY <1>19 DEF RequestFails, EndIsLast
<1>20. ASSUME NEW k \in Controls, AnswerControl(k) PROVE EndIsLast'
    BY <1>20 DEF AnswerControl, EndIsLast
<1>21. ASSUME NEW k \in Controls, HandleControl(k) PROVE EndIsLast'
  <2>1. bpc = "wait" /\ DOMAIN clients' \subseteq DOMAIN clients /\ UNCHANGED down
    BY <1>21 DEF HandleControl
  <2> QED BY <2>1 DEF EndIsLast
<1>22. ASSUME Tick PROVE EndIsLast'
  <2>1. bpc = "wait" /\ DOMAIN clients' \subseteq DOMAIN clients /\ UNCHANGED down
    BY <1>22 DEF Tick
  <2> QED BY <2>1 DEF EndIsLast
<1>23. ASSUME EndDone PROVE EndIsLast'
  <2>1. DOMAIN clients' = {}
    BY <1>23 DEF EndDone
  <2> QED BY <2>1 DEF EndIsLast
<1>24. ASSUME Exit PROVE EndIsLast'
  <2>1. DOMAIN clients' = {}
    BY <1>24 DEF Exit, Die
  <2> QED BY <2>1 DEF EndIsLast
<1>25. ASSUME Background PROVE EndIsLast'
    BY <1>25 DEF Background, EndIsLast
<1>26. ASSUME Kill PROVE EndIsLast'
  <2>1. DOMAIN clients' = {}
    BY <1>26 DEF Kill, Die
  <2> QED BY <2>1 DEF EndIsLast
<1>27. ASSUME KillWhileSaving PROVE EndIsLast'
  <2>1. DOMAIN clients' = {}
    BY <1>27 DEF KillWhileSaving, Die
  <2> QED BY <2>1 DEF EndIsLast
<1>28. ASSUME Bootstrap PROVE EndIsLast'
    BY <1>28 DEF Bootstrap, EndIsLast
<1> QED
    BY <1>1, <1>2, <1>3, <1>4, <1>5, <1>6, <1>7, <1>8, <1>9, <1>10, <1>11, <1>12, <1>13, <1>14,
       <1>15, <1>16, <1>17, <1>18, <1>19, <1>20, <1>21, <1>22, <1>23, <1>24, <1>25, <1>26, <1>27, <1>28
       DEF Next, BrokerOwn

(* As long as nothing is drawn, sent or painted a mirror stays exact.      *)
LEMMA MirrorSame ==
    ASSUME MirrorIsExact, \A x \in DOMAIN clients' : x \in DOMAIN clients /\ clients'[x].front = clients[x].front,
           UNCHANGED <<at, told, shown, down>>
    PROVE  MirrorIsExact'
<1>1. ASSUME NEW x \in DOMAIN clients', Forwarding(x)'
      PROVE  Leads(down'[x], shown'[x], clients'[x].front)
    BY <1>1, ExactLeads DEF Forwarding
<1> QED BY <1>1, ExactNext

(* A client that is not attached any more is not looked at.                *)
LEMMA MirrorWithout ==
    ASSUME MirrorIsExact, Processes, Sockets, Broker, NEW c \in Clients, UNCHANGED clients, ~Forwarding(c)',
           \A x \in Clients \ {c} : /\ at'[x] = at[x] /\ told'[x] = told[x]
                                    /\ shown'[x] = shown[x] /\ down'[x] = down[x]
    PROVE  MirrorIsExact'
<1>1. ASSUME NEW x \in DOMAIN clients', Forwarding(x)'
      PROVE  Leads(down'[x], shown'[x], clients'[x].front)
  <2>1. x \in Clients \ {c} /\ x \in DOMAIN clients /\ Forwarding(x)
    BY <1>1 DEF Broker, Forwarding
  <2> QED BY <2>1, ExactLeads
<1> QED BY <1>1, ExactNext

(* What is on the way is what the broker keeps of it.                      *)
LEMMA MirrorStep ==
    ASSUME DaemonAssumption, IInv, Next
    PROVE  MirrorIsExact'
<1> USE DEF IInv, vars, clientVars, acceptVars, castVars, brokerVars, storeVars, serverVars
<1>1. ASSUME NEW c \in Clients, Connect(c) PROVE MirrorIsExact'
  <2>1. ~Forwarding(c)'
    BY <1>1 DEF Connect, Forwarding, Processes
  <2>2. /\ UNCHANGED clients
        /\ \A x \in Clients \ {c} : /\ at'[x] = at[x] /\ told'[x] = told[x]
                                    /\ shown'[x] = shown[x] /\ down'[x] = down[x]
    BY <1>1 DEF Connect, Processes, Sockets
  <2> QED BY <2>1, <2>2, MirrorWithout
<1>2. ASSUME NEW c \in Clients, AskToAttach(c) PROVE MirrorIsExact'
  <2>1. c \notin DOMAIN clients
    BY <1>2 DEF AskToAttach, Stations, Station
  <2>2. UNCHANGED <<told, shown, down, clients>> /\ \A x \in Clients \ {c} : at'[x] = at[x]
    BY <1>2 DEF AskToAttach, Processes
  <2> QED BY <2>1, <2>2 DEF MirrorIsExact, Forwarding, Broker
<1>3. ASSUME NEW c \in Clients, NEW k \in {"char", "quit"}, ForwardKey(c, k) PROVE MirrorIsExact'
  <2>1. /\ \A x \in DOMAIN clients' : x \in DOMAIN clients /\ clients'[x].front = clients[x].front
        /\ UNCHANGED <<at, told, shown, down>>
    BY <1>3 DEF ForwardKey
  <2> QED BY <2>1, MirrorSame
<1>4. ASSUME NEW c \in Clients, NEW s \in Sizes, ForwardResize(c, s) PROVE MirrorIsExact'
  <2>1. /\ \A x \in DOMAIN clients' : x \in DOMAIN clients /\ clients'[x].front = clients[x].front
        /\ UNCHANGED <<at, told, shown, down>>
    BY <1>4 DEF ForwardResize
  <2> QED BY <2>1, MirrorSame
<1>5. ASSUME NEW c \in Clients, ForwardDetach(c) PROVE MirrorIsExact'
  <2>1. ~Forwarding(c)'
    BY <1>5 DEF ForwardDetach, Leave, Forwarding, Processes
  <2>2. /\ UNCHANGED clients
        /\ \A x \in Clients \ {c} : /\ at'[x] = at[x] /\ told'[x] = told[x]
                                    /\ shown'[x] = shown[x] /\ down'[x] = down[x]
    BY <1>5 DEF ForwardDetach, Leave, Processes, Sockets
  <2> QED BY <2>1, <2>2, MirrorWithout
<1>6. ASSUME NEW c \in Clients, StopForwarding(c) PROVE MirrorIsExact'
  <2>1. ~Forwarding(c)'
    BY <1>6 DEF StopForwarding, Leave, Forwarding, Processes
  <2>2. /\ UNCHANGED clients
        /\ \A x \in Clients \ {c} : /\ at'[x] = at[x] /\ told'[x] = told[x]
                                    /\ shown'[x] = shown[x] /\ down'[x] = down[x]
    BY <1>6 DEF StopForwarding, Leave, Processes, Sockets
  <2> QED BY <2>1, <2>2, MirrorWithout
<1>7. ASSUME NEW c \in Clients, LoseClient(c) PROVE MirrorIsExact'
  <2>1. ~Forwarding(c)'
    BY <1>7 DEF LoseClient, Leave, Forwarding, Processes
  <2>2. /\ UNCHANGED clients
        /\ \A x \in Clients \ {c} : /\ at'[x] = at[x] /\ told'[x] = told[x]
                                    /\ shown'[x] = shown[x] /\ down'[x] = down[x]
    BY <1>7 DEF LoseClient, Leave, Processes, Sockets
  <2> QED BY <2>1, <2>2, MirrorWithout
<1>8. ASSUME NEW c \in Clients, Paint(c) PROVE MirrorIsExact'
  <2>1. UNCHANGED clients /\ (told' = [told EXCEPT ![c] = TRUE] => ~Forwarding(c)')
    BY <1>8 DEF Paint, Forwarding, Processes
  <2>2. \A x \in Clients \ {c} : /\ at'[x] = at[x] /\ told'[x] = told[x]
                                 /\ shown'[x] = shown[x] /\ down'[x] = down[x]
    BY <1>8 DEF Paint, Processes, Sockets
  <2>3. CASE told' = [told EXCEPT ![c] = TRUE]
    BY <2>1, <2>2, <2>3, MirrorWithout
  <2>4. CASE /\ down[c] # <<>> /\ Head(down[c]) # Ended
             /\ down' = [down EXCEPT ![c] = Tail(@)] /\ shown' = [shown EXCEPT ![c] = Head(down[c]).to]
    <3>1. down[c] \in Seq(Updates \cup {Ended}) /\ down'[c] = Tail(down[c]) /\ shown'[c] = Head(down[c]).to
      BY <2>4 DEF Sockets, Processes
    <3>2. Forwarding(c)
      BY <1>8 DEF Paint
    <3>3. c \in DOMAIN clients => Leads(down'[c], shown'[c], clients[c].front)
      BY <2>4, <3>1, <3>2, ExactLeads, LeadsOn
    <3>4. \A x \in DOMAIN clients \ {c} : Forwarding(x)' => Leads(down'[x], shown'[x], clients[x].front)
      BY <2>2, ExactLeads DEF Forwarding, Broker
    <3>5. \A x \in DOMAIN clients' : Forwarding(x)' => Leads(down'[x], shown'[x], clients'[x].front)
      BY <2>1, <3>3, <3>4
    <3> QED BY <3>5, ExactNext
  <2> QED BY <1>8, <2>3, <2>4 DEF Paint
<1>9. ASSUME NEW c \in Clients, AcceptAttach(c) PROVE MirrorIsExact'
  <2>1. /\ \A x \in DOMAIN clients' : x \in DOMAIN clients /\ clients'[x].front = clients[x].front
        /\ UNCHANGED <<at, told, shown, down>>
    BY <1>9 DEF AcceptAttach
  <2> QED BY <2>1, MirrorSame
<1>10. ASSUME NEW c \in Clients, AcceptHungUp(c) PROVE MirrorIsExact'
  <2>1. /\ \A x \in DOMAIN clients' : x \in DOMAIN clients /\ clients'[x].front = clients[x].front
        /\ UNCHANGED <<at, told, shown, down>>
    BY <1>10 DEF AcceptHungUp
  <2> QED BY <2>1, MirrorSame
<1>11. ASSUME NEW c \in Clients, HandleAttach(c) PROVE MirrorIsExact'
  <2>1. /\ DOMAIN clients' = DOMAIN clients \cup {c} /\ clients'[c].front = Blank
        /\ \A x \in DOMAIN clients \ {c} : clients'[x] = clients[x]
    BY <1>11 DEF HandleAttach, Having
  <2>2. down[c] = <<>> /\ shown[c] = Blank
    BY <1>11 DEF HandleAttach, Stations, Station, Waiting
  <2>3. UNCHANGED <<at, told, shown, down>>
    BY <1>11 DEF HandleAttach
  <2>4. Leads(down'[c], shown'[c], clients'[c].front)
    BY <2>1, <2>2, <2>3 DEF Leads
  <2>5. \A x \in DOMAIN clients \ {c} : Forwarding(x)' => Leads(down'[x], shown'[x], clients'[x].front)
    BY <2>1, <2>3, ExactLeads DEF Forwarding
  <2> QED BY <2>1, <2>4, <2>5, ExactNext
<1>12. ASSUME NEW c \in Clients, HandleKey(c) PROVE MirrorIsExact'
  <2>1. /\ \A x \in DOMAIN clients' : x \in DOMAIN clients /\ clients'[x].front = clients[x].front
        /\ UNCHANGED <<at, told, shown, down>>
    BY <1>12 DEF HandleKey
  <2> QED BY <2>1, MirrorSame
<1>13. ASSUME NEW c \in Clients, HandleQuit(c) PROVE MirrorIsExact'
  <2>1. /\ \A x \in DOMAIN clients' : x \in DOMAIN clients /\ clients'[x].front = clients[x].front
        /\ UNCHANGED <<at, told, shown, down>>
    BY <1>13 DEF HandleQuit
  <2> QED BY <2>1, MirrorSame
<1>14. ASSUME NEW c \in Clients, HandleResize(c) PROVE MirrorIsExact'
  <2>1. \A x \in DOMAIN clients : clients'[x].front = clients[x].front
    BY <1>14 DEF HandleResize
  <2>2. DOMAIN clients' = DOMAIN clients /\ UNCHANGED <<at, told, shown, down>>
    BY <1>14 DEF HandleResize
  <2> QED BY <2>1, <2>2, MirrorSame
<1>15. ASSUME NEW c \in Clients, HandleLeave(c) PROVE MirrorIsExact'
  <2>1. /\ \A x \in DOMAIN clients' : x \in DOMAIN clients /\ clients'[x].front = clients[x].front
        /\ UNCHANGED <<at, told, shown, down>>
    BY <1>15 DEF HandleLeave, ForgetClient, Without
  <2> QED BY <2>1, MirrorSame
<1>16. ASSUME NEW c \in Clients, MirrorTo(c) PROVE MirrorIsExact'
  <2> DEFINE next == Update(clients[c].front, frame)
  <2>1. /\ bpc = "mirror" /\ c \in DOMAIN clients /\ clients[c] \in Entries /\ frame \in Views
        /\ UNCHANGED <<at, told, shown>>
    BY <1>16 DEF MirrorTo, Broker
  <2>2. CASE UNCHANGED down /\ \A x \in DOMAIN clients' : x \in DOMAIN clients /\ clients'[x] = clients[x]
    BY <2>1, <2>2, MirrorSame
  <2>3. CASE /\ down' = [down EXCEPT ![c] = Append(@, next)]
             /\ \A x \in DOMAIN clients' : x \in DOMAIN clients /\ (x # c => clients'[x] = clients[x])
             /\ c \in DOMAIN clients' => clients'[c].front = frame
    <3>1. down[c] \in Seq(Updates \cup {Ended}) /\ down'[c] = Append(down[c], next)
      BY <2>1, <2>3 DEF Sockets, Broker
    <3>2. next \in Updates /\ next # Ended /\ next.to = frame /\ Paints(next, clients[c].front)
      <4>1. next \in Updates /\ next.to = frame /\ (next.from = Blank \/ next.from = clients[c].front)
        BY <2>1 DEF Update, Updates, Entries, Views
      <4> QED BY <4>1, UpdateIsNoEnd DEF Paints
    <3>3. down[c] # <<>> => down[c][Len(down[c])] # Ended
      BY <2>1, <3>1 DEF EndIsLast
    <3> HIDE DEF next
    <3>4. Forwarding(c) => Leads(down'[c], shown[c], frame)
      BY <2>1, <3>1, <3>2, <3>3, ExactLeads, LeadsFurther
    <3>5. \A x \in DOMAIN clients \ {c} : Forwarding(x) => Leads(down'[x], shown[x], clients[x].front)
      BY <2>3, ExactLeads DEF Sockets, Broker
    <3> QED BY <2>1, <2>3, <3>4, <3>5, ExactNext DEF Forwarding
  <2>4. \/ UNCHANGED down /\ \A x \in DOMAIN clients' : x \in DOMAIN clients /\ clients'[x] = clients[x]
        \/ /\ down' = [down EXCEPT ![c] = Append(@, next)]
           /\ \A x \in DOMAIN clients' : x \in DOMAIN clients /\ (x # c => clients'[x] = clients[x])
           /\ c \in DOMAIN clients' => clients'[c].front = frame
    BY <1>16, <2>1 DEF MirrorTo, Without, Entries
  <2> QED BY <2>2, <2>3, <2>4
<1>17. ASSUME NEW c \in Clients, EndTo(c) PROVE MirrorIsExact'
  <2>1. bpc = "ending" /\ c \in todo /\ UNCHANGED <<at, told, shown, clients>>
    BY <1>17 DEF EndTo
  <2>2. CASE UNCHANGED down
    BY <2>1, <2>2, MirrorSame
  <2>3. CASE down' = [down EXCEPT ![c] = Append(@, Ended)]
    <3>1. down[c] \in Seq(Updates \cup {Ended}) /\ down'[c] = Append(down[c], Ended)
      BY <2>3 DEF Sockets
    <3>2. c \in DOMAIN clients /\ \A i \in DOMAIN down[c] : down[c][i] # Ended
      BY <2>1 DEF EndIsLast, Broker
    <3>3. down[c] # <<>> => down[c][Len(down[c])] # Ended
      BY <3>1, <3>2
    <3>4. Paints(Ended, clients[c].front)
      BY DEF Paints
    <3>5. Forwarding(c) => Leads(down'[c], shown[c], clients[c].front)
      BY <3>1, <3>2, <3>3, <3>4, ExactLeads, LeadsFurther
    <3>6. \A x \in DOMAIN clients \ {c} : Forwarding(x) => Leads(down'[x], shown[x], clients[x].front)
      BY <2>3, ExactLeads DEF Sockets, Broker
    <3> QED BY <2>1, <3>5, <3>6, ExactNext DEF Forwarding
  <2> QED BY <1>17, <2>2, <2>3 DEF EndTo
<1>18. ASSUME NEW k \in Controls, NEW r \in Requests, SendRequest(k, r) PROVE MirrorIsExact'
  <2>1. /\ \A x \in DOMAIN clients' : x \in DOMAIN clients /\ clients'[x].front = clients[x].front
        /\ UNCHANGED <<at, told, shown, down>>
    BY <1>18 DEF SendRequest
  <2> QED BY <2>1, MirrorSame
<1>19. ASSUME NEW k \in Controls, RequestFails(k) PROVE MirrorIsExact'
  <2>1. /\ \A x \in DOMAIN clients' : x \in DOMAIN clients /\ clients'[x].front = clients[x].front
        /\ UNCHANGED <<at, told, shown, down>>
    BY <1>19 DEF RequestFails
  <2> QED BY <2>1, MirrorSame
<1>20. ASSUME NEW k \in Controls, AnswerControl(k) PROVE MirrorIsExact'
  <2>1. /\ \A x \in DOMAIN clients' : x \in DOMAIN clients /\ clients'[x].front = clients[x].front
        /\ UNCHANGED <<at, told, shown, down>>
    BY <1>20 DEF AnswerControl
  <2> QED BY <2>1, MirrorSame
<1>21. ASSUME NEW k \in Controls, HandleControl(k) PROVE MirrorIsExact'
  <2>1. /\ \A x \in DOMAIN clients' : x \in DOMAIN clients /\ clients'[x].front = clients[x].front
        /\ UNCHANGED <<at, told, shown, down>>
    BY <1>21 DEF HandleControl
  <2> QED BY <2>1, MirrorSame
<1>22. ASSUME Tick PROVE MirrorIsExact'
  <2>1. /\ \A x \in DOMAIN clients' : x \in DOMAIN clients /\ clients'[x].front = clients[x].front
        /\ UNCHANGED <<at, told, shown, down>>
    BY <1>22 DEF Tick
  <2> QED BY <2>1, MirrorSame
<1>23. ASSUME EndDone PROVE MirrorIsExact'
  <2>1. DOMAIN clients' = {}
    BY <1>23 DEF EndDone
  <2> QED BY <2>1 DEF MirrorIsExact
<1>24. ASSUME Exit PROVE MirrorIsExact'
  <2>1. DOMAIN clients' = {}
    BY <1>24 DEF Exit, Die
  <2> QED BY <2>1 DEF MirrorIsExact
<1>25. ASSUME Background PROVE MirrorIsExact'
  <2>1. /\ \A x \in DOMAIN clients' : x \in DOMAIN clients /\ clients'[x].front = clients[x].front
        /\ UNCHANGED <<at, told, shown, down>>
    BY <1>25 DEF Background
  <2> QED BY <2>1, MirrorSame
<1>26. ASSUME Kill PROVE MirrorIsExact'
  <2>1. DOMAIN clients' = {}
    BY <1>26 DEF Kill, Die
  <2> QED BY <2>1 DEF MirrorIsExact
<1>27. ASSUME KillWhileSaving PROVE MirrorIsExact'
  <2>1. DOMAIN clients' = {}
    BY <1>27 DEF KillWhileSaving, Die
  <2> QED BY <2>1 DEF MirrorIsExact
<1>28. ASSUME Bootstrap PROVE MirrorIsExact'
  <2>1. /\ \A x \in DOMAIN clients' : x \in DOMAIN clients /\ clients'[x].front = clients[x].front
        /\ UNCHANGED <<at, told, shown, down>>
    BY <1>28 DEF Bootstrap
  <2> QED BY <2>1, MirrorSame
<1> QED
    BY <1>1, <1>2, <1>3, <1>4, <1>5, <1>6, <1>7, <1>8, <1>9, <1>10, <1>11, <1>12, <1>13, <1>14,
       <1>15, <1>16, <1>17, <1>18, <1>19, <1>20, <1>21, <1>22, <1>23, <1>24, <1>25, <1>26, <1>27, <1>28
       DEF Next, BrokerOwn

(* Whoever comes, resizes or leaves has the size negotiated; nobody else      *)
(* changes it.                                                             *)
LEMMA FitsStep ==
    ASSUME DaemonAssumption, IInv, Next
    PROVE  FitsEveryClient'
<1> USE DEF IInv, vars, clientVars, acceptVars, castVars, brokerVars, storeVars, serverVars
<1>1. ASSUME NEW c \in Clients, Connect(c) PROVE FitsEveryClient'
    BY <1>1 DEF Connect, FitsEveryClient
<1>2. ASSUME NEW c \in Clients, AskToAttach(c) PROVE FitsEveryClient'
    BY <1>2 DEF AskToAttach, FitsEveryClient
<1>3. ASSUME NEW c \in Clients, NEW k \in {"char", "quit"}, ForwardKey(c, k) PROVE FitsEveryClient'
    BY <1>3 DEF ForwardKey, FitsEveryClient
<1>4. ASSUME NEW c \in Clients, NEW s \in Sizes, ForwardResize(c, s) PROVE FitsEveryClient'
    BY <1>4 DEF ForwardResize, FitsEveryClient
<1>5. ASSUME NEW c \in Clients, ForwardDetach(c) PROVE FitsEveryClient'
    BY <1>5 DEF ForwardDetach, FitsEveryClient, Leave
<1>6. ASSUME NEW c \in Clients, StopForwarding(c) PROVE FitsEveryClient'
    BY <1>6 DEF StopForwarding, FitsEveryClient, Leave
<1>7. ASSUME NEW c \in Clients, LoseClient(c) PROVE FitsEveryClient'
    BY <1>7 DEF LoseClient, FitsEveryClient, Leave
<1>8. ASSUME NEW c \in Clients, Paint(c) PROVE FitsEveryClient'
    BY <1>8 DEF Paint, FitsEveryClient
<1>9. ASSUME NEW c \in Clients, AcceptAttach(c) PROVE FitsEveryClient'
    BY <1>9 DEF AcceptAttach, FitsEveryClient
<1>10. ASSUME NEW c \in Clients, AcceptHungUp(c) PROVE FitsEveryClient'
    BY <1>10 DEF AcceptHungUp, FitsEveryClient
<1>11. ASSUME NEW c \in Clients, HandleAttach(c) PROVE FitsEveryClient'
  <2> DEFINE host == IF live = NoHost THEN NewHost(saved, Head(up[c]).size) ELSE live
  <2>1. clients' \in [DOMAIN clients' -> Entries]
    BY <1>11, BrokerStep DEF Broker
  <2>2. host \in Hosts
    BY <1>11, SizeComes DEF HandleAttach, NewHost, Hosts, Broker, Stored, DaemonAssumption
  <2>3. live' = Renegotiate(host, clients') /\ host # NoHost
    BY <1>11, <2>2 DEF HandleAttach, Mirror, Hosts, NoHost
  <2> HIDE DEF host
  <2> QED BY <2>1, <2>2, <2>3, Renegotiated DEF FitsEveryClient
<1>12. ASSUME NEW c \in Clients, HandleKey(c) PROVE FitsEveryClient'
  <2>1. clients' = clients
    BY <1>12 DEF HandleKey
  <2>2. live' = live \/ (live # NoHost /\ live' = [live EXCEPT !.layout = @ + 1])
    <3>1. \A host : Mirror(host, clients) => live' = host
      BY DEF Mirror
    <3> QED BY <1>12, <3>1 DEF HandleKey
  <2>3. live # NoHost => live \in Hosts
    BY DEF Broker
  <2>4. live' # NoHost => live # NoHost /\ live'.cols = live.cols /\ live'.rows = live.rows
    BY <2>2, <2>3 DEF Hosts
  <2> QED BY <2>1, <2>4 DEF FitsEveryClient
<1>13. ASSUME NEW c \in Clients, HandleQuit(c) PROVE FitsEveryClient'
    BY <1>13 DEF HandleQuit, FitsEveryClient
<1>14. ASSUME NEW c \in Clients, HandleResize(c) PROVE FitsEveryClient'
  <2>1. clients' \in [DOMAIN clients' -> Entries]
    BY <1>14, BrokerStep DEF Broker
  <2>2. live' = Renegotiate(live, clients')
    BY <1>14 DEF HandleResize, Mirror
  <2> QED BY <2>1, <2>2, Renegotiated DEF FitsEveryClient, Broker
<1>15. ASSUME NEW c \in Clients, HandleLeave(c) PROVE FitsEveryClient'
  <2>1. clients' \in [DOMAIN clients' -> Entries]
    BY <1>15, BrokerStep DEF Broker
  <2>2. live' = Renegotiate(live, clients')
    BY <1>15 DEF HandleLeave, Mirror, ForgetClient
  <2> QED BY <2>1, <2>2, Renegotiated DEF FitsEveryClient, Broker
<1>16. ASSUME NEW c \in Clients, MirrorTo(c) PROVE FitsEveryClient'
  <2> DEFINE lost == IF clients[c].front # frame /\ HungUp(c) THEN gone \cup {c} ELSE gone
             sent == IF clients[c].front = frame \/ HungUp(c) THEN clients
                     ELSE [clients EXCEPT ![c].front = frame]
  <2>1. c \in DOMAIN clients /\ live' = live
    BY <1>16 DEF MirrorTo, Broker
  <2>2. DOMAIN sent = DOMAIN clients /\ \A x \in DOMAIN clients : sent[x].size = clients[x].size
    BY <2>1 DEF Entries, Broker
  <2>3. clients' = Without(sent, lost) \/ clients' = sent
    BY <1>16 DEF MirrorTo
  <2> HIDE DEF sent, lost
  <2>4. \A x \in DOMAIN clients' : x \in DOMAIN clients /\ clients'[x].size = clients[x].size
    BY <2>2, <2>3 DEF Without
  <2> QED BY <2>1, <2>4 DEF FitsEveryClient
<1>17. ASSUME NEW c \in Clients, EndTo(c) PROVE FitsEveryClient'
    BY <1>17 DEF EndTo, FitsEveryClient
<1>18. ASSUME NEW k \in Controls, NEW r \in Requests, SendRequest(k, r) PROVE FitsEveryClient'
    BY <1>18 DEF SendRequest, FitsEveryClient
<1>19. ASSUME NEW k \in Controls, RequestFails(k) PROVE FitsEveryClient'
    BY <1>19 DEF RequestFails, FitsEveryClient
<1>20. ASSUME NEW k \in Controls, AnswerControl(k) PROVE FitsEveryClient'
    BY <1>20 DEF AnswerControl, FitsEveryClient
<1>21. ASSUME NEW k \in Controls, HandleControl(k) PROVE FitsEveryClient'
  <2>1. clients' = clients /\ live' = live
    BY <1>21 DEF HandleControl, Mirror
  <2> QED BY <2>1 DEF FitsEveryClient
<1>22. ASSUME Tick PROVE FitsEveryClient'
  <2>1. clients' = clients /\ live' = live
    BY <1>22 DEF Tick, Mirror
  <2> QED BY <2>1 DEF FitsEveryClient
<1>23. ASSUME EndDone PROVE FitsEveryClient'
    BY <1>23 DEF EndDone, FitsEveryClient
<1>24. ASSUME Exit PROVE FitsEveryClient'
    BY <1>24 DEF Exit, FitsEveryClient, Die
<1>25. ASSUME Background PROVE FitsEveryClient'
    BY <1>25 DEF Background, FitsEveryClient
<1>26. ASSUME Kill PROVE FitsEveryClient'
    BY <1>26 DEF Kill, FitsEveryClient, Die
<1>27. ASSUME KillWhileSaving PROVE FitsEveryClient'
    BY <1>27 DEF KillWhileSaving, FitsEveryClient, Die
<1>28. ASSUME Bootstrap PROVE FitsEveryClient'
    BY <1>28 DEF Bootstrap, FitsEveryClient
<1> QED
    BY <1>1, <1>2, <1>3, <1>4, <1>5, <1>6, <1>7, <1>8, <1>9, <1>10, <1>11, <1>12, <1>13, <1>14,
       <1>15, <1>16, <1>17, <1>18, <1>19, <1>20, <1>21, <1>22, <1>23, <1>24, <1>25, <1>26, <1>27, <1>28
       DEF Next, BrokerOwn

(* The mirror set becomes empty by a client that leaves, which saves, or by *)
(* a failed write to one whose reader goes on.                             *)
LEMMA UnwatchedStep ==
    ASSUME DaemonAssumption, IInv, Next
    PROVE  UnwatchedIsSaved'
<1> USE DEF IInv, vars, clientVars, acceptVars, castVars, brokerVars, storeVars, serverVars
<1>1. ASSUME NEW c \in Clients, Connect(c) PROVE UnwatchedIsSaved'
    BY <1>1 DEF Connect, UnwatchedIsSaved
<1>2. ASSUME NEW c \in Clients, AskToAttach(c) PROVE UnwatchedIsSaved'
    BY <1>2 DEF AskToAttach, UnwatchedIsSaved
<1>3. ASSUME NEW c \in Clients, NEW k \in {"char", "quit"}, ForwardKey(c, k) PROVE UnwatchedIsSaved'
    BY <1>3 DEF ForwardKey, UnwatchedIsSaved
<1>4. ASSUME NEW c \in Clients, NEW s \in Sizes, ForwardResize(c, s) PROVE UnwatchedIsSaved'
    BY <1>4 DEF ForwardResize, UnwatchedIsSaved
<1>5. ASSUME NEW c \in Clients, ForwardDetach(c) PROVE UnwatchedIsSaved'
    BY <1>5 DEF ForwardDetach, UnwatchedIsSaved, Leave
<1>6. ASSUME NEW c \in Clients, StopForwarding(c) PROVE UnwatchedIsSaved'
    BY <1>6 DEF StopForwarding, UnwatchedIsSaved, Leave
<1>7. ASSUME NEW c \in Clients, LoseClient(c) PROVE UnwatchedIsSaved'
    BY <1>7 DEF LoseClient, UnwatchedIsSaved, Leave
<1>8. ASSUME NEW c \in Clients, Paint(c) PROVE UnwatchedIsSaved'
    BY <1>8 DEF Paint, UnwatchedIsSaved
<1>9. ASSUME NEW c \in Clients, AcceptAttach(c) PROVE UnwatchedIsSaved'
  <2>1. rt' = [rt EXCEPT ![c] = "offered"] /\ UNCHANGED <<live, clients, bpc, storeVars>>
    BY <1>9 DEF AcceptAttach
  <2> QED BY <2>1 DEF UnwatchedIsSaved, Processes
<1>10. ASSUME NEW c \in Clients, AcceptHungUp(c) PROVE UnwatchedIsSaved'
    BY <1>10 DEF AcceptHungUp, UnwatchedIsSaved
<1>11. ASSUME NEW c \in Clients, HandleAttach(c) PROVE UnwatchedIsSaved'
  <2>1. rt' = [rt EXCEPT ![c] = "reading"]
    BY <1>11 DEF HandleAttach
  <2> QED BY <2>1 DEF UnwatchedIsSaved, Processes
<1>12. ASSUME NEW c \in Clients, HandleKey(c) PROVE UnwatchedIsSaved'
  <2>1. rt[c] = "reading" /\ rt' = rt
    BY <1>12 DEF HandleKey, Input
  <2> QED BY <2>1 DEF UnwatchedIsSaved
<1>13. ASSUME NEW c \in Clients, HandleQuit(c) PROVE UnwatchedIsSaved'
  <2>1. live' = NoHost
    BY <1>13 DEF HandleQuit
  <2> QED BY <2>1 DEF UnwatchedIsSaved
<1>14. ASSUME NEW c \in Clients, HandleResize(c) PROVE UnwatchedIsSaved'
  <2>1. rt[c] = "reading" /\ rt' = rt
    BY <1>14 DEF HandleResize, Input
  <2> QED BY <2>1 DEF UnwatchedIsSaved
<1>15. ASSUME NEW c \in Clients, HandleLeave(c) PROVE UnwatchedIsSaved'
  <2>1. clients' \in [DOMAIN clients' -> Entries]
    BY <1>15, BrokerStep DEF Broker
  <2>2. live' = Renegotiate(live, clients')
    BY <1>15 DEF HandleLeave, Mirror, ForgetClient
  <2>3. live'.layout = live.layout /\ (live' = NoHost <=> live = NoHost)
    BY <2>1, <2>2, Renegotiated DEF Broker
  <2>4. live # NoHost /\ clients' = <<>> => saved' = live.layout /\ (disk' = saved' \/ failed')
    BY <1>15 DEF HandleLeave, ForgetClient, Save
  <2> QED BY <2>3, <2>4 DEF UnwatchedIsSaved
<1>16. ASSUME NEW c \in Clients, MirrorTo(c) PROVE UnwatchedIsSaved'
  <2>1. c \in Clients /\ rt[c] = "reading" /\ rt' = rt
    BY <1>16 DEF MirrorTo, Broker, Stations, Station
  <2> QED BY <2>1 DEF UnwatchedIsSaved
<1>17. ASSUME NEW c \in Clients, EndTo(c) PROVE UnwatchedIsSaved'
  <2>1. bpc' = "ending"
    BY <1>17 DEF EndTo
  <2> QED BY <2>1 DEF UnwatchedIsSaved
<1>18. ASSUME NEW k \in Controls, NEW r \in Requests, SendRequest(k, r) PROVE UnwatchedIsSaved'
    BY <1>18 DEF SendRequest, UnwatchedIsSaved
<1>19. ASSUME NEW k \in Controls, RequestFails(k) PROVE UnwatchedIsSaved'
    BY <1>19 DEF RequestFails, UnwatchedIsSaved
<1>20. ASSUME NEW k \in Controls, AnswerControl(k) PROVE UnwatchedIsSaved'
    BY <1>20 DEF AnswerControl, UnwatchedIsSaved
<1>21. ASSUME NEW k \in Controls, HandleControl(k) PROVE UnwatchedIsSaved'
  <2>1. bpc = "wait" /\ clients' = clients /\ live' = live /\ rt' = rt
    BY <1>21 DEF HandleControl, Mirror
  <2>2. CASE UNCHANGED storeVars
    BY <2>1, <2>2 DEF UnwatchedIsSaved
  <2>3. CASE Save(saved)
    BY <2>1, <2>3 DEF Save, UnwatchedIsSaved, Stored, Up
  <2>4. CASE Save(live.layout)
    BY <2>1, <2>4 DEF Save, UnwatchedIsSaved
  <2> QED BY <1>21, <2>2, <2>3, <2>4 DEF HandleControl
<1>22. ASSUME Tick PROVE UnwatchedIsSaved'
  <2>1. bpc = "wait" /\ UNCHANGED <<clients, rt, storeVars>> /\ live' = live
    BY <1>22 DEF Tick, Mirror
  <2> QED BY <2>1 DEF UnwatchedIsSaved
<1>23. ASSUME EndDone PROVE UnwatchedIsSaved'
  <2>1. live' = NoHost
    BY <1>23 DEF EndDone, Broker
  <2> QED BY <2>1 DEF UnwatchedIsSaved
<1>24. ASSUME Exit PROVE UnwatchedIsSaved'
    BY <1>24 DEF Exit, UnwatchedIsSaved, Die
<1>25. ASSUME Background PROVE UnwatchedIsSaved'
    BY <1>25 DEF Background, UnwatchedIsSaved
<1>26. ASSUME Kill PROVE UnwatchedIsSaved'
    BY <1>26 DEF Kill, UnwatchedIsSaved, Die
<1>27. ASSUME KillWhileSaving PROVE UnwatchedIsSaved'
    BY <1>27 DEF KillWhileSaving, UnwatchedIsSaved, Die
<1>28. ASSUME Bootstrap PROVE UnwatchedIsSaved'
  <2>1. live' = NoHost
    BY <1>28 DEF Bootstrap, Broker
  <2> QED BY <2>1 DEF UnwatchedIsSaved
<1> QED
    BY <1>1, <1>2, <1>3, <1>4, <1>5, <1>6, <1>7, <1>8, <1>9, <1>10, <1>11, <1>12, <1>13, <1>14,
       <1>15, <1>16, <1>17, <1>18, <1>19, <1>20, <1>21, <1>22, <1>23, <1>24, <1>25, <1>26, <1>27, <1>28
       DEF Next, BrokerOwn

-----------------------------------------------------------------------------
(* The theorems.                                                           *)

(* The invariant holds when the daemon has started.                        *)
LEMMA InitIInv ==
    ASSUME DaemonAssumption, Init
    PROVE  IInv
<1> USE DEF Init
<1>1. Processes
    BY DEF Processes, DaemonAssumption, Views
<1>2. Sockets
    BY DEF Sockets, DaemonAssumption
<1>3. clients = <<>> /\ DOMAIN clients = {} /\ clients \in [DOMAIN clients -> Entries]
    OBVIOUS
<1>4. Broker
    BY <1>3 DEF Broker, Views
<1>5. Stations
  <2>1. ToSet(backlog) = {} /\ DOMAIN backlog = {}
    BY DEF ToSet
  <2>2. clients = <<>> /\ DOMAIN clients = {}
    BY <1>3
  <2>3. \A c \in Clients : Station(c)
    BY <2>1, <2>2 DEF Station, Waiting
  <2> QED BY <2>1, <2>3 DEF Stations, Once
<1>6. Stored
    BY DEF Stored, LastSession
<1>7. EndIsLast /\ FitsEveryClient /\ MirrorIsExact /\ UnwatchedIsSaved
    BY <1>3 DEF EndIsLast, FitsEveryClient, MirrorIsExact, UnwatchedIsSaved
<1> QED BY <1>1, <1>2, <1>4, <1>5, <1>6, <1>7 DEF IInv

(* A step in which nothing changes keeps the invariant.                    *)
LEMMA StutterIInv ==
    ASSUME IInv, UNCHANGED vars
    PROVE  IInv'
<1> USE DEF vars, clientVars, acceptVars, castVars, brokerVars, storeVars
<1>1. Processes' /\ Sockets' /\ Broker' /\ Stored'
    BY DEF IInv, Processes, Sockets, Broker, Stored, Up
<1>2. Stations'
    BY DEF IInv, Stations, Once, Station, Waiting, Up
<1>3. EndIsLast' /\ FitsEveryClient' /\ UnwatchedIsSaved'
    BY DEF IInv, EndIsLast, FitsEveryClient, UnwatchedIsSaved
<1>4. MirrorIsExact'
    BY DEF IInv, MirrorIsExact, Forwarding, Paints
<1> QED BY <1>1, <1>2, <1>3, <1>4 DEF IInv

(* Every step keeps the invariant, for all clients, requests and sizes.    *)
LEMMA NextIInv ==
    ASSUME DaemonAssumption, IInv, Next
    PROVE  IInv'
  BY ProcessesStep, SocketsStep, BrokerStep, StationsStep, StoredStep, EndIsLastStep,
     FitsStep, MirrorStep, UnwatchedStep DEF IInv

(* The invariant always holds.                                             *)
LEMMA Invariance == Spec => []IInv
<1>1. Init => IInv
    BY InitIInv, DaemonAssumption
<1>2. IInv /\ [Next]_vars => IInv'
    BY StutterIInv, NextIInv, DaemonAssumption
<1> QED BY <1>1, <1>2, PTL DEF Spec

(* Every variable of the daemon and its clients keeps its type, and no     *)
(* socket holds more than it can.                                          *)
THEOREM DaemonTypes == Spec => []DaemonTypeOK
<1>1. IInv => DaemonTypeOK
  <2> SUFFICES ASSUME IInv PROVE DaemonTypeOK
    OBVIOUS
  <2>1. live = NoHost \/ live.layout \in Nat
    BY DEF IInv, Broker, Hosts
  <2>2. ToSet(backlog) \subseteq Clients \cup Controls
    BY DEF IInv, Processes, ToSet
  <2> QED BY <2>1, <2>2 DEF IInv, Processes, Sockets, Broker, Stored, DaemonTypeOK
<1> QED BY <1>1, Invariance, PTL

(* The broker's front buffer of each client is what its terminal will show *)
(* when all is painted, however many clients come, go and block (broadcast *)
(* computes each diff from the right frame).                               *)
THEOREM MirrorsAreExact == Spec => []MirrorIsExact
<1>1. IInv => MirrorIsExact
    BY DEF IInv
<1> QED BY <1>1, Invariance, PTL

(* The session fits the terminal of everyone in the mirror set             *)
(* (renegotiate).                                                          *)
THEOREM SessionFits == Spec => []FitsEveryClient
<1>1. IInv => FitsEveryClient
    BY DEF IInv
<1> QED BY <1>1, Invariance, PTL

(* A session that nobody watches is stored as it is and in the file unless *)
(* the write failed, or a reader that is still to report brings it there   *)
(* (forget_client).                                                        *)
THEOREM UnwatchedSessionIsSaved == Spec => []UnwatchedIsSaved
<1>1. IInv => UnwatchedIsSaved
    BY DEF IInv
<1> QED BY <1>1, Invariance, PTL

(* The session file never goes back to an older session; a write that      *)
(* fails or is killed may cut it short (Daemon's save, shutdown, restart). *)
THEOREM DiskGoesForward == Spec => DiskNeverGoesBack
<1>1. IInv /\ [Next]_vars => [Forward]_vars
    BY StoredStep, DaemonAssumption
<1> QED BY <1>1, Invariance, PTL DEF Spec, DiskNeverGoesBack, Forward
=============================================================================
