--------------------------- MODULE DocumentProofs ---------------------------
(***************************************************************************)
(* Theorems about Document, for every set of bytes, of operations and of   *)
(* initial files, and every value of the bounds; then that its redo undoes *)
(* its undo, and that it implements CrashSafeText.                         *)
(***************************************************************************)
EXTENDS Document, SequenceTheorems, TLAPS

USE DocumentAssumption, MaxNodesAssumption

-----------------------------------------------------------------------------
\* What the operators return.

\* Replacing bytes of a text gives a text.
LEMMA ReplaceType ==
  ASSUME NEW op \in EditOp, NEW rope \in Content, Applies(op, rope)
  PROVE  Replace(op, rope) \in Content
<1> DEFINE before == SubSeq(rope, 1, op.start)
           after == SubSeq(rope, op.start + op.oldLen + 1, Len(rope))
<1>1. op.start \in Nat /\ op.oldLen \in Nat /\ op.text \in Seq(Byte)
  BY DEF EditOp, Content
<1>2. rope \in Seq(Byte) /\ Len(rope) \in Nat /\ op.start + op.oldLen <= Len(rope)
  BY DEF Content, Applies
<1>3. before \in Seq(Byte)
  <2>1. \A i \in 1 .. op.start : rope[i] \in Byte
    BY <1>1, <1>2
  <2> QED
    BY <1>1, <2>1, SubSeqProperties
<1>4. after \in Seq(Byte)
  <2>1. \A i \in op.start + op.oldLen + 1 .. Len(rope) : rope[i] \in Byte
    BY <1>1, <1>2
  <2> QED
    BY <1>1, <1>2, <2>1, SubSeqProperties
<1>5. before \o op.text \in Seq(Byte)
  BY <1>1, <1>3, ConcatProperties
<1>6. (before \o op.text) \o after \in Seq(Byte)
  BY <1>4, <1>5, ConcatProperties
<1> QED
  BY <1>6 DEF Replace, Content

\* The arena is well typed and has the shape of a tree.
Arena == nodes \in Seq(Node) /\ TreeShape

\* A fresh history is a tree of one node, which holds the text.
LEMMA ResetArena ==
  ASSUME NEW rope \in Content, Reset(rope)
  PROVE  Arena' /\ Rope' = rope
<1>1. nodes' = << [rope |-> rope, parent |-> 0, lastChild |-> 0] >> /\ current' = 1
  BY DEF Reset, Rooted
<1>2. nodes' \in Seq(Node) /\ Len(nodes') = 1 /\ DOMAIN nodes' = {1}
  BY <1>1 DEF Node
<1> QED
  BY <1>1, <1>2 DEF Arena, TreeShape, NodeIds, Children, Rope

\* The live text is a text.
LEMMA RopeType ==
  ASSUME Arena
  PROVE  Rope \in Content
<1>1. nodes \in Seq(Node) /\ current \in 1 .. Len(nodes)
  BY DEF Arena, TreeShape, NodeIds
<1>2. nodes[current] \in Node
  BY <1>1
<1> QED
  BY <1>2 DEF Rope, Node

LEMMA NextRopeType ==
  ASSUME Arena'
  PROVE  Rope' \in Content
<1>1. nodes' \in Seq(Node) /\ current' \in 1 .. Len(nodes')
  BY DEF Arena, TreeShape, NodeIds
<1>2. nodes'[current'] \in Node
  BY <1>1
<1> QED
  BY <1>2 DEF Rope, Node

\* Remembering another branch keeps a node a node.
LEMMA RememberType ==
  ASSUME NEW node \in Node, NEW child \in Nat
  PROVE  /\ [node EXCEPT !.lastChild = child] \in Node
         /\ [node EXCEPT !.lastChild = child].rope = node.rope
         /\ [node EXCEPT !.lastChild = child].parent = node.parent
         /\ [node EXCEPT !.lastChild = child].lastChild = child
BY DEF Node

\* Recording adds a leaf under the current node and leaves the rest in place.
LEMMA RecordArena ==
  ASSUME Arena, NEW rope \in Content, Record(rope)
  PROVE  Arena' /\ Rope' = rope
<1> DEFINE n == Len(nodes)
           linked == [nodes EXCEPT ![current].lastChild = n + 1]
           leaf == [rope |-> rope, parent |-> current, lastChild |-> 0]
<1>1. nodes \in Seq(Node) /\ n \in Nat /\ current \in 1 .. n
  BY DEF Arena, TreeShape, NodeIds
<1>2. leaf \in Node
  <2>1. current \in Nat
    BY <1>1
  <2> QED
    BY <2>1 DEF Node
<1>3. nodes[current] \in Node
  BY <1>1
<1>4. [nodes[current] EXCEPT !.lastChild = n + 1] \in Node
  <2>1. n + 1 \in Nat
    BY <1>1
  <2> QED
    BY <1>3, <2>1, RememberType
<1>5. /\ linked \in Seq(Node) /\ Len(linked) = n
      /\ \A i \in 1 .. n : linked[i] = IF i = current THEN [nodes[current] EXCEPT !.lastChild = n + 1]
                                       ELSE nodes[i]
  BY <1>1, <1>4
<1>6. nodes' = Append(linked, leaf) /\ current' = n + 1
  BY DEF Record
<1>7. /\ nodes' \in Seq(Node) /\ Len(nodes') = n + 1
      /\ \A i \in 1 .. n : nodes'[i] = linked[i]
      /\ nodes'[n + 1] = leaf
  BY <1>2, <1>5, <1>6, AppendProperties
<1>8. DOMAIN nodes' = 1 .. n + 1
  BY <1>1, <1>7
<1>9. \A i \in 1 .. n :
        /\ nodes'[i].parent = nodes[i].parent
        /\ nodes'[i].lastChild = IF i = current THEN n + 1 ELSE nodes[i].lastChild
  <2> SUFFICES ASSUME NEW i \in 1 .. n
               PROVE  /\ nodes'[i].parent = nodes[i].parent
                      /\ nodes'[i].lastChild = IF i = current THEN n + 1 ELSE nodes[i].lastChild
    OBVIOUS
  <2>1. CASE i = current
    <3>1. nodes'[i] = [nodes[current] EXCEPT !.lastChild = n + 1]
      BY <1>5, <1>7, <2>1
    <3>2. n + 1 \in Nat
      BY <1>1
    <3> QED
      BY <1>3, <2>1, <3>1, <3>2, RememberType
  <2>2. CASE i # current
    BY <1>5, <1>7, <2>2
  <2> QED
    BY <2>1, <2>2
<1>10. nodes'[n + 1].parent = current /\ nodes'[n + 1].lastChild = 0
  BY <1>7
<1>11. \A i \in 1 .. n :
         /\ (nodes[i].parent = 0) <=> (i = 1)
         /\ nodes[i].parent \in 0 .. i - 1
         /\ nodes[i].lastChild # 0 =>
              nodes[i].lastChild \in 1 .. n /\ nodes[nodes[i].lastChild].parent = i
         /\ nodes[i].lastChild = 0 => \A c \in 1 .. n : nodes[c].parent # i
  BY <1>1 DEF Arena, TreeShape, NodeIds, Children
<1>12. \A i \in 1 .. n + 1 :
         /\ (nodes'[i].parent = 0) <=> (i = 1)
         /\ nodes'[i].parent \in 0 .. i - 1
  <2> SUFFICES ASSUME NEW i \in 1 .. n + 1
               PROVE  /\ (nodes'[i].parent = 0) <=> (i = 1)
                      /\ nodes'[i].parent \in 0 .. i - 1
    OBVIOUS
  <2>1. CASE i = n + 1
    BY <1>1, <1>10, <2>1
  <2>2. CASE i \in 1 .. n
    BY <1>9, <1>11, <2>2
  <2> QED
    BY <1>1, <2>1, <2>2
<1>13. \A i \in 1 .. n + 1 :
         nodes'[i].lastChild # 0 =>
           /\ nodes'[i].lastChild \in 1 .. n + 1
           /\ nodes'[nodes'[i].lastChild].parent = i
  <2> SUFFICES ASSUME NEW i \in 1 .. n, nodes'[i].lastChild # 0
               PROVE  /\ nodes'[i].lastChild \in 1 .. n + 1
                      /\ nodes'[nodes'[i].lastChild].parent = i
    BY <1>1, <1>10
  <2>1. CASE i = current
    BY <1>1, <1>9, <1>10, <2>1
  <2>2. CASE i # current
    <3>1. nodes'[i].lastChild = nodes[i].lastChild /\ nodes[i].lastChild \in 1 .. n
      BY <1>9, <1>11, <2>2
    <3>2. nodes'[nodes[i].lastChild].parent = i
      BY <1>9, <1>11, <3>1
    <3> QED
      BY <1>1, <3>1, <3>2
  <2> QED
    BY <2>1, <2>2
<1>14. \A i, c \in 1 .. n + 1 : nodes'[i].lastChild = 0 => nodes'[c].parent # i
  <2> SUFFICES ASSUME NEW i \in 1 .. n + 1, NEW c \in 1 .. n + 1, nodes'[i].lastChild = 0
               PROVE  nodes'[c].parent # i
    OBVIOUS
  <2>1. i # current
    BY <1>1, <1>9
  <2>2. CASE c = n + 1
    BY <1>10, <2>1, <2>2
  <2>3. CASE c \in 1 .. n /\ i = n + 1
    BY <1>1, <1>12, <2>3
  <2>4. CASE c \in 1 .. n /\ i \in 1 .. n
    BY <1>9, <1>11, <2>1, <2>4
  <2> QED
    BY <1>1, <2>2, <2>3, <2>4
<1>15. TreeShape'
  BY <1>1, <1>6, <1>8, <1>12, <1>13, <1>14 DEF TreeShape, NodeIds, Children
<1>16. Rope' = rope
  BY <1>6, <1>7 DEF Rope
<1> QED
  BY <1>7, <1>15, <1>16 DEF Arena

\* Stepping back keeps the tree, and remembers the branch it leaves.
LEMMA StepBackArena ==
  ASSUME Arena, StepBack
  PROVE  /\ Arena'
         /\ RedoTarget(current)' = current
<1> DEFINE n == Len(nodes)
           up == nodes[current].parent
<1>1. nodes \in Seq(Node) /\ n \in Nat /\ current \in 1 .. n
  BY DEF Arena, TreeShape, NodeIds
<1>2. \A i \in 1 .. n :
        /\ (nodes[i].parent = 0) <=> (i = 1)
        /\ nodes[i].parent \in 0 .. i - 1
        /\ nodes[i].lastChild # 0 =>
             nodes[i].lastChild \in 1 .. n /\ nodes[nodes[i].lastChild].parent = i
        /\ nodes[i].lastChild = 0 => \A c \in 1 .. n : nodes[c].parent # i
  BY <1>1 DEF Arena, TreeShape, NodeIds, Children
<1>3. up \in 1 .. n /\ current' = up /\ nodes' = [nodes EXCEPT ![up].lastChild = current]
  BY <1>1, <1>2 DEF StepBack
<1>4. nodes[up] \in Node /\ current \in Nat
  BY <1>1, <1>3
<1>5. [nodes[up] EXCEPT !.lastChild = current] \in Node
  BY <1>4, RememberType
<1>6. /\ nodes' \in Seq(Node) /\ Len(nodes') = n
      /\ \A i \in 1 .. n : nodes'[i] = IF i = up THEN [nodes[up] EXCEPT !.lastChild = current]
                                       ELSE nodes[i]
  BY <1>1, <1>3, <1>5
<1>7. DOMAIN nodes' = 1 .. n
  BY <1>1, <1>6
<1>8. \A i \in 1 .. n :
        /\ nodes'[i].parent = nodes[i].parent
        /\ nodes'[i].lastChild = IF i = up THEN current ELSE nodes[i].lastChild
  <2> SUFFICES ASSUME NEW i \in 1 .. n
               PROVE  /\ nodes'[i].parent = nodes[i].parent
                      /\ nodes'[i].lastChild = IF i = up THEN current ELSE nodes[i].lastChild
    OBVIOUS
  <2>1. CASE i = up
    <3>1. nodes'[i] = [nodes[up] EXCEPT !.lastChild = current]
      BY <1>6, <2>1
    <3> QED
      BY <1>4, <2>1, <3>1, RememberType
  <2>2. CASE i # up
    BY <1>6, <2>2
  <2> QED
    BY <2>1, <2>2
<1>9. TreeShape'
  <2>1. \A i \in 1 .. n :
          /\ (nodes'[i].parent = 0) <=> (i = 1)
          /\ nodes'[i].parent \in 0 .. i - 1
    BY <1>2, <1>8
  <2>2. \A i \in 1 .. n :
          nodes'[i].lastChild # 0 =>
            nodes'[i].lastChild \in 1 .. n /\ nodes'[nodes'[i].lastChild].parent = i
    <3> SUFFICES ASSUME NEW i \in 1 .. n, nodes'[i].lastChild # 0
                 PROVE  nodes'[i].lastChild \in 1 .. n /\ nodes'[nodes'[i].lastChild].parent = i
      OBVIOUS
    <3>1. CASE i = up
      BY <1>1, <1>8, <3>1
    <3>2. CASE i # up
      <4>1. nodes'[i].lastChild = nodes[i].lastChild /\ nodes[i].lastChild \in 1 .. n
        BY <1>2, <1>8, <3>2
      <4> QED
        BY <1>2, <1>8, <4>1
    <3> QED
      BY <3>1, <3>2
  <2>3. \A i, c \in 1 .. n : nodes'[i].lastChild = 0 => nodes'[c].parent # i
    <3> SUFFICES ASSUME NEW i \in 1 .. n, NEW c \in 1 .. n, nodes'[i].lastChild = 0
                 PROVE  nodes'[c].parent # i
      OBVIOUS
    <3>1. i # up
      BY <1>1, <1>8
    <3> QED
      BY <1>2, <1>8, <3>1
  <2>4. current' \in NodeIds' /\ NodeIds' = 1 .. n
    BY <1>3, <1>7 DEF NodeIds
  <2>5. \A i \in 1 .. n : nodes'[i].lastChild = 0 => Children(i)' = {}
    BY <2>3, <2>4 DEF Children
  <2> QED
    BY <2>1, <2>2, <2>4, <2>5 DEF TreeShape
<1>10. RedoTarget(current)' = current
  <2>1. nodes'[up].lastChild = current /\ current # 0
    BY <1>1, <1>3, <1>8
  <2> QED
    BY <1>3, <2>1 DEF RedoTarget
<1> QED
  BY <1>6, <1>9, <1>10 DEF Arena

\* Stepping forward stays in the tree.
LEMMA StepForwardArena ==
  ASSUME Arena, StepForward
  PROVE  Arena'
<1>1. current' = RedoTarget(current) /\ RedoTarget(current) # 0 /\ nodes' = nodes
  BY DEF StepForward
<1>2. current \in NodeIds
  BY DEF Arena, TreeShape
<1>3. nodes[current].lastChild # 0
  <2> SUFFICES ASSUME nodes[current].lastChild = 0
               PROVE  FALSE
    OBVIOUS
  <2>1. Children(current) = {}
    BY <1>2 DEF Arena, TreeShape
  <2> QED
    BY <1>1, <2>1 DEF RedoTarget
<1>4. current' \in NodeIds
  BY <1>1, <1>2, <1>3 DEF Arena, TreeShape, RedoTarget
<1> QED
  BY <1>1, <1>4 DEF Arena, TreeShape, NodeIds, Children

\* An action that leaves the history alone leaves the live text alone.
LEMMA SameArena ==
  ASSUME Arena, UNCHANGED <<nodes, current>>
  PROVE  Arena' /\ Rope' = Rope
BY DEF Arena, TreeShape, NodeIds, Children, Rope

\* A user's operation applies, and makes a text.
LEMMA UserOpsType ==
  ASSUME Arena, NEW op \in UserOps
  PROVE  op \in EditOp /\ Applies(op, Rope) /\ Replace(op, Rope) \in Content
<1>1. op \in EditOp /\ Applies(op, Rope)
  BY DEF UserOps
<1> QED
  BY <1>1, RopeType, ReplaceType

\* A journal that begins.
LEMMA FreshLogType ==
  /\ Headless \in Log /\ Absent \in Log
  /\ \A base \in Nat : FreshLog(base) \in Log
BY DEF Headless, Absent, FreshLog, Log

\* A journal that grows by a record.
LEMMA AppendLogType ==
  ASSUME jfile \in Log, NEW op \in EditOp,
         jfile' = [jfile EXCEPT !.recs = Append(@, op)]
  PROVE  /\ jfile' \in Log
         /\ jfile'.recs = Append(jfile.recs, op)
         /\ Len(jfile'.recs) = Len(jfile.recs) + 1
         /\ jfile'.base = jfile.base /\ jfile'.state = jfile.state
<1>1. jfile.recs \in Seq(EditOp)
  BY DEF Log
<1>2. Append(jfile.recs, op) \in Seq(EditOp) /\ Len(Append(jfile.recs, op)) = Len(jfile.recs) + 1
  BY <1>1
<1> QED
  BY <1>2 DEF Log

\* A journal whose end is torn, or not.
LEMMA TornLogType ==
  ASSUME jfile \in Log, NEW torn \in BOOLEAN, jfile' = [jfile EXCEPT !.torn = torn]
  PROVE  /\ jfile' \in Log
         /\ jfile'.recs = jfile.recs
         /\ jfile'.base = jfile.base /\ jfile'.state = jfile.state
BY DEF Log

\* A journal of which the power left the first k records.
LEMMA ShortLogType ==
  ASSUME jfile \in Log, NEW k \in 0 .. Len(jfile.recs), NEW torn \in BOOLEAN,
         jfile' = [jfile EXCEPT !.recs = SubSeq(@, 1, k), !.torn = torn]
  PROVE  /\ jfile' \in Log
         /\ jfile'.recs = SubSeq(jfile.recs, 1, k) /\ Len(jfile'.recs) = k
         /\ \A i \in 1 .. k : jfile'.recs[i] = jfile.recs[i]
         /\ jfile'.base = jfile.base /\ jfile'.state = jfile.state
<1>1. jfile.recs \in Seq(EditOp) /\ k \in Nat
  BY DEF Log
<1>2. \A i \in 1 .. k : jfile.recs[i] \in EditOp
  BY <1>1
<1>3. /\ SubSeq(jfile.recs, 1, k) \in Seq(EditOp) /\ Len(SubSeq(jfile.recs, 1, k)) = k
      /\ \A i \in 1 .. k : SubSeq(jfile.recs, 1, k)[i] = jfile.recs[i]
  BY <1>1, <1>2, SubSeqProperties
<1> QED
  BY <1>3 DEF Log

\* A record may be applied when it is the next one.
LEMMA ReplayType ==
  ASSUME TypeOK, Arena, Replayable
  PROVE  Replace(jfile.recs[pos + 1], Rope) \in Content /\ pos + 1 \in 1 .. Len(jfile.recs)
<1>1. jfile.recs \in Seq(EditOp) /\ pos \in Nat /\ pos < Len(jfile.recs)
  BY DEF TypeOK, Log, Replayable
<1>2. jfile.recs[pos + 1] \in EditOp
  BY <1>1
<1> QED
  BY <1>1, <1>2, RopeType, ReplaceType DEF Replayable

-----------------------------------------------------------------------------
\* The history stays a tree.

LEMMA ArenaNext ==
  ASSUME TypeOK, Arena, Next
  PROVE  Arena'
<1>1. ASSUME OpenWithRecovery \/ OpenFresh
      PROVE  Arena'
  <2>1. file \in Content /\ Reset(file)
    BY <1>1 DEF TypeOK, OpenWithRecovery, OpenFresh
  <2> QED
    BY <2>1, ResetArena
<1>2. CASE ReplayRecord
  <2>1. Replayable /\ Reset(Replace(jfile.recs[pos + 1], Rope))
    BY <1>2 DEF ReplayRecord
  <2> QED
    BY <2>1, ReplayType, ResetArena
<1>3. ASSUME NEW op \in UserOps,
             Edit(op) \/ EditAppendFails(op) \/ EditSyncFails(op) \/ EditUnlogged(op)
      PROVE  Arena'
  <2>1. Record(Replace(op, Rope))
    BY <1>3 DEF Edit, EditAppendFails, EditSyncFails, EditUnlogged
  <2> QED
    BY <2>1, UserOpsType, RecordArena
<1>4. CASE Undo
  BY <1>4, StepBackArena DEF Undo, HistoryMove
<1>5. CASE Redo
  BY <1>5, StepForwardArena DEF Redo, HistoryMove
<1>6. ASSUME Kill \/ KillMidAppend \/ PowerLoss
      PROVE  Arena'
  <2>1. ForgetProcess
    BY <1>6 DEF Kill, KillMidAppend, PowerLoss
  <2>2. << >> \in Content
    BY DEF Content
  <2>3. Reset(<< >>)
    BY <2>1 DEF ForgetProcess
  <2> QED
    BY <2>2, <2>3, ResetArena
<1>7. ASSUME \/ Recovered \/ SaveTruncatesFile \/ SaveWritesPart \/ SaveWritesRest
             \/ SaveTruncatesJournal \/ WriteHeader \/ SaveFails \/ Writeback
      PROVE  Arena'
  <2>1. UNCHANGED <<nodes, current>>
    BY <1>7 DEF Recovered, SaveTruncatesFile, SaveWritesPart, SaveWritesRest,
                SaveTruncatesJournal, WriteHeader, SaveFails, Writeback
  <2> QED
    BY <2>1, SameArena
<1> QED
  BY <1>1, <1>2, <1>3, <1>4, <1>5, <1>6, <1>7 DEF Next

-----------------------------------------------------------------------------
\* The inductive invariant.

\* What a process holds at each place: no handle while it opens, a journal to
\* replay while it replays, the file rewritten before the journal.
Memory ==
  /\ pc \in {"down", "replay", "header_open"} => ~journal
  /\ pc # "replay" => pos = 0
  /\ pc = "replay" => LogIsLeftOver
  /\ pc \in {"header_open", "written", "header_save"} => file = Rope
  /\ pc \in {"header_open", "write", "written", "header_save"} => gap = "checkpoint"
  /\ pc = "running" /\ Covered => jfile.base = Len(file)

\* The text on the screen is the text owed.
ShownIsOwed == Up => Owed = Rope

\* A replay has reached the text that its next record was made on.
ReplayPlace == Covered /\ pc = "replay" => Rope = seen[pos + 1]

\* The records not synced are among those counted.
Window == journal /\ ~recovered => Len(jfile.recs) - synced <= sinceSync

IInv ==
  /\ TypeOK
  /\ TreeShape
  /\ Memory
  /\ ShownIsOwed
  /\ ReplayPlace
  /\ LogExplainsDocument
  /\ CleanMeansSaved
  /\ Window

-----------------------------------------------------------------------------
\* Type correctness.

LEMMA BreachType ==
  ASSUME gap \in Gap, NEW cause \in Gap, NEW rope \in Content, Breach(cause, rope)
  PROVE  /\ gap' \in Gap
         /\ ~Covered' \/ cause = "none"
         /\ seen' \in Seq(Content) \ {<< >>}
         /\ seen' = <<rope>> /\ Owed' = rope
BY DEF Gap, Breach, Covered, Owed

LEMMA LogCoversType ==
  ASSUME gap \in Gap, seen \in Seq(Content) \ {<< >>}, NEW rope \in Content, LogCovers(rope)
  PROVE  /\ gap' = gap
         /\ seen' \in Seq(Content) \ {<< >>}
         /\ Owed' = rope
         /\ Covered => seen' = Append(seen, rope) /\ Len(seen') = Len(seen) + 1
BY DEF LogCovers, Owed

LEMMA ForgetProcessType ==
  ASSUME TypeOK, ForgetProcess
  PROVE  /\ pc' = "down" /\ pos' = 0 /\ sinceSync' = 0
         /\ sinceSync' \in 0 .. MaxOps - 1
         /\ journal' \in BOOLEAN /\ dirty' \in BOOLEAN
         /\ recovered' \in BOOLEAN /\ journalError' \in BOOLEAN
         /\ faults' \in 0 .. MaxFaults
<1>1. faults' \in 0 .. MaxFaults
  BY DEF TypeOK, ForgetProcess, Fault
<1>2. sinceSync' \in 0 .. MaxOps - 1
  BY DEF ForgetProcess
<1> QED
  BY <1>1, <1>2 DEF ForgetProcess

\* What AppendRecord does to the log.
LEMMA AppendRecordType ==
  ASSUME TypeOK, Arena, NEW op \in UserOps, AppendRecord(op), pos = 0
  PROVE  /\ jfile' \in Log /\ synced' \in 0 .. Len(jfile'.recs)
         /\ sinceSync' \in 0 .. MaxOps - 1
         /\ gap' \in Gap
         /\ seen' \in Seq(Content) \ {<< >>}
         /\ Owed' = Replace(op, Rope)
         /\ jfile'.base = jfile.base /\ jfile'.state = jfile.state
         /\ Len(jfile'.recs) - synced' <= sinceSync' \/ Len(jfile.recs) - synced > sinceSync
<1>1. /\ op \in EditOp /\ Replace(op, Rope) \in Content
      /\ jfile \in Log /\ jfile.recs \in Seq(EditOp) /\ Len(jfile.recs) \in Nat
      /\ synced \in 0 .. Len(jfile.recs) /\ sinceSync \in 0 .. MaxOps - 1
      /\ gap \in Gap /\ seen \in Seq(Content) \ {<< >>}
  BY UserOpsType DEF TypeOK, Log
<1>2. CASE Appendable
  <2>1. jfile' = [jfile EXCEPT !.recs = Append(@, op)] /\ LogCovers(Replace(op, Rope))
    BY <1>2 DEF AppendRecord
  <2>2. /\ jfile' \in Log /\ Len(jfile'.recs) = Len(jfile.recs) + 1
        /\ jfile'.base = jfile.base /\ jfile'.state = jfile.state
    BY <1>1, <2>1, AppendLogType
  <2>3. gap' \in Gap /\ seen' \in Seq(Content) \ {<< >>} /\ Owed' = Replace(op, Rope)
    BY <1>1, <2>1, LogCoversType
  <2>4. \/ sinceSync' = 0 /\ synced' = Len(jfile'.recs)
        \/ sinceSync' = sinceSync + 1 /\ synced' = synced /\ sinceSync + 1 < MaxOps
    BY <1>1 DEF AppendRecord, SyncDue
  <2> QED
    BY <1>1, <2>2, <2>3, <2>4
<1>3. CASE ~Appendable
  <2>1. jfile' = jfile /\ Breach("torn", Replace(op, Rope))
    BY <1>3 DEF AppendRecord
  <2>2. gap' \in Gap /\ seen' \in Seq(Content) \ {<< >>} /\ Owed' = Replace(op, Rope)
    BY <1>1, <2>1, BreachType DEF Gap
  <2>3. \/ sinceSync' = 0 /\ synced' = Len(jfile'.recs)
        \/ sinceSync' = sinceSync + 1 /\ synced' = synced /\ sinceSync + 1 < MaxOps
    BY <1>1 DEF AppendRecord, SyncDue
  <2> QED
    BY <1>1, <2>1, <2>2, <2>3
<1> QED
  BY <1>2, <1>3

LEMMA TypeNext ==
  ASSUME TypeOK, Arena, Memory, LogExplainsDocument, Next
  PROVE  TypeOK'
<1> USE DEF TypeOK
<1>1. nodes' \in Seq(Node) /\ current' \in NodeIds'
  BY ArenaNext DEF Arena, TreeShape
<1>2. /\ Rope \in Content /\ Rope' \in Content
      /\ jfile.recs \in Seq(EditOp) /\ Len(jfile.recs) \in Nat
      /\ MaxOps \in Nat \ {0}
  BY ArenaNext, RopeType, NextRopeType DEF Log
<1>3. \A torn \in {jfile.torn, jfile.state = "ok"} : torn \in BOOLEAN
  BY DEF Log
<1>4. CASE OpenWithRecovery
  BY <1>1, <1>4 DEF OpenWithRecovery, disk, handle, flags, history
<1>5. CASE OpenFresh
  <2>1. seen' \in Seq(Content) \ {<< >>} /\ gap' \in Gap
    BY <1>5, BreachType DEF OpenFresh, Gap
  <2>2. Headless \in Log /\ Len(Headless.recs) = 0
    BY FreshLogType DEF Headless
  <2>3. pos = 0
    BY <1>5 DEF Memory, OpenFresh
  <2> QED
    BY <1>1, <1>5, <2>1, <2>2, <2>3 DEF OpenFresh, handle, flags
<1>6. CASE ReplayRecord
  <2>1. pos' \in 0 .. Len(jfile.recs)
    BY <1>6, <1>2, ReplayType DEF ReplayRecord
  <2> QED
    BY <1>1, <1>6, <2>1 DEF ReplayRecord, disk, handle, flags, history
<1>7. CASE Recovered
  <2>1. seen' \in Seq(Content) \ {<< >>}
    BY <1>2, <1>7 DEF Recovered
  <2> QED
    BY <1>1, <1>2, <1>7, <2>1 DEF Recovered, disk
<1>8. ASSUME NEW op \in UserOps, Edit(op)
      PROVE  TypeOK'
  <2>1. pos = 0
    BY <1>8 DEF Edit, Memory
  <2>2. /\ jfile' \in Log /\ synced' \in 0 .. Len(jfile'.recs) /\ sinceSync' \in 0 .. MaxOps - 1
        /\ gap' \in Gap /\ seen' \in Seq(Content) \ {<< >>}
    BY <1>8, <2>1, AppendRecordType DEF Edit
  <2>3. 0 \in 0 .. Len(jfile'.recs)
    BY <2>2 DEF Log
  <2> QED
    BY <1>1, <1>8, <2>1, <2>2, <2>3 DEF Edit
<1>9. ASSUME NEW op \in UserOps, EditAppendFails(op)
      PROVE  TypeOK'
  <2>1. jfile' \in Log /\ jfile'.recs = jfile.recs
    BY <1>3, <1>9, TornLogType DEF EditAppendFails
  <2>2. gap' \in Gap /\ seen' \in Seq(Content) \ {<< >>}
    BY <1>9, UserOpsType, BreachType DEF EditAppendFails, Gap
  <2>3. journal' \in BOOLEAN /\ dirty' \in BOOLEAN /\ journalError' \in BOOLEAN
    BY <1>9 DEF EditAppendFails
  <2>4. UNCHANGED <<file, fileOnDisk, synced, pc, pos, sinceSync, recovered>> /\ Fault
    BY <1>9 DEF EditAppendFails
  <2> QED
    BY <1>1, <2>1, <2>2, <2>3, <2>4 DEF Fault
<1>10. ASSUME NEW op \in UserOps, EditSyncFails(op)
       PROVE  TypeOK'
  <2>1. jfile' \in Log /\ Len(jfile'.recs) = Len(jfile.recs) + 1
    BY <1>10, UserOpsType, AppendLogType DEF EditSyncFails
  <2>2. gap' \in Gap /\ seen' \in Seq(Content) \ {<< >>}
    BY <1>10, UserOpsType, LogCoversType DEF EditSyncFails
  <2>3. journal' \in BOOLEAN /\ dirty' \in BOOLEAN /\ journalError' \in BOOLEAN
    BY <1>10 DEF EditSyncFails
  <2>4. UNCHANGED <<file, fileOnDisk, synced, pc, pos, sinceSync, recovered>> /\ Fault
    BY <1>10 DEF EditSyncFails
  <2> QED
    BY <1>1, <1>2, <2>1, <2>2, <2>3, <2>4 DEF Fault
<1>11. ASSUME NEW op \in UserOps, EditUnlogged(op)
       PROVE  TypeOK'
  <2>1. gap' \in Gap /\ seen' \in Seq(Content) \ {<< >>}
    BY <1>11, UserOpsType, BreachType DEF EditUnlogged, Gap
  <2> QED
    BY <1>1, <1>11, <2>1 DEF EditUnlogged, disk, handle
<1>12. ASSUME Undo \/ Redo
       PROVE  TypeOK'
  <2>1. gap' \in Gap /\ seen' \in Seq(Content) \ {<< >>}
    BY <1>2, <1>12, BreachType DEF Undo, Redo, HistoryMove, Gap
  <2> QED
    BY <1>1, <1>12, <2>1 DEF Undo, Redo, HistoryMove, disk, handle
<1>13. CASE SaveTruncatesFile
  <2>1. gap' \in Gap /\ seen' \in Seq(Content) \ {<< >>}
    BY <1>2, <1>13, BreachType DEF SaveTruncatesFile, Gap
  <2>2. << >> \in Content
    BY DEF Content
  <2> QED
    BY <1>1, <1>13, <2>1, <2>2 DEF SaveTruncatesFile, handle, flags
<1>14. CASE SaveWritesPart
  <2>1. file' \in Content
    <3>1. PICK n \in Len(file) + 1 .. Len(Rope) - 1 : file' = SubSeq(Rope, 1, n)
      BY <1>14 DEF SaveWritesPart
    <3>2. Rope \in Seq(Byte) /\ n \in Nat /\ n <= Len(Rope)
      BY <1>2, <3>1 DEF Content
    <3>3. \A i \in 1 .. n : Rope[i] \in Byte
      BY <3>2
    <3> QED
      BY <3>1, <3>2, <3>3, SubSeqProperties DEF Content
  <2> QED
    BY <1>1, <1>14, <2>1 DEF SaveWritesPart, handle, flags, history
<1>15. CASE SaveWritesRest
  BY <1>1, <1>2, <1>15 DEF SaveWritesRest, handle, flags, history
<1>16. CASE SaveTruncatesJournal
  <2>1. Headless \in Log /\ Len(Headless.recs) = 0
    BY FreshLogType DEF Headless
  <2>2. pos = 0
    BY <1>16 DEF Memory, SaveTruncatesJournal
  <2> QED
    BY <1>1, <1>16, <2>1, <2>2 DEF SaveTruncatesJournal, handle, flags, history
<1>17. CASE WriteHeader
  <2>1. FreshLog(Len(Rope)) \in Log /\ Len(FreshLog(Len(Rope)).recs) = 0
    BY <1>2, FreshLogType DEF FreshLog, Content
  <2>2. pos = 0
    BY <1>17 DEF Memory, WriteHeader
  <2>3. "none" \in Gap /\ <<Rope>> \in Seq(Content) \ {<< >>}
    BY <1>2 DEF Gap
  <2>4. /\ journal' \in BOOLEAN /\ dirty' \in BOOLEAN
        /\ recovered' \in BOOLEAN /\ journalError' \in BOOLEAN
    BY <1>17 DEF WriteHeader
  <2>5. /\ UNCHANGED <<file, fileOnDisk, pos, faults>> /\ pc' = "running"
        /\ jfile' = FreshLog(Len(Rope)) /\ synced' = 0 /\ sinceSync' = 0
        /\ seen' = <<Rope>> /\ gap' = "none"
    BY <1>17 DEF WriteHeader
  <2> QED
    BY <1>1, <1>2, <2>1, <2>2, <2>3, <2>4, <2>5
<1>18. CASE SaveFails
  BY <1>1, <1>18 DEF SaveFails, Fault, disk, handle, flags, history
<1>19. CASE Kill
  <2>1. ForgetProcess
    BY <1>19 DEF Kill
  <2>2. UNCHANGED <<file, fileOnDisk, jfile, synced, seen, gap>>
    BY <1>19 DEF Kill, disk, history
  <2> QED
    BY <1>1, <1>2, <2>1, <2>2, ForgetProcessType
<1>20. CASE KillMidAppend
  <2>1. ForgetProcess /\ jfile' \in Log /\ jfile'.recs = jfile.recs
    BY <1>20, TornLogType DEF KillMidAppend
  <2> QED
    BY <1>1, <1>2, <1>20, <2>1, ForgetProcessType DEF KillMidAppend, history
<1>21. CASE PowerLoss
  <2>1. PICK k \in synced .. Len(jfile.recs), torn \in BOOLEAN :
          /\ jfile' = [jfile EXCEPT !.recs = SubSeq(@, 1, k), !.torn = torn]
          /\ synced' = k
          /\ IF Covered /\ file' = file
             THEN seen' = SubSeq(seen, 1, k + 1) /\ UNCHANGED gap
             ELSE seen' = <<Owed>> /\ gap' = "power"
    BY <1>21 DEF PowerLoss
  <2>2. k \in 0 .. Len(jfile.recs)
    BY <1>2
  <2>3. jfile' \in Log /\ Len(jfile'.recs) = k
    BY <2>1, <2>2, ShortLogType
  <2>4. Owed \in Content
    BY DEF Owed
  <2>5. seen' \in Seq(Content) \ {<< >>} /\ gap' \in Gap
    <3>1. CASE Covered /\ file' = file
      <4>1. Len(seen) = Len(jfile.recs) + 1
        BY <3>1 DEF LogExplainsDocument
      <4>2. k + 1 \in 1 .. Len(seen) /\ \A i \in 1 .. k + 1 : seen[i] \in Content
        BY <1>2, <2>2, <4>1
      <4>3. SubSeq(seen, 1, k + 1) \in Seq(Content) /\ Len(SubSeq(seen, 1, k + 1)) = k + 1
        BY <4>2, SubSeqProperties
      <4>4. seen' = SubSeq(seen, 1, k + 1) /\ gap' = gap
        BY <2>1, <3>1
      <4> QED
        BY <2>2, <4>3, <4>4
    <3>2. CASE ~(Covered /\ file' = file)
      <4>1. seen' = <<Owed>> /\ gap' = "power"
        BY <2>1, <3>2
      <4> QED
        BY <2>4, <4>1 DEF Gap
    <3> QED
      BY <3>1, <3>2
  <2>6. ForgetProcess /\ file' \in Content /\ fileOnDisk' \in Content
    BY <1>21 DEF PowerLoss
  <2> QED
    BY <1>1, <1>2, <2>1, <2>2, <2>3, <2>5, <2>6, ForgetProcessType
<1>22. CASE Writeback
  BY <1>1, <1>2, <1>22 DEF Writeback, handle, flags, history
<1> QED
  BY <1>4, <1>5, <1>6, <1>7, <1>8, <1>9, <1>10, <1>11, <1>12, <1>13, <1>14, <1>15, <1>16,
     <1>17, <1>18, <1>19, <1>20, <1>21, <1>22 DEF Next

-----------------------------------------------------------------------------
\* What the groups of actions do to the text.

LEMMA OpenText ==
  ASSUME TypeOK
  PROVE  /\ OpenWithRecovery => Rope' = file
         /\ OpenFresh => Rope' = file
<1>1. file \in Content
  BY DEF TypeOK
<1> QED
  BY <1>1, ResetArena DEF OpenWithRecovery, OpenFresh

\* Every edit shows and owes its result, whether it is logged or not.
LEMMA EditText ==
  ASSUME TypeOK, Arena, Memory, NEW op \in UserOps,
         Edit(op) \/ EditAppendFails(op) \/ EditSyncFails(op) \/ EditUnlogged(op)
  PROVE  /\ Rope' = Replace(op, Rope) /\ Owed' = Rope'
         /\ pc = "running" /\ pc' = "running"
         /\ UNCHANGED <<file, pos>> /\ pos = 0
         /\ dirty' = TRUE
         /\ jfile'.base = jfile.base
<1>1. /\ op \in EditOp /\ Replace(op, Rope) \in Content
      /\ jfile \in Log /\ gap \in Gap /\ seen \in Seq(Content) \ {<< >>}
  BY UserOpsType DEF TypeOK
<1>2. Record(Replace(op, Rope)) /\ dirty' = TRUE
  BY DEF Edit, EditAppendFails, EditSyncFails, EditUnlogged
<1>3. /\ pc = "running" /\ pc' = "running"
      /\ UNCHANGED <<file, pos>>
  BY DEF Edit, EditAppendFails, EditSyncFails, EditUnlogged, disk
<1>4. pos = 0
  BY <1>3 DEF Memory
<1>5. Rope' = Replace(op, Rope)
  BY <1>1, <1>2, RecordArena
<1>6. Owed' = Replace(op, Rope) /\ jfile'.base = jfile.base
  <2>1. CASE Edit(op)
    BY <1>4, <2>1, AppendRecordType DEF Edit
  <2>2. CASE EditAppendFails(op)
    <3>1. Owed' = Replace(op, Rope)
      BY <1>1, <2>2, BreachType DEF EditAppendFails, Gap
    <3>2. PICK torn \in {jfile.torn, jfile.state = "ok"} : jfile' = [jfile EXCEPT !.torn = torn]
      BY <2>2 DEF EditAppendFails
    <3>3. torn \in BOOLEAN
      BY <1>1 DEF Log
    <3> QED
      BY <1>1, <3>1, <3>2, <3>3, TornLogType
  <2>3. CASE EditSyncFails(op)
    BY <1>1, <2>3, AppendLogType, LogCoversType DEF EditSyncFails
  <2>4. CASE EditUnlogged(op)
    BY <1>1, <2>4, BreachType DEF EditUnlogged, Gap, disk
  <2> QED
    BY <2>1, <2>2, <2>3, <2>4
<1> QED
  BY <1>2, <1>3, <1>4, <1>5, <1>6

\* A move through the history shows and owes the other text.
LEMMA HistoryText ==
  ASSUME TypeOK, Arena, Undo \/ Redo
  PROVE  /\ Owed' = Rope' /\ ~Covered'
         /\ pc = "running" /\ pc' = "running"
         /\ UNCHANGED <<disk, pos, handle>>
         /\ dirty' = TRUE /\ recovered' = recovered
<1>1. Arena'
  BY StepBackArena, StepForwardArena DEF Undo, Redo, HistoryMove
<1>2. Rope' \in Content
  BY <1>1, NextRopeType
<1>3. Breach("undo", Rope')
  BY DEF Undo, Redo, HistoryMove
<1>4. Owed' = Rope' /\ ~Covered'
  BY <1>2, <1>3, BreachType DEF TypeOK, Gap
<1>5. dirty' = TRUE
  BY DEF Undo, Redo, HistoryMove
<1> QED
  BY <1>4, <1>5 DEF Undo, Redo, HistoryMove

\* The rest of the process leaves the text on the screen.
LEMMA QuietText ==
  ASSUME Arena,
         \/ Recovered \/ SaveTruncatesFile \/ SaveWritesPart \/ SaveWritesRest
         \/ SaveTruncatesJournal \/ WriteHeader \/ SaveFails \/ Writeback
  PROVE  Rope' = Rope
<1>1. UNCHANGED <<nodes, current>>
  BY DEF Recovered, SaveTruncatesFile, SaveWritesPart, SaveWritesRest,
         SaveTruncatesJournal, WriteHeader, SaveFails, Writeback
<1> QED
  BY <1>1, SameArena

\* A process that ends.
LEMMA DownText ==
  ASSUME Kill \/ KillMidAppend \/ PowerLoss
  PROVE  ForgetProcess /\ pc' = "down" /\ pos' = 0 /\ ~journal'
<1>1. ForgetProcess
  BY DEF Kill, KillMidAppend, PowerLoss
<1> QED
  BY <1>1 DEF ForgetProcess

-----------------------------------------------------------------------------
\* What the process holds.

LEMMA MemoryNext ==
  ASSUME TypeOK, Arena, Memory, Next
  PROVE  Memory'
<1>1. CASE OpenWithRecovery
  BY <1>1 DEF OpenWithRecovery, Memory, LogIsLeftOver, disk, handle
<1>2. CASE OpenFresh
  <2>1. Rope' = file
    BY <1>2, OpenText
  <2>2. gap' = "checkpoint"
    BY <1>2 DEF OpenFresh, Breach
  <2> QED
    BY <1>2, <2>1, <2>2 DEF OpenFresh, Memory, handle
<1>3. CASE ReplayRecord
  BY <1>3 DEF ReplayRecord, Memory, LogIsLeftOver, disk, handle
<1>4. CASE Recovered
  <2>1. jfile.base = Len(file)
    BY <1>4 DEF Recovered, Memory, LogIsLeftOver
  <2> QED
    BY <1>4, <2>1 DEF Recovered, Memory, disk
<1>5. ASSUME NEW op \in UserOps,
             Edit(op) \/ EditAppendFails(op) \/ EditSyncFails(op) \/ EditUnlogged(op)
      PROVE  Memory'
  <2>1. /\ pc = "running" /\ pc' = "running" /\ pos' = 0 /\ file' = file
        /\ jfile'.base = jfile.base
    BY <1>5, EditText
  <2>2. Covered' => Covered
    <3>1. gap' = gap \/ ~Covered'
      <4>1. /\ Replace(op, Rope) \in Content
            /\ gap \in Gap /\ seen \in Seq(Content) \ {<< >>}
        BY UserOpsType DEF TypeOK
      <4>2. CASE LogCovers(Replace(op, Rope))
        BY <4>2 DEF LogCovers
      <4>3. CASE Breach("torn", Replace(op, Rope)) \/ Breach("unlogged", Replace(op, Rope))
        BY <4>1, <4>3, BreachType DEF Gap
      <4>4. \/ LogCovers(Replace(op, Rope))
            \/ Breach("torn", Replace(op, Rope)) \/ Breach("unlogged", Replace(op, Rope))
        BY <1>5 DEF Edit, AppendRecord, EditAppendFails, EditSyncFails, EditUnlogged
      <4> QED
        BY <4>2, <4>3, <4>4
    <3> QED
      BY <3>1 DEF Covered
  <2> QED
    BY <2>1, <2>2 DEF Memory
<1>6. CASE Undo \/ Redo
  BY <1>6, HistoryText DEF Memory
<1>7. CASE SaveTruncatesFile
  <2>1. gap' = "checkpoint"
    BY <1>7 DEF SaveTruncatesFile, Breach
  <2> QED
    BY <1>7, <2>1 DEF SaveTruncatesFile, Memory
<1>8. CASE SaveWritesPart
  BY <1>8 DEF SaveWritesPart, Memory, history
<1>9. CASE SaveWritesRest
  <2>1. Rope' = Rope
    BY <1>9, QuietText
  <2> QED
    BY <1>9, <2>1 DEF SaveWritesRest, Memory, history
<1>10. CASE SaveTruncatesJournal
  <2>1. Rope' = Rope
    BY <1>10, QuietText
  <2> QED
    BY <1>10, <2>1 DEF SaveTruncatesJournal, Memory, history
<1>11. CASE WriteHeader
  BY <1>11 DEF WriteHeader, Memory, FreshLog
<1>12. CASE SaveFails
  BY <1>12 DEF SaveFails, Memory, Covered, history
<1>13. CASE Kill \/ KillMidAppend \/ PowerLoss
  BY <1>13, DownText DEF Memory
<1>14. CASE Writeback
  <2>1. Rope' = Rope
    BY <1>14, QuietText
  <2> QED
    BY <1>14, <2>1 DEF Writeback, Memory, LogIsLeftOver, Covered, handle, history
<1> QED
  BY <1>1, <1>2, <1>3, <1>4, <1>5, <1>6, <1>7, <1>8, <1>9, <1>10, <1>11, <1>12, <1>13, <1>14 DEF Next

-----------------------------------------------------------------------------
\* The log explains the document.

\* A replay does not stop before the last text, and then shows it.
LEMMA ReplayReaches ==
  ASSUME TypeOK, LogExplainsDocument, ReplayPlace
  PROVE  /\ RecoveryRetraces
         /\ Covered /\ pc = "replay" /\ ~Replayable => Owed = Rope
         /\ Covered /\ pc = "replay" /\ Replayable =>
              Replace(jfile.recs[pos + 1], Rope) = seen[pos + 2]
<1> SUFFICES ASSUME Covered, pc = "replay"
             PROVE  /\ Rope = seen[pos + 1]
                    /\ pos < Len(jfile.recs) => Replayable
                    /\ ~Replayable => Owed = Rope
                    /\ Replayable => Replace(jfile.recs[pos + 1], Rope) = seen[pos + 2]
  BY DEF RecoveryRetraces
<1>1. /\ jfile.recs \in Seq(EditOp) /\ pos \in 0 .. Len(jfile.recs) /\ Len(jfile.recs) \in Nat
      /\ Len(seen) = Len(jfile.recs) + 1
      /\ Rope = seen[pos + 1]
  BY DEF TypeOK, Log, LogExplainsDocument, ReplayPlace
<1>2. ASSUME pos < Len(jfile.recs)
      PROVE  /\ Applies(jfile.recs[pos + 1], Rope)
             /\ Replace(jfile.recs[pos + 1], Rope) = seen[pos + 2]
  <2>1. pos + 1 \in DOMAIN jfile.recs /\ pos + 1 + 1 = pos + 2
    BY <1>1, <1>2
  <2> QED
    BY <1>1, <2>1 DEF LogExplainsDocument
<1>3. pos < Len(jfile.recs) => Replayable
  BY <1>2 DEF Replayable
<1>4. ~Replayable => Owed = Rope
  <2>1. ~Replayable => pos = Len(jfile.recs)
    BY <1>1, <1>3
  <2> QED
    BY <1>1, <2>1 DEF Owed
<1> QED
  BY <1>1, <1>2, <1>3, <1>4 DEF Replayable

\* Nothing the log speaks of changes.
LEMMA LogKeeps ==
  ASSUME LogExplainsDocument,
         UNCHANGED <<file, history>>,
         jfile'.recs = jfile.recs, jfile'.base = jfile.base, jfile'.state = jfile.state,
         pc' = "running" /\ Covered => Owed' = Rope'
  PROVE  LogExplainsDocument'
BY DEF LogExplainsDocument, LogIsLeftOver, Covered, Owed, history

\* A record is appended that makes the text shown of the last one shown.
LEMMA LogGrows ==
  ASSUME TypeOK, Arena, Memory, LogExplainsDocument,
         NEW op \in UserOps, Appendable, pc = "running",
         jfile' = [jfile EXCEPT !.recs = Append(@, op)],
         LogCovers(Replace(op, Rope)),
         file' = file, Rope' = Replace(op, Rope)
  PROVE  LogExplainsDocument'
<1> SUFFICES ASSUME Covered'
             PROVE  /\ Len(seen') = Len(jfile'.recs) + 1
                    /\ seen'[1] = file'
                    /\ \A i \in DOMAIN jfile'.recs :
                         /\ Applies(jfile'.recs[i], seen'[i])
                         /\ Replace(jfile'.recs[i], seen'[i]) = seen'[i + 1]
                    /\ LogIsLeftOver'
                    /\ Owed' = Rope'
  BY DEF LogExplainsDocument
<1> DEFINE n == Len(jfile.recs)
<1>1. Covered
  BY DEF LogCovers, Covered
<1>2. /\ op \in EditOp /\ Applies(op, Rope) /\ Replace(op, Rope) \in Content
      /\ jfile.recs \in Seq(EditOp) /\ n \in Nat /\ seen \in Seq(Content)
      /\ Len(seen) = n + 1
  BY <1>1, UserOpsType DEF TypeOK, Log, LogExplainsDocument
<1>3. /\ jfile'.recs = Append(jfile.recs, op)
      /\ jfile'.base = jfile.base /\ jfile'.state = jfile.state
  BY <1>2, AppendLogType DEF TypeOK
<1>4. seen' = Append(seen, Replace(op, Rope))
  BY <1>1 DEF LogCovers
<1>5. /\ Len(jfile'.recs) = n + 1 /\ DOMAIN jfile'.recs = 1 .. n + 1
      /\ \A i \in 1 .. n : jfile'.recs[i] = jfile.recs[i]
      /\ jfile'.recs[n + 1] = op
  BY <1>2, <1>3
<1>6. /\ Len(seen') = n + 2
      /\ \A i \in 1 .. n + 1 : seen'[i] = seen[i]
      /\ seen'[n + 2] = Replace(op, Rope)
  BY <1>2, <1>4, AppendProperties
<1>7. seen[n + 1] = Rope
  BY <1>1, <1>2 DEF LogExplainsDocument, Owed
<1>8. ASSUME NEW i \in 1 .. n + 1
      PROVE  /\ Applies(jfile'.recs[i], seen'[i])
             /\ Replace(jfile'.recs[i], seen'[i]) = seen'[i + 1]
  <2>1. CASE i = n + 1
    <3> HIDE DEF n
    <3>1. jfile'.recs[i] = op
      BY <1>5, <2>1
    <3>2. seen'[i] = Rope
      BY <1>6, <1>7, <2>1
    <3>3. i + 1 = n + 2
      BY <1>2, <2>1
    <3>4. seen'[i + 1] = Replace(op, Rope)
      BY <1>6, <3>3
    <3> QED
      BY <1>2, <3>1, <3>2, <3>4
  <2>2. CASE i \in 1 .. n
    <3>1. i \in DOMAIN jfile.recs /\ i + 1 \in 1 .. n + 1 /\ i \in 1 .. n + 1
      BY <1>2, <2>2
    <3>2. jfile'.recs[i] = jfile.recs[i] /\ seen'[i] = seen[i] /\ seen'[i + 1] = seen[i + 1]
      BY <1>5, <1>6, <2>2, <3>1
    <3> QED
      BY <1>1, <3>1, <3>2 DEF LogExplainsDocument
  <2> QED
    BY <1>2, <2>1, <2>2
<1>9. LogIsLeftOver'
  <2>1. jfile.base = Len(file) /\ jfile.state = "ok"
    BY <1>1 DEF Memory, Appendable
  <2>2. jfile'.recs # << >>
    <3>1. Len(jfile'.recs) # 0
      BY <1>2, <1>5
    <3>2. Len(<< >>) = 0
      OBVIOUS
    <3> QED
      BY <3>1, <3>2
  <2> QED
    BY <1>3, <2>1, <2>2 DEF LogIsLeftOver
<1>10. seen'[1] = file'
  BY <1>1, <1>2, <1>6 DEF LogExplainsDocument
<1>11. Owed' = Rope'
  BY <1>2, <1>6 DEF Owed
<1> QED
  BY <1>2, <1>5, <1>6, <1>8, <1>9, <1>10, <1>11

LEMMA LogNext ==
  ASSUME TypeOK, Arena, Memory, LogExplainsDocument, ReplayPlace, Next
  PROVE  LogExplainsDocument'
<1>1. CASE OpenWithRecovery
  BY <1>1, LogKeeps DEF OpenWithRecovery, disk
<1>2. CASE OpenFresh
  BY <1>2 DEF OpenFresh, Breach, LogExplainsDocument, Covered
<1>3. CASE ReplayRecord
  BY <1>3, LogKeeps DEF ReplayRecord, disk
<1>4. CASE Recovered
  <2> SUFFICES ASSUME Covered'
               PROVE  LogExplainsDocument'
    BY DEF LogExplainsDocument
  <2>1. Covered /\ UNCHANGED <<file, jfile, history>>
    BY <1>4 DEF Recovered, Covered, disk, history
  <2>2. Owed' = Owed /\ Rope' = Rope /\ Owed = Rope
    BY <1>4, <2>1, QuietText, ReplayReaches DEF Recovered, Owed, history
  <2> QED
    BY <2>1, <2>2, LogKeeps
<1>5. ASSUME NEW op \in UserOps, Edit(op)
      PROVE  LogExplainsDocument'
  <2>1. CASE Appendable
    BY <1>5, <2>1, EditText, LogGrows DEF Edit, AppendRecord
  <2>2. CASE ~Appendable
    <3>1. Breach("torn", Replace(op, Rope))
      BY <1>5, <2>2 DEF Edit, AppendRecord
    <3> QED
      BY <3>1, UserOpsType, BreachType DEF LogExplainsDocument, TypeOK, Gap
  <2> QED
    BY <2>1, <2>2
<1>6. ASSUME NEW op \in UserOps, EditSyncFails(op)
      PROVE  LogExplainsDocument'
  BY <1>6, EditText, LogGrows DEF EditSyncFails
<1>7. ASSUME NEW op \in UserOps, EditAppendFails(op) \/ EditUnlogged(op)
      PROVE  LogExplainsDocument'
  <2>1. Breach("unlogged", Replace(op, Rope))
    BY <1>7 DEF EditAppendFails, EditUnlogged
  <2> QED
    BY <2>1, UserOpsType, BreachType DEF LogExplainsDocument, TypeOK, Gap
<1>8. CASE Undo \/ Redo
  BY <1>8, HistoryText DEF LogExplainsDocument
<1>9. CASE SaveTruncatesFile
  BY <1>9 DEF SaveTruncatesFile, Breach, LogExplainsDocument, Covered
<1>10. CASE SaveWritesPart \/ SaveWritesRest \/ SaveTruncatesJournal \/ SaveFails
  <2>1. gap = "checkpoint" /\ gap' = gap
    BY <1>10 DEF SaveWritesPart, SaveWritesRest, SaveTruncatesJournal, SaveFails, Memory, history
  <2> QED
    BY <2>1 DEF LogExplainsDocument, Covered
<1>11. CASE WriteHeader
  <2>1. Rope' = Rope /\ file' = Rope /\ jfile'.recs = << >> /\ seen' = <<Rope>>
    BY <1>11, QuietText DEF WriteHeader, Memory, FreshLog
  <2> QED
    BY <2>1 DEF LogExplainsDocument, Owed
<1>12. CASE Kill
  BY <1>12, DownText, LogKeeps DEF Kill, disk
<1>13. CASE KillMidAppend
  <2>1. jfile'.recs = jfile.recs /\ jfile'.base = jfile.base /\ jfile'.state = jfile.state
    BY <1>13, TornLogType DEF KillMidAppend, TypeOK
  <2> QED
    BY <1>13, <2>1, DownText, LogKeeps DEF KillMidAppend
<1>14. CASE PowerLoss
  <2> SUFFICES ASSUME Covered'
               PROVE  LogExplainsDocument'
    BY DEF LogExplainsDocument
  <2>1. PICK k \in synced .. Len(jfile.recs), torn \in BOOLEAN :
          /\ jfile' = [jfile EXCEPT !.recs = SubSeq(@, 1, k), !.torn = torn]
          /\ IF Covered /\ file' = file
             THEN seen' = SubSeq(seen, 1, k + 1) /\ UNCHANGED gap
             ELSE seen' = <<Owed>> /\ gap' = "power"
    BY <1>14 DEF PowerLoss
  <2>2. Covered /\ file' = file /\ seen' = SubSeq(seen, 1, k + 1)
    BY <2>1 DEF Covered
  <2>3. k \in 0 .. Len(jfile.recs) /\ jfile.recs \in Seq(EditOp) /\ seen \in Seq(Content)
        /\ Len(seen) = Len(jfile.recs) + 1
    BY <2>2 DEF TypeOK, Log, LogExplainsDocument
  <2>4. /\ jfile' \in Log /\ Len(jfile'.recs) = k /\ DOMAIN jfile'.recs = 1 .. k
        /\ \A i \in 1 .. k : jfile'.recs[i] = jfile.recs[i]
        /\ jfile'.base = jfile.base /\ jfile'.state = jfile.state
    <3>1. jfile \in Log
      BY DEF TypeOK
    <3>2. /\ jfile' \in Log /\ Len(jfile'.recs) = k
          /\ \A i \in 1 .. k : jfile'.recs[i] = jfile.recs[i]
          /\ jfile'.base = jfile.base /\ jfile'.state = jfile.state
      BY <2>1, <2>3, <3>1, ShortLogType
    <3>3. jfile'.recs \in Seq(EditOp)
      BY <3>2 DEF Log
    <3> QED
      BY <3>2, <3>3
  <2>5. Len(seen') = k + 1 /\ \A i \in 1 .. k + 1 : seen'[i] = seen[i]
    BY <2>2, <2>3
  <2>6. ASSUME NEW i \in 1 .. k
        PROVE  /\ Applies(jfile'.recs[i], seen'[i])
               /\ Replace(jfile'.recs[i], seen'[i]) = seen'[i + 1]
    <3>1. i \in DOMAIN jfile.recs /\ i \in 1 .. k + 1 /\ i + 1 \in 1 .. k + 1
      BY <2>3
    <3> QED
      BY <2>2, <2>4, <2>5, <3>1 DEF LogExplainsDocument
  <2>7. jfile'.recs # << >> => LogIsLeftOver'
    <3>1. jfile'.recs # << >> => jfile.recs # << >>
      BY <2>3, <2>4
    <3> QED
      BY <2>2, <2>4, <3>1 DEF LogExplainsDocument, LogIsLeftOver
  <2>8. seen'[1] = file'
    BY <2>2, <2>3, <2>5 DEF LogExplainsDocument
  <2>9. pc' = "down"
    BY <1>14, DownText
  <2> QED
    BY <2>4, <2>5, <2>6, <2>7, <2>8, <2>9 DEF LogExplainsDocument
<1>15. CASE Writeback
  <2>1. Rope' = Rope /\ UNCHANGED <<file, jfile, pc, history>> /\ Owed' = Owed
    BY <1>15, QuietText DEF Writeback, Owed, history
  <2> QED
    BY <2>1, LogKeeps DEF LogExplainsDocument
<1> QED
  BY <1>1, <1>2, <1>3, <1>4, <1>5, <1>6, <1>7, <1>8, <1>9, <1>10, <1>11, <1>12, <1>13, <1>14,
     <1>15 DEF Next

-----------------------------------------------------------------------------
\* The screen, the replay, the flag and the sync counter.

LEMMA ShownNext ==
  ASSUME TypeOK, Arena, Memory, LogExplainsDocument, ReplayPlace, ShownIsOwed, Next
  PROVE  ShownIsOwed'
<1>1. CASE OpenWithRecovery \/ ReplayRecord
  BY <1>1 DEF OpenWithRecovery, ReplayRecord, ShownIsOwed, Up
<1>2. CASE OpenFresh
  <2>1. Rope' = file /\ seen' = <<file>>
    BY <1>2, OpenText DEF OpenFresh, Breach
  <2> QED
    BY <2>1 DEF ShownIsOwed, Owed
<1>3. CASE Recovered
  <2>1. Rope' = Rope
    BY <1>3, QuietText
  <2>2. CASE Covered
    BY <1>3, <2>1, <2>2, ReplayReaches DEF Recovered, ShownIsOwed, Owed
  <2>3. CASE ~Covered
    BY <1>3, <2>1, <2>3 DEF Recovered, ShownIsOwed, Owed
  <2> QED
    BY <2>2, <2>3
<1>4. ASSUME NEW op \in UserOps,
             Edit(op) \/ EditAppendFails(op) \/ EditSyncFails(op) \/ EditUnlogged(op)
      PROVE  ShownIsOwed'
  BY <1>4, EditText DEF ShownIsOwed
<1>5. CASE Undo \/ Redo
  BY <1>5, HistoryText DEF ShownIsOwed
<1>6. CASE SaveTruncatesFile
  <2>1. Rope' = Rope /\ seen' = <<Rope>>
    BY <1>6, QuietText DEF SaveTruncatesFile, Breach
  <2> QED
    BY <2>1 DEF ShownIsOwed, Owed
<1>7. CASE SaveWritesPart \/ SaveWritesRest \/ SaveTruncatesJournal \/ SaveFails
  <2>1. Rope' = Rope /\ Up /\ UNCHANGED history
    BY <1>7, QuietText DEF SaveWritesPart, SaveWritesRest, SaveTruncatesJournal, SaveFails, Up
  <2> QED
    BY <2>1 DEF ShownIsOwed, Owed, history
<1>8. CASE WriteHeader
  <2>1. Rope' = Rope /\ seen' = <<Rope>>
    BY <1>8, QuietText DEF WriteHeader
  <2> QED
    BY <2>1 DEF ShownIsOwed, Owed
<1>9. CASE Kill \/ KillMidAppend \/ PowerLoss
  BY <1>9, DownText DEF ShownIsOwed, Up
<1>10. CASE Writeback
  <2>1. Rope' = Rope /\ UNCHANGED <<pc, history>>
    BY <1>10, QuietText DEF Writeback
  <2> QED
    BY <2>1 DEF ShownIsOwed, Owed, Up, history
<1> QED
  BY <1>1, <1>2, <1>3, <1>4, <1>5, <1>6, <1>7, <1>8, <1>9, <1>10 DEF Next

LEMMA PlaceNext ==
  ASSUME TypeOK, Arena, Memory, LogExplainsDocument, ReplayPlace, Next
  PROVE  ReplayPlace'
<1>1. CASE OpenWithRecovery
  <2>1. Rope' = file /\ UNCHANGED history /\ pos' = 0
    BY <1>1, OpenText DEF OpenWithRecovery, Memory
  <2> QED
    BY <2>1 DEF LogExplainsDocument, ReplayPlace, Covered, history
<1>2. CASE ReplayRecord
  <2> SUFFICES ASSUME Covered'
               PROVE  Rope' = seen'[pos' + 1]
    BY DEF ReplayPlace
  <2>1. Covered /\ seen' = seen /\ pos' = pos + 1 /\ pos \in Nat
    BY <1>2 DEF ReplayRecord, Covered, history, TypeOK
  <2>2. Rope' = Replace(jfile.recs[pos + 1], Rope)
    BY <1>2, ReplayType, ResetArena DEF ReplayRecord
  <2>3. Rope' = seen[pos + 2]
    BY <1>2, <2>1, <2>2, ReplayReaches DEF ReplayRecord
  <2>4. pos' + 1 = pos + 2
    BY <2>1
  <2> QED
    BY <2>1, <2>3, <2>4
<1>3. CASE Writeback
  <2>1. Rope' = Rope /\ UNCHANGED <<pc, pos, history>>
    BY <1>3, QuietText DEF Writeback
  <2> QED
    BY <2>1 DEF ReplayPlace, Covered, history
<1>4. ASSUME NEW op \in UserOps,
             Edit(op) \/ EditAppendFails(op) \/ EditSyncFails(op) \/ EditUnlogged(op)
      PROVE  pc' # "replay"
  BY <1>4, EditText
<1>5. ASSUME \/ OpenFresh \/ Recovered \/ Undo \/ Redo
             \/ SaveTruncatesFile \/ SaveWritesPart \/ SaveWritesRest
             \/ SaveTruncatesJournal \/ WriteHeader \/ SaveFails
             \/ Kill \/ KillMidAppend \/ PowerLoss
      PROVE  pc' # "replay"
  BY <1>5, HistoryText, DownText
     DEF OpenFresh, Recovered, SaveTruncatesFile, SaveWritesPart, SaveWritesRest,
         SaveTruncatesJournal, WriteHeader, SaveFails
<1> QED
  BY <1>1, <1>2, <1>3, <1>4, <1>5 DEF Next, ReplayPlace

LEMMA CleanNext ==
  ASSUME TypeOK, Arena, Memory, CleanMeansSaved, Next
  PROVE  CleanMeansSaved'
<1>1. ASSUME NEW op \in UserOps,
             Edit(op) \/ EditAppendFails(op) \/ EditSyncFails(op) \/ EditUnlogged(op)
      PROVE  CleanMeansSaved'
  BY <1>1, EditText DEF CleanMeansSaved
<1>2. CASE Undo \/ Redo
  BY <1>2, HistoryText DEF CleanMeansSaved
<1>3. CASE Recovered
  BY <1>3 DEF Recovered, CleanMeansSaved
<1>4. CASE WriteHeader
  BY <1>4, QuietText DEF WriteHeader, Memory, CleanMeansSaved
<1>5. CASE SaveFails
  BY <1>5 DEF SaveFails, Memory, CleanMeansSaved, history
<1>6. CASE Writeback
  <2>1. Rope' = Rope /\ UNCHANGED <<file, pc, dirty, gap>>
    BY <1>6, QuietText DEF Writeback, flags, history
  <2> QED
    BY <2>1 DEF CleanMeansSaved
<1>7. ASSUME \/ OpenWithRecovery \/ OpenFresh \/ ReplayRecord
             \/ SaveTruncatesFile \/ SaveWritesPart \/ SaveWritesRest \/ SaveTruncatesJournal
             \/ Kill \/ KillMidAppend \/ PowerLoss
      PROVE  pc' # "running"
  BY <1>7, DownText
     DEF OpenWithRecovery, OpenFresh, ReplayRecord, SaveTruncatesFile, SaveWritesPart,
         SaveWritesRest, SaveTruncatesJournal
<1> QED
  BY <1>1, <1>2, <1>3, <1>4, <1>5, <1>6, <1>7 DEF Next, CleanMeansSaved

LEMMA WindowNext ==
  ASSUME TypeOK, Arena, Memory, Window, Next
  PROVE  Window'
<1>1. ASSUME UNCHANGED <<jfile, synced, journal, sinceSync, recovered>>
      PROVE  Window'
  BY <1>1 DEF Window
<1>2. ASSUME NEW op \in UserOps, Edit(op)
      PROVE  Window'
  <2>1. recovered' = recovered /\ journal /\ AppendRecord(op) /\ pos = 0
    BY <1>2, EditText DEF Edit
  <2>2. Len(jfile'.recs) - synced' <= sinceSync' \/ Len(jfile.recs) - synced > sinceSync
    BY <2>1, AppendRecordType
  <2>3. Len(jfile.recs) \in Nat /\ synced \in Nat /\ sinceSync \in Nat
    BY DEF TypeOK, Log
  <2>4. ~(Len(jfile.recs) - synced <= sinceSync /\ Len(jfile.recs) - synced > sinceSync)
    BY <2>3
  <2>5. CASE Len(jfile'.recs) - synced' <= sinceSync'
    BY <2>5 DEF Window
  <2>6. CASE ~(Len(jfile.recs) - synced <= sinceSync)
    BY <2>1, <2>6 DEF Window
  <2> QED
    BY <2>2, <2>4, <2>5, <2>6
<1>3. ASSUME NEW op \in UserOps, EditAppendFails(op) \/ EditSyncFails(op)
      PROVE  Window'
  BY <1>3 DEF EditAppendFails, EditSyncFails, Window
<1>4. ASSUME NEW op \in UserOps, EditUnlogged(op)
      PROVE  Window'
  BY <1>1, <1>4 DEF EditUnlogged, disk, handle
<1>5. CASE Undo \/ Redo
  BY <1>1, <1>5, HistoryText DEF disk, handle
<1>6. ASSUME OpenFresh \/ SaveTruncatesJournal \/ WriteHeader
      PROVE  Window'
  <2>1. Len(jfile'.recs) = 0 /\ synced' = 0 /\ (sinceSync' = 0 \/ sinceSync' = sinceSync)
    BY <1>6 DEF OpenFresh, SaveTruncatesJournal, WriteHeader, Headless, FreshLog, handle
  <2>2. sinceSync \in Nat
    BY DEF TypeOK
  <2>3. Len(jfile'.recs) - synced' <= sinceSync'
    BY <2>1, <2>2
  <2> QED
    BY <2>3 DEF Window
<1>7. CASE Recovered
  BY <1>7 DEF Recovered, Window
<1>8. CASE Kill \/ KillMidAppend \/ PowerLoss
  BY <1>8, DownText DEF Window
<1>9. CASE Writeback
  <2>1. Len(jfile.recs) \in Nat /\ sinceSync \in Nat
    BY DEF TypeOK, Log
  <2>2. Len(jfile'.recs) - synced' <= sinceSync'
    BY <1>9, <2>1 DEF Writeback, handle
  <2> QED
    BY <2>2 DEF Window
<1>10. ASSUME \/ OpenWithRecovery \/ ReplayRecord \/ SaveTruncatesFile \/ SaveWritesPart
              \/ SaveWritesRest \/ SaveFails
       PROVE  Window'
  BY <1>1, <1>10 DEF OpenWithRecovery, ReplayRecord, SaveTruncatesFile, SaveWritesPart,
                     SaveWritesRest, SaveFails, disk, handle, flags
<1> QED
  BY <1>2, <1>3, <1>4, <1>5, <1>6, <1>7, <1>8, <1>9, <1>10 DEF Next

-----------------------------------------------------------------------------
\* The inductive invariant holds.

LEMMA InitInv == Init => IInv
<1> SUFFICES ASSUME Init
             PROVE  IInv
  OBVIOUS
<1>1. /\ nodes = << [rope |-> << >>, parent |-> 0, lastChild |-> 0] >> /\ current = 1
      /\ file \in Content /\ seen = <<file>>
  BY DEF Init, Rooted
<1>2. nodes \in Seq(Node) /\ Len(nodes) = 1 /\ DOMAIN nodes = {1}
  BY <1>1 DEF Node, Content
<1>3. TreeShape
  BY <1>1, <1>2 DEF TreeShape, NodeIds, Children
<1>4. jfile \in Log /\ jfile.recs = << >>
  BY FreshLogType DEF Init, Absent
<1>5. seen \in Seq(Content) \ {<< >>}
  BY <1>1
<1>6. TypeOK
  <2>1. journal \in BOOLEAN /\ dirty \in BOOLEAN /\ recovered \in BOOLEAN /\ journalError \in BOOLEAN
    BY DEF Init
  <2>2. sinceSync \in 0 .. MaxOps - 1 /\ faults \in 0 .. MaxFaults /\ gap \in Gap
    BY DEF Init, Gap
  <2>3. /\ synced \in 0 .. Len(jfile.recs) /\ pos \in 0 .. Len(jfile.recs)
        /\ fileOnDisk \in Content /\ pc = "down"
    BY <1>1, <1>4 DEF Init
  <2> QED
    BY <1>1, <1>2, <1>3, <1>4, <1>5, <2>1, <2>2, <2>3 DEF TypeOK, TreeShape
<1>7. Memory /\ ShownIsOwed /\ ReplayPlace /\ CleanMeansSaved /\ Window
  BY DEF Init, Memory, ShownIsOwed, ReplayPlace, CleanMeansSaved, Window, Up
<1>8. LogExplainsDocument
  BY <1>1, <1>4 DEF Init, LogExplainsDocument
<1> QED
  BY <1>3, <1>6, <1>7, <1>8 DEF IInv

LEMMA NextInv == IInv /\ [Next]_vars => IInv'
<1> SUFFICES ASSUME IInv, [Next]_vars
             PROVE  IInv'
  OBVIOUS
<1>1. TypeOK /\ Arena /\ Memory /\ ShownIsOwed /\ ReplayPlace /\ LogExplainsDocument
      /\ CleanMeansSaved /\ Window
  BY DEF IInv, Arena, TypeOK
<1>2. CASE Next
  BY <1>1, <1>2, ArenaNext, TypeNext, MemoryNext, ShownNext, PlaceNext, LogNext, CleanNext,
     WindowNext DEF IInv, Arena
<1>3. CASE UNCHANGED vars
  <2>1. TypeOK' /\ TreeShape'
    BY <1>1, <1>3 DEF vars, disk, handle, flags, history, TypeOK, TreeShape, NodeIds, Children, Arena
  <2>2. Rope' = Rope
    BY <1>3 DEF vars, Rope
  <2>3. Memory' /\ ShownIsOwed' /\ ReplayPlace' /\ CleanMeansSaved' /\ Window'
    BY <1>1, <1>3, <2>2 DEF vars, disk, handle, flags, history, Memory, ShownIsOwed, ReplayPlace,
       CleanMeansSaved, Window, Covered, LogIsLeftOver, Owed, Up
  <2>4. LogExplainsDocument'
    BY <1>1, <1>3, <2>2, LogKeeps DEF vars, disk, history, LogExplainsDocument, Owed
  <2> QED
    BY <2>1, <2>3, <2>4 DEF IInv
<1> QED
  BY <1>2, <1>3

\* The invariant behind the theorems below.
THEOREM Invariance == Spec => []IInv
<1>1. Init => IInv
  BY InitInv
<1>2. IInv /\ [Next]_vars => IInv'
  BY NextInv
<1> QED
  BY <1>1, <1>2, PTL DEF Spec

-----------------------------------------------------------------------------
\* The theorems.

\* Every variable keeps its type, whatever is killed, fails or loses power.
THEOREM TypeCorrect == Spec => []TypeOK
<1>1. IInv => TypeOK
  BY DEF IInv
<1> QED
  BY <1>1, Invariance, PTL

\* The undo history of a document is a tree in which redo can always come back
\* to where undo left (undo.rs).
THEOREM HistoryIsTree == Spec => []TreeShape
<1>1. IInv => TreeShape
  BY DEF IInv
<1> QED
  BY <1>1, Invariance, PTL

\* As long as nothing bypassed it, the log leads from the file through every
\* text the user saw to the text on the screen (journal.rs).
THEOREM LogExplains == Spec => []LogExplainsDocument
<1>1. IInv => LogExplainsDocument
  BY DEF IInv
<1> QED
  BY <1>1, Invariance, PTL

\* A recovery passes only through texts the user saw and reaches the last.
THEOREM Retraces == Spec => []RecoveryRetraces
<1>1. IInv => RecoveryRetraces
  BY ReplayReaches DEF IInv
<1> QED
  BY <1>1, Invariance, PTL

\* A document without unsaved changes has its text in its file (is_dirty).
THEOREM CleanIsSaved == Spec => []CleanMeansSaved
<1>1. IInv => CleanMeansSaved
  BY DEF IInv
<1> QED
  BY <1>1, Invariance, PTL

\* A power loss costs fewer edits than the flush policy's max_ops, for every
\* max_ops, in a session that did not begin with a recovery.
THEOREM HardCrashLosesLess == Spec => []HardCrashWindow
<1>1. IInv => HardCrashWindow
  <2> SUFFICES ASSUME IInv, pc = "running", journal, ~recovered
               PROVE  Len(jfile.recs) - synced < MaxOps
    BY DEF HardCrashWindow
  <2>1. Len(jfile.recs) - synced <= sinceSync
    BY DEF IInv, Window
  <2>2. Len(jfile.recs) \in Nat /\ synced \in Nat /\ sinceSync \in 0 .. MaxOps - 1
    BY DEF IInv, TypeOK, Log
  <2> QED
    BY <2>1, <2>2
<1> QED
  BY <1>1, Invariance, PTL

-----------------------------------------------------------------------------
\* Redo after undo.

LEMMA RedoStep == IInv /\ [Next]_vars =>
                    (/\ nodes[current].parent # 0 /\ current' = nodes[current].parent
                     /\ pc' = "running"
                     => RedoTarget(current)' = current) \/ UNCHANGED vars
<1> SUFFICES ASSUME IInv, Next,
                    nodes[current].parent # 0, current' = nodes[current].parent, pc' = "running"
             PROVE  RedoTarget(current)' = current
  OBVIOUS
<1>1. TypeOK /\ Arena /\ Memory
  BY DEF IInv, TypeOK, Arena
<1>2. nodes \in Seq(Node) /\ current \in 1 .. Len(nodes) /\ nodes[current].parent \in 0 .. current - 1
  BY <1>1 DEF Arena, TreeShape, NodeIds
<1>3. current' < current
  BY <1>2
<1>4. CASE Undo
  BY <1>1, <1>4, StepBackArena DEF Undo, HistoryMove
<1>5. CASE Redo
  <2>1. current' = RedoTarget(current) /\ RedoTarget(current) # 0
    BY <1>5 DEF Redo, HistoryMove, StepForward
  <2>2. nodes[current].lastChild # 0
    <3> SUFFICES ASSUME nodes[current].lastChild = 0
                 PROVE  FALSE
      OBVIOUS
    <3>1. Children(current) = {}
      BY <1>1 DEF Arena, TreeShape
    <3> QED
      BY <2>1, <3>1 DEF RedoTarget
  <2>3. current' = nodes[current].lastChild
    BY <2>1, <2>2 DEF RedoTarget
  <2>4. current' \in 1 .. Len(nodes) /\ nodes[current'].parent = current
    BY <1>1, <1>2, <2>2, <2>3 DEF Arena, TreeShape, NodeIds
  <2>5. nodes[current'].parent \in 0 .. current' - 1
    BY <1>1, <1>2, <2>4 DEF Arena, TreeShape, NodeIds
  <2> QED
    BY <1>2, <1>3, <2>4, <2>5
<1>6. ASSUME NEW op \in UserOps,
             Edit(op) \/ EditAppendFails(op) \/ EditSyncFails(op) \/ EditUnlogged(op)
      PROVE  FALSE
  <2>1. current' = Len(nodes) + 1
    BY <1>6 DEF Edit, EditAppendFails, EditSyncFails, EditUnlogged, Record
  <2> QED
    BY <1>2, <1>3, <2>1
<1>7. ASSUME Recovered \/ WriteHeader \/ SaveFails \/ Writeback
      PROVE  FALSE
  <2>1. current' = current
    BY <1>7 DEF Recovered, WriteHeader, SaveFails, Writeback
  <2> QED
    BY <1>2, <1>3, <2>1
<1>8. ASSUME \/ OpenWithRecovery \/ OpenFresh \/ ReplayRecord
             \/ SaveTruncatesFile \/ SaveWritesPart \/ SaveWritesRest \/ SaveTruncatesJournal
             \/ Kill \/ KillMidAppend \/ PowerLoss
      PROVE  FALSE
  BY <1>8, DownText
     DEF OpenWithRecovery, OpenFresh, ReplayRecord, SaveTruncatesFile, SaveWritesPart,
         SaveWritesRest, SaveTruncatesJournal
<1> QED
  BY <1>4, <1>5, <1>6, <1>7, <1>8 DEF Next

\* Redo after an undo comes back to the node the undo left, however the
\* history has branched (undo.rs).
THEOREM RedoReturns == Spec => RedoUndoesUndo
<1>1. Spec => [][Next]_vars
  BY PTL DEF Spec
<1> QED
  BY <1>1, RedoStep, Invariance, PTL DEF RedoUndoesUndo

-----------------------------------------------------------------------------
\* The promise, step by step.

LEMMA LastAlone ==
  ASSUME NEW s \in Seq(Content), s # << >>
  PROVE  SubSeq(s, Len(s), Len(s)) = <<s[Len(s)]>>
<1>1. Len(s) \in Nat \ {0} /\ s[Len(s)] \in Content
  BY EmptySeq
<1>2. /\ SubSeq(s, Len(s), Len(s)) \in Seq(Content)
      /\ Len(SubSeq(s, Len(s), Len(s))) = 1
      /\ SubSeq(s, Len(s), Len(s))[1] = s[Len(s)]
  BY <1>1, SubSeqProperties
<1>3. <<s[Len(s)]>> \in Seq(Content) /\ Len(<<s[Len(s)]>>) = 1 /\ <<s[Len(s)]>>[1] = s[Len(s)]
  BY <1>1
<1>4. \A i \in 1 .. 1 : SubSeq(s, Len(s), Len(s))[i] = <<s[Len(s)]>>[i]
  BY <1>2, <1>3
<1> QED
  BY <1>2, <1>3, <1>4, SeqEqual

\* A suffix of a sequence grows with it.
LEMMA SuffixGrows ==
  ASSUME NEW s \in Seq(Content), NEW x \in Content, NEW m \in 0 .. Len(s) - 1
  PROVE  SubSeq(Append(s, x), m + 1, Len(s) + 1) = Append(SubSeq(s, m + 1, Len(s)), x)
<1> DEFINE n == Len(s)
           t == Append(s, x)
           old == SubSeq(s, m + 1, n)
           new == SubSeq(t, m + 1, n + 1)
<1>1. n \in Nat /\ m \in Nat /\ m + 1 <= n /\ m + 1 \in Int /\ n + 1 \in Int
  OBVIOUS
<1>2. /\ t \in Seq(Content) /\ Len(t) = n + 1
      /\ \A i \in 1 .. n : t[i] = s[i]
      /\ t[n + 1] = x
  BY AppendProperties
<1> HIDE DEF t
<1>3. /\ old \in Seq(Content) /\ Len(old) = n - m
      /\ \A i \in 1 .. n - m : old[i] = s[m + i]
  <2>1. \A i \in m + 1 .. n : s[i] \in Content
    BY <1>1
  <2>2. /\ old \in Seq(Content)
        /\ Len(old) = IF m + 1 <= n THEN n - (m + 1) + 1 ELSE 0
        /\ \A i \in 1 .. n - (m + 1) + 1 : old[i] = s[(m + 1) + i - 1]
    BY <1>1, <2>1, SubSeqProperties
  <2> QED
    BY <1>1, <2>2
<1>4. /\ new \in Seq(Content) /\ Len(new) = n + 1 - m
      /\ \A i \in 1 .. n + 1 - m : new[i] = t[m + i]
  <2>1. \A i \in m + 1 .. n + 1 : t[i] \in Content
    BY <1>1, <1>2
  <2>2. /\ new \in Seq(Content)
        /\ Len(new) = IF m + 1 <= n + 1 THEN (n + 1) - (m + 1) + 1 ELSE 0
        /\ \A i \in 1 .. (n + 1) - (m + 1) + 1 : new[i] = t[(m + 1) + i - 1]
    BY <1>1, <2>1, SubSeqProperties
  <2> QED
    BY <1>1, <2>2
<1> HIDE DEF old, new
<1>5. /\ Append(old, x) \in Seq(Content) /\ Len(Append(old, x)) = n + 1 - m
      /\ \A i \in 1 .. n - m : Append(old, x)[i] = old[i]
      /\ Append(old, x)[n + 1 - m] = x
  <2>1. /\ Append(old, x) \in Seq(Content) /\ Len(Append(old, x)) = Len(old) + 1
        /\ \A i \in 1 .. Len(old) : Append(old, x)[i] = old[i]
        /\ Append(old, x)[Len(old) + 1] = x
    BY <1>3, AppendProperties
  <2>2. Len(old) + 1 = n + 1 - m
    BY <1>1, <1>3
  <2> QED
    BY <1>3, <2>1, <2>2
<1>6. ASSUME NEW i \in 1 .. n + 1 - m
      PROVE  new[i] = Append(old, x)[i]
  <2>1. CASE i = n + 1 - m
    <3>1. m + i = n + 1
      BY <1>1, <2>1
    <3>2. new[i] = t[n + 1]
      BY <1>4, <3>1
    <3> QED
      BY <1>2, <1>5, <2>1, <3>2
  <2>2. CASE i \in 1 .. n - m
    <3>1. m + i \in 1 .. n
      BY <1>1, <2>2
    <3>2. new[i] = t[m + i]
      BY <1>4
    <3>3. t[m + i] = s[m + i]
      BY <1>2, <3>1
    <3>4. Append(old, x)[i] = s[m + i]
      BY <1>3, <1>5, <2>2
    <3> QED
      BY <3>2, <3>3, <3>4
  <2>3. i = n + 1 - m \/ i \in 1 .. n - m
    BY <1>1
  <2> QED
    BY <2>1, <2>2, <2>3
<1>7. new = Append(old, x)
  BY <1>1, <1>4, <1>5, <1>6, SeqEqual
<1> QED
  BY <1>7 DEF new, old, t

\* The parts of the invariant the steps below need.
LEMMA Unfold ==
  ASSUME IInv
  PROVE  /\ TypeOK /\ Arena /\ Memory /\ LogExplainsDocument /\ ReplayPlace /\ ShownIsOwed
         /\ seen \in Seq(Content) \ {<< >>} /\ Len(seen) \in Nat
         /\ jfile.recs \in Seq(EditOp) /\ Len(jfile.recs) \in Nat
         /\ synced \in 0 .. Len(jfile.recs)
         /\ Owed \in Content /\ Rope \in Content
         /\ Covered => Len(seen) = Len(jfile.recs) + 1
<1>1. TypeOK /\ Arena
  BY DEF IInv, TypeOK, Arena
<1>2. /\ seen \in Seq(Content) \ {<< >>} /\ Len(seen) \in Nat
      /\ jfile.recs \in Seq(EditOp) /\ Len(jfile.recs) \in Nat
      /\ synced \in 0 .. Len(jfile.recs)
  BY <1>1 DEF TypeOK, Log
<1>3. Owed \in Content
  BY <1>2, EmptySeq DEF Owed
<1> QED
  BY <1>1, <1>2, <1>3, RopeType DEF IInv, LogExplainsDocument

LEMMA NextOwedType ==
  ASSUME IInv'
  PROVE  Owed' \in Content
<1>1. seen' \in Seq(Content) \ {<< >>}
  BY DEF IInv, TypeOK
<1>2. Len(seen') \in 1 .. Len(seen')
  BY <1>1, EmptySeq
<1> QED
  BY <1>1, <1>2 DEF Owed

\* What the user sees outside of a replay and the flushed texts are those of
\* the promise; an uncovered document has none.
LEMMA Uncovered ==
  /\ ~Covered => Unflushed = << >>
  /\ ~Covered' => Unflushed' = << >>
BY DEF Unflushed

\* A step in which the promise is out of force, before and after.
LEMMA StaysUnprotected ==
  ASSUME IInv', ~Covered, ~Covered'
  PROVE  Promise!Next
<1>1. Covered = FALSE /\ Covered' = FALSE /\ Unflushed = << >> /\ Unflushed' = << >>
  BY Uncovered DEF Covered
<1>2. Up' \in BOOLEAN
  BY DEF Up
<1>3. Promise!Unprotected
  BY <1>1, <1>2, NextOwedType DEF Promise!Unprotected
<1> QED
  BY <1>3 DEF Promise!Next

\* A step by which a running document leaves the log behind.
LEMMA IsBreach ==
  ASSUME IInv', Up, Up', ~Covered'
  PROVE  Promise!Next
<1>1. Up = TRUE /\ Up' = TRUE /\ Covered' = FALSE /\ Unflushed' = << >>
  BY Uncovered DEF Up, Covered
<1>2. Promise!Breach
  BY <1>1, NextOwedType DEF Promise!Breach
<1> QED
  BY <1>2 DEF Promise!Next

\* A step the user does not see.
LEMMA IsStutter ==
  ASSUME UNCHANGED <<seen, gap>>, Up' = Up, synced' = synced \/ ~Covered
  PROVE  UNCHANGED Promise!vars
<1>1. Owed' = Owed /\ Covered' = Covered
  BY DEF Owed, Covered
<1>2. Unflushed' = Unflushed
  BY <1>1 DEF Unflushed
<1> QED
  BY <1>1, <1>2 DEF Promise!vars

\* A record is written, and perhaps synced.
LEMMA IsEdit ==
  ASSUME IInv, IInv', NEW op \in UserOps, pc = "running", pc' = "running",
         jfile' = [jfile EXCEPT !.recs = Append(@, op)],
         LogCovers(Replace(op, Rope)),
         synced' = synced \/ synced' = Len(jfile'.recs)
  PROVE  Promise!Next
<1> DEFINE n == Len(jfile.recs)
           rope == Replace(op, Rope)
<1>1. Up = TRUE /\ Up' = TRUE
  BY DEF Up
<1>2. /\ op \in EditOp /\ rope \in Content
      /\ seen \in Seq(Content) \ {<< >>} /\ n \in Nat /\ synced \in 0 .. n
      /\ Covered => Len(seen) = n + 1
  BY Unfold, UserOpsType
<1>3. Len(jfile'.recs) = n + 1
  BY <1>2, Unfold, AppendLogType DEF TypeOK
<1>4. CASE Covered
  <2>1. Covered = TRUE /\ Covered' = TRUE
    BY <1>4 DEF LogCovers, Covered
  <2>2. seen' = Append(seen, rope) /\ Len(seen) = n + 1
    BY <1>2, <1>4 DEF LogCovers
  <2>3. /\ seen' \in Seq(Content) /\ seen' # << >> /\ Len(seen') = n + 2
        /\ \A i \in 1 .. n + 1 : seen'[i] = seen[i]
        /\ seen'[n + 2] = rope
    <3> seen \in Seq(Content) /\ rope \in Content
      BY <1>2
    <3> HIDE DEF rope
    <3>1. /\ Append(seen, rope) \in Seq(Content) /\ Append(seen, rope) # << >>
          /\ Len(Append(seen, rope)) = Len(seen) + 1
          /\ \A i \in 1 .. Len(seen) : Append(seen, rope)[i] = seen[i]
          /\ Append(seen, rope)[Len(seen) + 1] = rope
      BY AppendProperties
    <3>2. Len(seen) + 1 = n + 2
      BY <1>2, <2>2
    <3> QED
      BY <2>2, <3>1, <3>2
  <2>4. Owed' = rope
    BY <1>2, <2>3 DEF Owed
  <2>5. CASE synced' = n + 1
    <3>1. Unflushed' = SubSeq(seen', Len(seen'), Len(seen'))
      BY <1>2, <2>1, <2>3, <2>5 DEF Unflushed
    <3>2. Unflushed' = <<rope>>
      BY <2>3, <3>1, LastAlone
    <3>3. Promise!Edit
      BY <1>1, <1>2, <2>1, <2>4, <3>2 DEF Promise!Edit
    <3> QED
      BY <3>3 DEF Promise!Next
  <2>6. CASE synced' = synced
    <3>1. Unflushed = SubSeq(seen, synced + 1, n + 1) /\ Unflushed' = SubSeq(seen', synced + 1, n + 2)
      BY <2>1, <2>2, <2>3, <2>6 DEF Unflushed
    <3>2. Unflushed' = Append(Unflushed, rope)
      <4>1. synced \in 0 .. Len(seen) - 1 /\ Len(seen) = n + 1 /\ Len(seen) + 1 = n + 2
        BY <1>2, <2>2
      <4>2. SubSeq(Append(seen, rope), synced + 1, n + 2) = Append(SubSeq(seen, synced + 1, n + 1), rope)
        BY <1>2, <4>1, SuffixGrows
      <4> QED
        BY <2>2, <3>1, <4>2
    <3>3. Promise!Edit
      BY <1>1, <1>2, <2>1, <2>4, <3>2 DEF Promise!Edit
    <3> QED
      BY <3>3 DEF Promise!Next
  <2> QED
    BY <1>3, <2>5, <2>6
<1>5. CASE ~Covered
  BY <1>5, StaysUnprotected DEF LogCovers, Covered
<1> QED
  BY <1>4, <1>5

LEMMA IsHardCrash ==
  ASSUME IInv, IInv', PowerLoss
  PROVE  Promise!Next
<1>1. Up' = FALSE
  BY DownText DEF Up
<1>2. PICK k \in synced .. Len(jfile.recs), torn \in BOOLEAN :
        /\ jfile' = [jfile EXCEPT !.recs = SubSeq(@, 1, k), !.torn = torn]
        /\ synced' = k
        /\ IF Covered /\ file' = file
           THEN seen' = SubSeq(seen, 1, k + 1) /\ UNCHANGED gap
           ELSE seen' = <<Owed>> /\ gap' = "power"
  BY DEF PowerLoss
<1>3. CASE Covered /\ file' = file
  <2> DEFINE n == Len(jfile.recs)
  <2>1. /\ seen \in Seq(Content) /\ Len(seen) = n + 1 /\ n \in Nat
        /\ synced \in 0 .. n /\ k \in synced .. n /\ k \in 0 .. n
    BY <1>3, Unfold
  <2>2. Covered = TRUE /\ Covered' = TRUE /\ seen' = SubSeq(seen, 1, k + 1)
    BY <1>2, <1>3 DEF Covered
  <2>3. /\ seen' \in Seq(Content) /\ seen' # << >> /\ Len(seen') = k + 1
        /\ seen'[k + 1] = seen[k + 1]
    BY <2>1, <2>2
  <2>4. Owed' = seen[k + 1]
    BY <2>3 DEF Owed
  <2>5. Unflushed' = <<Owed'>>
    <3>1. Unflushed' = SubSeq(seen', Len(seen'), Len(seen'))
      BY <1>2, <2>2, <2>3 DEF Unflushed
    <3> QED
      BY <2>3, <2>4, <3>1, LastAlone
  <2>6. /\ Len(Unflushed) = n + 1 - synced
        /\ Unflushed[k - synced + 1] = seen[k + 1]
    <3>1. Unflushed = SubSeq(seen, synced + 1, n + 1)
      BY <2>1, <2>2 DEF Unflushed
    <3>2. \A i \in synced + 1 .. n + 1 : seen[i] \in Content
      BY <2>1
    <3>3. /\ Len(Unflushed) = IF synced + 1 <= n + 1 THEN (n + 1) - (synced + 1) + 1 ELSE 0
          /\ \A i \in 1 .. (n + 1) - (synced + 1) + 1 : Unflushed[i] = seen[(synced + 1) + i - 1]
      BY <2>1, <3>1, <3>2, SubSeqProperties
    <3>4. /\ k - synced + 1 \in 1 .. (n + 1) - (synced + 1) + 1
          /\ (synced + 1) + (k - synced + 1) - 1 = k + 1
      BY <2>1
    <3>5. Unflushed[k - synced + 1] = seen[k + 1]
      BY <3>3, <3>4
    <3> QED
      BY <2>1, <3>3, <3>5
  <2>7. k - synced + 1 \in 1 .. Len(Unflushed)
    BY <2>1, <2>6
  <2>8. Promise!HardCrash
    BY <1>1, <2>2, <2>4, <2>5, <2>6, <2>7 DEF Promise!HardCrash
  <2> QED
    BY <2>8 DEF Promise!Next
<1>4. CASE Covered /\ file' # file
  <2>1. Covered = TRUE /\ Covered' = FALSE /\ Unflushed' = << >>
    BY <1>2, <1>4, Uncovered DEF Covered
  <2>2. Promise!HardCrashAfterSave
    BY <1>1, <2>1, NextOwedType DEF Promise!HardCrashAfterSave
  <2> QED
    BY <2>2 DEF Promise!Next
<1>5. CASE ~Covered
  <2>1. ~Covered'
    BY <1>2, <1>5 DEF Covered
  <2> QED
    BY <1>5, <2>1, StaysUnprotected
<1> QED
  BY <1>3, <1>4, <1>5

LEMMA IsOpening ==
  ASSUME IInv, IInv', OpenFresh \/ Recovered
  PROVE  Promise!Next
<1>1. Up = FALSE /\ Up' = TRUE
  BY DEF OpenFresh, Recovered, Up
<1>2. ASSUME OpenFresh, Covered
      PROVE  Promise!Next
  <2>1. Covered = TRUE /\ Covered' = FALSE /\ Unflushed' = << >> /\ Owed' = file
    BY <1>2, Uncovered DEF OpenFresh, Breach, Covered, Owed
  <2>2. Owed = file
    <3>1. jfile.recs = << >>
      BY <1>2, Unfold DEF OpenFresh, LogExplainsDocument
    <3>2. Len(seen) = 1
      BY <1>2, <3>1, Unfold
    <3> QED
      BY <1>2, <3>2, Unfold DEF Owed, LogExplainsDocument
  <2>3. Promise!Restart
    BY <1>1, <2>1, <2>2 DEF Promise!Restart
  <2> QED
    BY <2>3 DEF Promise!Next
<1>3. ASSUME Recovered, Covered
      PROVE  Promise!Next
  <2>1. /\ Covered = TRUE /\ Covered' = TRUE /\ Owed' = Owed
        /\ UNCHANGED <<seen, synced>>
    BY <1>3 DEF Recovered, Covered, Owed, disk
  <2>2. Unflushed' = Unflushed
    BY <2>1 DEF Unflushed
  <2>3. Promise!Restart
    BY <1>1, <2>1, <2>2 DEF Promise!Restart
  <2> QED
    BY <2>3 DEF Promise!Next
<1>4. ASSUME OpenFresh \/ Recovered, ~Covered
      PROVE  Promise!Next
  <2>1. ~Covered'
    BY <1>4 DEF OpenFresh, Recovered, Breach, Covered
  <2> QED
    BY <1>4, <2>1, StaysUnprotected
<1> QED
  BY <1>2, <1>3, <1>4

\* The checkpoint and the kernel's flush leave nothing to lose.
LEMMA IsCheckpoint ==
  ASSUME IInv, IInv', WriteHeader
  PROVE  Promise!Next
<1>1. Up = TRUE /\ Up' = TRUE /\ Covered' = TRUE
  BY DEF WriteHeader, Up, Covered
<1>2. seen' = <<Rope>> /\ synced' = 0 /\ Rope \in Content
  BY Unfold DEF WriteHeader
<1>3. Owed' = Owed
  <2>1. Owed = Rope
    BY <1>1, Unfold DEF ShownIsOwed
  <2> QED
    BY <1>2, <2>1 DEF Owed
<1>4. Unflushed' = <<Owed>>
  <2>1. /\ seen' \in Seq(Content) /\ seen' # << >> /\ Len(seen') = 1
        /\ seen'[1] = Rope
    BY <1>2
  <2>2. Unflushed' = SubSeq(seen', Len(seen'), Len(seen'))
    BY <1>1, <1>2, <2>1 DEF Unflushed
  <2>3. Unflushed' = <<Rope>>
    BY <2>1, <2>2, LastAlone
  <2> QED
    BY <1>1, <2>3, Unfold DEF ShownIsOwed
<1>5. Promise!Checkpoint
  BY <1>1, <1>3, <1>4 DEF Promise!Checkpoint
<1> QED
  BY <1>5 DEF Promise!Next

LEMMA IsFlush ==
  ASSUME IInv, IInv', Writeback
  PROVE  [Promise!Next]_(Promise!vars)
<1>1. UNCHANGED <<pc, seen, gap, jfile>> /\ synced' = Len(jfile.recs)
  BY DEF Writeback, history
<1>2. Up' = Up /\ Covered' = Covered /\ Owed' = Owed
  BY <1>1 DEF Up, Covered, Owed
<1>3. CASE Covered
  <2>1. /\ seen \in Seq(Content) /\ seen # << >> /\ Len(seen) = Len(jfile.recs) + 1
        /\ Len(jfile.recs) \in Nat
    BY <1>3, Unfold
  <2>2. Unflushed' = SubSeq(seen, Len(seen), Len(seen))
    BY <1>1, <1>2, <1>3, <2>1 DEF Unflushed
  <2>3. Unflushed' = <<Owed>>
    BY <2>1, <2>2, LastAlone DEF Owed
  <2>4. Promise!Flush
    BY <1>2, <1>3, <2>3 DEF Promise!Flush, Covered
  <2> QED
    BY <2>4 DEF Promise!Next
<1>4. CASE ~Covered
  BY <1>1, <1>2, <1>4, IsStutter
<1> QED
  BY <1>3, <1>4

LEMMA IsKill ==
  ASSUME IInv, IInv', Kill \/ KillMidAppend
  PROVE  [Promise!Next]_(Promise!vars)
<1>1. Up' = FALSE /\ UNCHANGED <<seen, gap, synced>>
  BY DownText DEF Kill, KillMidAppend, Up, disk, history
<1>2. CASE Up
  <2>1. Owed' = Owed /\ Covered' = Covered
    BY <1>1 DEF Owed, Covered
  <2>2. Unflushed' = Unflushed
    BY <1>1, <2>1 DEF Unflushed
  <2>3. Up = TRUE
    BY <1>2 DEF Up
  <2>4. Promise!Kill
    BY <1>1, <2>1, <2>2, <2>3 DEF Promise!Kill
  <2> QED
    BY <2>4 DEF Promise!Next
<1>3. CASE ~Up
  <2>1. Up' = Up
    BY <1>1, <1>3 DEF Up
  <2> QED
    BY <1>1, <2>1, IsStutter
<1> QED
  BY <1>2, <1>3

-----------------------------------------------------------------------------
\* Document implements CrashSafeText.

LEMMA PromiseInit == Init => Promise!Init
<1> SUFFICES ASSUME Init
             PROVE  Promise!Init
  OBVIOUS
<1>1. Up = FALSE /\ Covered = TRUE
  BY DEF Init, Up, Covered
<1>2. file \in Content /\ seen = <<file>> /\ synced = 0
  BY DEF Init
<1>3. seen \in Seq(Content) /\ seen # << >> /\ Len(seen) = 1 /\ Owed = file
  BY <1>2 DEF Owed
<1>4. Unflushed = SubSeq(seen, Len(seen), Len(seen))
  BY <1>1, <1>2, <1>3 DEF Unflushed
<1>5. Unflushed = <<Owed>>
  BY <1>3, <1>4, LastAlone DEF Owed
<1> QED
  BY <1>1, <1>2, <1>3, <1>5 DEF Promise!Init

LEMMA PromiseNext == IInv /\ IInv' /\ [Next]_vars => [Promise!Next]_(Promise!vars)
<1> SUFFICES ASSUME IInv, IInv', [Next]_vars
             PROVE  [Promise!Next]_(Promise!vars)
  OBVIOUS
<1>1. TypeOK /\ Arena /\ Memory
  BY Unfold
<1>2. ASSUME NEW op \in UserOps, Edit(op)
      PROVE  Promise!Next
  <2>1. pc = "running" /\ pc' = "running" /\ AppendRecord(op)
    BY <1>2 DEF Edit
  <2>2. CASE Appendable
    BY <2>1, <2>2, IsEdit DEF AppendRecord
  <2>3. CASE ~Appendable
    <3>1. Breach("torn", Replace(op, Rope))
      BY <2>1, <2>3 DEF AppendRecord
    <3>2. ~Covered'
      BY <1>1, <3>1, UserOpsType, BreachType DEF TypeOK, Gap
    <3> QED
      BY <2>1, <3>2, IsBreach DEF Up
  <2> QED
    BY <2>2, <2>3
<1>3. ASSUME NEW op \in UserOps, EditAppendFails(op) \/ EditUnlogged(op)
      PROVE  Promise!Next
  <2>1. pc = "running" /\ pc' = "running" /\ Breach("unlogged", Replace(op, Rope))
    BY <1>3 DEF EditAppendFails, EditUnlogged
  <2>2. ~Covered'
    BY <1>1, <2>1, UserOpsType, BreachType DEF TypeOK, Gap
  <2> QED
    BY <2>1, <2>2, IsBreach DEF Up
<1>4. ASSUME NEW op \in UserOps, EditSyncFails(op)
      PROVE  Promise!Next
  BY <1>4, IsEdit DEF EditSyncFails
<1>5. CASE Undo \/ Redo
  BY <1>1, <1>5, HistoryText, IsBreach DEF Up
<1>6. CASE SaveTruncatesFile
  <2>1. Up /\ Up' /\ ~Covered'
    BY <1>6 DEF SaveTruncatesFile, Breach, Up, Covered
  <2> QED
    BY <2>1, IsBreach
<1>7. ASSUME \/ OpenWithRecovery \/ ReplayRecord
             \/ SaveWritesPart \/ SaveWritesRest \/ SaveTruncatesJournal \/ SaveFails
      PROVE  UNCHANGED Promise!vars
  <2>1. UNCHANGED <<seen, gap>> /\ Up' = Up
    BY <1>7 DEF OpenWithRecovery, ReplayRecord, SaveWritesPart, SaveWritesRest,
                SaveTruncatesJournal, SaveFails, Up, history
  <2>2. synced' = synced \/ ~Covered
    BY <1>1, <1>7 DEF OpenWithRecovery, ReplayRecord, SaveWritesPart, SaveWritesRest,
                      SaveTruncatesJournal, SaveFails, disk, Memory, Covered
  <2> QED
    BY <2>1, <2>2, IsStutter
<1>8. CASE UNCHANGED vars
  <2>1. UNCHANGED <<seen, gap, synced, pc>>
    BY <1>8 DEF vars, disk, history
  <2>2. Up' = Up
    BY <2>1 DEF Up
  <2> QED
    BY <2>1, <2>2, IsStutter
<1> QED
  BY <1>2, <1>3, <1>4, <1>5, <1>6, <1>7, <1>8, IsOpening, IsCheckpoint, IsHardCrash, IsKill, IsFlush
     DEF Next

\* The journaled document keeps its promise: a kill costs nothing, a power loss
\* only what was not flushed, as long as the log covers what happened.
THEOREM DocumentKeepsThePromise == Spec => KeepsThePromise
<1>1. Init => Promise!Init
  BY PromiseInit
<1>2. IInv /\ IInv' /\ [Next]_vars => [Promise!Next]_(Promise!vars)
  BY PromiseNext
<1>3. Spec => Promise!Spec
  BY <1>1, <1>2, Invariance, PTL DEF Spec, Promise!Spec
<1> QED
  BY <1>3 DEF KeepsThePromise
=============================================================================
