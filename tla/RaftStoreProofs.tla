-------------------------- MODULE RaftStoreProofs --------------------------
(***************************************************************************)
(* RaftStore for every set of nodes, requests and operations: the replay   *)
(* of the log over a database that is ahead of it converges, answers are   *)
(* true, and the replicated store implements ReplicatedStore.  The         *)
(* inductive invariant rests on facts about the data: what a log and the   *)
(* databases it describes are, what a replay of it over a database that is *)
(* ahead of it leaves, and what handlers and replies may answer.  Leaves   *)
(* that need no arithmetic are left to Zenon.                              *)
(***************************************************************************)
EXTENDS RaftStore, TLAPS

----------------------------------------------------------------------------
(* A log as the sequence cs of its commands, and the sequence hs of the    *)
(* databases it describes.                                                 *)

WritesData(c, x) == c.type \in {"Save", "Delete"} /\ c.id = x

WritesSnapshot(c, s) == c.type \in {"SaveSnapshot", "DeleteSnapshot"} /\ c.id = s

\* Entry i of the log moves the active pointer.
Activates(cs, hs, i) == cs[i].type = "ActivateSnapshot" /\ cs[i].id \in hs[i].snapshots

\* hs is the history of cs, what no entry has written is as in an empty
\* database, and a snapshot is saved before it is activated.
IsHistory(cs, hs) ==
  /\ cs \in Seq(Commands) /\ hs \in Seq(Databases) /\ Len(hs) = Len(cs) + 1
  /\ hs[1] = EmptyDatabase
  /\ \A i \in 1 .. Len(cs) : hs[i + 1] = ApplyCommand(hs[i], cs[i])
  /\ \A j \in 0 .. Len(cs) :
       /\ \A x \in Ids : (\A i \in 1 .. j : ~WritesData(cs[i], x)) => hs[j + 1].data[x] = Absent
       /\ \A s \in SnapshotIds :
            (\A i \in 1 .. j : ~WritesSnapshot(cs[i], s)) => s \notin hs[j + 1].snapshots
       /\ (\A i \in 1 .. j : ~Activates(cs, hs, i)) => hs[j + 1].active = Absent
  /\ \A i \in 1 .. Len(cs) :
       cs[i].type = "ActivateSnapshot" =>
         \E h \in 1 .. i - 1 : cs[h].type = "SaveSnapshot" /\ cs[h].id = cs[i].id

\* Database d is what the first j entries describe, but for what none of them
\* writes and one of the entries up to k does.
Ahead(cs, hs, d, j, k) ==
  /\ \A x \in Ids :
       \/ d.data[x] = hs[j + 1].data[x]
       \/ /\ \A i \in 1 .. j : ~WritesData(cs[i], x)
          /\ \E i \in j + 1 .. k : WritesData(cs[i], x)
  /\ \A s \in SnapshotIds :
       \/ s \in d.snapshots <=> s \in hs[j + 1].snapshots
       \/ /\ \A i \in 1 .. j : ~WritesSnapshot(cs[i], s)
          /\ \E i \in j + 1 .. k : WritesSnapshot(cs[i], s)
  /\ \/ d.active = hs[j + 1].active
     \/ /\ \A i \in 1 .. j : ~Activates(cs, hs, i)
        /\ \E i \in j + 1 .. k : Activates(cs, hs, i)

----------------------------------------------------------------------------
(* The inductive invariant.                                                *)

LogCommands == [i \in 1 .. Len(log) |-> req[log[i]].command]

\* Who is where: what a request's position says of its other fields.
RequestInv ==
  \A r \in Requests :
    /\ req[r].pc = "new" <=> req[r].op = Absent
    /\ req[r].pc = "new" => req[r].command = Absent
    /\ req[r].pc # "done" => req[r].status = Absent
    /\ req[r].pc \in {"writing", "waiting", "reading"} => req[r].command # Absent
    /\ req[r].command # Absent =>
         /\ req[r].command = Command(req[r].op)
         /\ req[r].op.verb # "get"
    /\ req[r].pc = "writing" => req[r].at \in Nodes /\ r \notin proposed \cup Range(log)
    /\ r \in proposed \cup Range(log) => req[r].command # Absent

LogInv ==
  /\ proposed \cap Range(log) = {}
  /\ \A i, j \in 1 .. Len(log) : log[i] = log[j] => i = j
  /\ IsHistory(LogCommands, history)
  /\ \A r \in Requests :
       req[r].command # Absent /\ req[r].command.type = "ActivateSnapshot" =>
         \E i \in 1 .. Len(log) :
           req[log[i]].command.type = "SaveSnapshot" /\ req[log[i]].command.id = req[r].command.id

NodeInv ==
  \A n \in Nodes :
    /\ Ahead(LogCommands, history, db[n], applied[n], Len(log))
    /\ Ahead(LogCommands, history, compacted[n].db, compacted[n].index, Len(log))

\* A node whose callers wait for an entry is up, has not applied it, and its
\* database is not ahead of it: it has applied every entry it will answer for
\* since it was started.
WaitingInv ==
  \A r \in Requests :
    req[r].pc = "waiting" =>
      /\ req[r].via \in up
      /\ \A k \in 1 .. Len(log) :
           log[k] = r => /\ applied[req[r].via] < k
                         /\ Ahead(LogCommands, history, db[req[r].via], applied[req[r].via], k - 1)

ReadingInv ==
  \A r \in Requests :
    req[r].pc = "reading" =>
      /\ req[r].op.verb = "activate"
      /\ \E i \in Entry(r) : Result(Contents(i - 1), req[r].command) = "ok"

RaftInv ==
  /\ TypeOK
  /\ RequestInv
  /\ LogInv
  /\ NodeInv
  /\ WaitingInv
  /\ ReadingInv
  /\ AnswersTrue

----------------------------------------------------------------------------
(* How a step answers requests.                                            *)

\* Request r, which is in progress, is answered.
Answered(r) ==
  /\ req[r].pc \in {"writing", "waiting", "reading"} /\ req'[r].pc = "done"
  /\ req'[r].op = req[r].op /\ req'[r].command = req[r].command
  /\ /\ req[r].op.kind \in {"secret", "snapshot"}
     /\ req[r].op.verb \in {"delete", "activate"}
     /\ req'[r].status \in {"ok", "notfound"}
     => \E i \in Entry(r) : Result(Contents(i - 1), req[r].command) = req'[r].status

\* Request r is answered with a failure.
Failed(r) == Answered(r) /\ req'[r].status \in {"notfound", "error"}

\* Request r goes on as what it is; an answer is its first, and one of success
\* comes after its entry is in the log.
Told(r) ==
  /\ req'[r].op = req[r].op /\ req'[r].command = req[r].command
  /\ req'[r].status # req[r].status =>
       req[r].status = Absent /\ (req'[r].status = "ok" => r \in Range(log))

----------------------------------------------------------------------------
(* What a command does, key by key, and what that makes of a log.          *)

\* Of every data key, every snapshot and the active pointer: what ApplyCommand
\* (FSM.Apply) leaves there.
LEMMA ApplyEffect ==
  ASSUME NEW d \in Databases, NEW c \in Commands
  PROVE  LET e == ApplyCommand(d, c)
         IN /\ e \in Databases
            /\ \A x \in Ids :
                 e.data[x] = IF WritesData(c, x)
                             THEN IF c.type = "Save" THEN c.payload ELSE Absent
                             ELSE d.data[x]
            /\ \A s \in SnapshotIds :
                 s \in e.snapshots <=> IF WritesSnapshot(c, s) THEN c.type = "SaveSnapshot"
                                                               ELSE s \in d.snapshots
            /\ e.active =
                 IF c.type = "ActivateSnapshot" /\ c.id \in d.snapshots THEN c.id
                 ELSE IF c.type = "DeleteSnapshot" /\ d.active = c.id THEN Absent
                 ELSE d.active
<1> DEFINE e == ApplyCommand(d, c)
<1>1. CASE c.type = "Save"
  <2>1. c.id \in Ids /\ c.payload \in Values
    BY Zenon, <1>1 DEF Commands
  <2>2. e = [d EXCEPT !.data[c.id] = c.payload]
    BY Zenon, <1>1 DEF ApplyCommand
  <2> QED BY <1>1, <2>1, <2>2 DEF Databases, WritesData, WritesSnapshot
<1>2. CASE c.type = "Delete"
  <2>1. c.id \in Ids
    BY Zenon, <1>2 DEF Commands
  <2>2. e = [d EXCEPT !.data[c.id] = Absent]
    BY Zenon, <1>2 DEF ApplyCommand
  <2> QED BY <1>2, <2>1, <2>2 DEF Databases, WritesData, WritesSnapshot
<1>3. CASE c.type = "SaveSnapshot"
  <2>1. c.id \in SnapshotIds
    BY Zenon, <1>3 DEF Commands
  <2>2. e = [d EXCEPT !.snapshots = @ \cup {c.id}]
    BY Zenon, <1>3 DEF ApplyCommand
  <2> QED BY <1>3, <2>1, <2>2 DEF Databases, WritesData, WritesSnapshot
<1>4. CASE c.type = "DeleteSnapshot"
  <2>1. c.id \in SnapshotIds
    BY Zenon, <1>4 DEF Commands
  <2>2. e = [d EXCEPT !.snapshots = @ \ {c.id}, !.active = IF @ = c.id THEN Absent ELSE @]
    BY Zenon, <1>4 DEF ApplyCommand
  <2>3. /\ e.data = d.data /\ e.snapshots = d.snapshots \ {c.id}
        /\ e.active = IF d.active = c.id THEN Absent ELSE d.active
        /\ e \in Databases
    BY Zenon, <2>2 DEF Databases
  <2> HIDE DEF e
  <2>4. \A x \in Ids : ~WritesData(c, x)
    BY Zenon, <1>4 DEF WritesData
  <2>5. \A s \in SnapshotIds : WritesSnapshot(c, s) <=> s = c.id
    BY Zenon, <1>4 DEF WritesSnapshot
  <2> QED BY Zenon, <1>4, <2>1, <2>3, <2>4, <2>5 DEF e
<1>5. CASE c.type = "ActivateSnapshot"
  <2>1. c.id \in SnapshotIds
    BY Zenon, <1>5 DEF Commands
  <2>2. e = [d EXCEPT !.active = IF c.id \in d.snapshots THEN c.id ELSE @]
    BY Zenon, <1>5 DEF ApplyCommand
  <2> QED BY Zenon, <1>5, <2>1, <2>2 DEF Databases, WritesData, WritesSnapshot
<1> QED BY Zenon, <1>1, <1>2, <1>3, <1>4, <1>5 DEF Commands

\* The empty database is a database.
LEMMA EmptyTyped == EmptyDatabase \in Databases
BY Zenon DEF EmptyDatabase, Databases

\* The log of a cluster that has just formed.
LEMMA HistoryBegins == IsHistory(<< >>, <<EmptyDatabase>>)
BY EmptyTyped DEF IsHistory, EmptyDatabase, Commands

\* FSM.Apply of the next entry, on a database that may already hold what
\* later entries up to k write, leaves it ahead of one entry more.
LEMMA ApplyAhead ==
  ASSUME NEW cs, NEW hs, IsHistory(cs, hs), NEW d \in Databases,
         NEW j \in Nat, NEW k \in Nat, j < k, k <= Len(cs), Ahead(cs, hs, d, j, k)
  PROVE  Ahead(cs, hs, ApplyCommand(d, cs[j + 1]), j + 1, k)
<1> DEFINE c == cs[j + 1]
           e == ApplyCommand(d, c)
           h == hs[j + 1]
           g == hs[j + 2]
<1>1. /\ j + 1 \in 1 .. Len(cs) /\ c \in Commands /\ h \in Databases /\ g \in Databases
      /\ g = ApplyCommand(h, c) /\ (j + 1) + 1 = j + 2
  <2>1. j + 1 \in 1 .. Len(cs) /\ j + 1 \in 1 .. Len(hs) /\ j + 2 \in 1 .. Len(hs) /\ (j + 1) + 1 = j + 2
    BY DEF IsHistory
  <2>2. c \in Commands /\ h \in Databases /\ g \in Databases
    BY <2>1 DEF IsHistory
  <2>3. g = ApplyCommand(h, c)
    BY Zenon, <2>1 DEF IsHistory
  <2> QED BY Zenon, <2>1, <2>2, <2>3
<1>2. ASSUME NEW i, i \in 1 .. j + 1 PROVE i \in 1 .. j \/ i = j + 1
  BY <1>2
<1>3. ASSUME NEW i, i \in j + 1 .. k PROVE i = j + 1 \/ i \in (j + 1) + 1 .. k
  BY <1>3
<1> HIDE DEF e, h, g
<1>4. ASSUME NEW x \in Ids
      PROVE  \/ e.data[x] = g.data[x]
             \/ /\ \A i \in 1 .. j + 1 : ~WritesData(cs[i], x)
                /\ \E i \in (j + 1) + 1 .. k : WritesData(cs[i], x)
  <2>1. /\ WritesData(c, x) => e.data[x] = g.data[x]
        /\ ~WritesData(c, x) => e.data[x] = d.data[x] /\ g.data[x] = h.data[x]
    BY <1>1, ApplyEffect DEF e
  <2>2. \/ d.data[x] = h.data[x]
        \/ /\ \A i \in 1 .. j : ~WritesData(cs[i], x)
           /\ \E i \in j + 1 .. k : WritesData(cs[i], x)
    BY Zenon DEF Ahead, h
  <2> QED BY <2>1, <2>2, <1>2, <1>3, Zenon
<1>5. ASSUME NEW s \in SnapshotIds
      PROVE  \/ s \in e.snapshots <=> s \in g.snapshots
             \/ /\ \A i \in 1 .. j + 1 : ~WritesSnapshot(cs[i], s)
                /\ \E i \in (j + 1) + 1 .. k : WritesSnapshot(cs[i], s)
  <2>1. /\ WritesSnapshot(c, s) => (s \in e.snapshots <=> s \in g.snapshots)
        /\ ~WritesSnapshot(c, s) => /\ s \in e.snapshots <=> s \in d.snapshots
                                    /\ s \in g.snapshots <=> s \in h.snapshots
    BY <1>1, ApplyEffect DEF e
  <2>2. \/ s \in d.snapshots <=> s \in h.snapshots
        \/ /\ \A i \in 1 .. j : ~WritesSnapshot(cs[i], s)
           /\ \E i \in j + 1 .. k : WritesSnapshot(cs[i], s)
    BY Zenon DEF Ahead, h
  <2> QED BY <2>1, <2>2, <1>2, <1>3, Zenon
<1>6. \/ e.active = g.active
      \/ /\ \A i \in 1 .. j + 1 : ~Activates(cs, hs, i)
         /\ \E i \in (j + 1) + 1 .. k : Activates(cs, hs, i)
  <2>1. \/ d.active = h.active
        \/ /\ \A i \in 1 .. j : ~Activates(cs, hs, i)
           /\ \E i \in j + 1 .. k : Activates(cs, hs, i)
    BY Zenon DEF Ahead, h
  <2>2. c.type = "ActivateSnapshot" => (c.id \in d.snapshots <=> c.id \in h.snapshots)
    <3> SUFFICES ASSUME c.type = "ActivateSnapshot" PROVE c.id \in d.snapshots <=> c.id \in h.snapshots
      BY Zenon
    <3>1. c.id \in SnapshotIds
      BY Zenon, <1>1 DEF Commands
    <3>2. PICK p \in 1 .. (j + 1) - 1 : cs[p].type = "SaveSnapshot" /\ cs[p].id = c.id
      BY Zenon, <1>1 DEF IsHistory
    <3>3. p \in 1 .. j /\ WritesSnapshot(cs[p], c.id)
      BY <3>2 DEF WritesSnapshot
    <3> QED BY Zenon, <3>1, <3>3 DEF Ahead, h
  <2>3. Activates(cs, hs, j + 1) <=> c.type = "ActivateSnapshot" /\ c.id \in h.snapshots
    BY Zenon DEF Activates, h
  <2>4. CASE Activates(cs, hs, j + 1)
    <3>1. e.active = c.id /\ g.active = c.id
      BY Zenon, <2>2, <2>3, <2>4, <1>1, ApplyEffect DEF e
    <3> QED BY Zenon, <3>1
  <2>5. CASE ~Activates(cs, hs, j + 1)
    <3>1. d.active = h.active => e.active = g.active
      BY <2>2, <2>3, <2>5, <1>1, ApplyEffect DEF e
    <3> QED BY <3>1, <2>1, <2>5, <1>2, <1>3, Zenon
  <2> QED BY Zenon, <2>4, <2>5
<1> QED BY Zenon, <1>1, <1>4, <1>5, <1>6 DEF Ahead, e, g

\* More entries are committed: d is ahead of the longer log.
LEMMA LongerAhead ==
  ASSUME NEW cs, NEW hs, NEW d, NEW j \in Nat, NEW k \in Nat, NEW m \in Nat, k <= m,
         Ahead(cs, hs, d, j, k)
  PROVE  Ahead(cs, hs, d, j, m)
<1>1. \A i \in j + 1 .. k : i \in j + 1 .. m
  OBVIOUS
<1>2. QED BY Zenon, <1>1 DEF Ahead

\* A node that applied the log and is started again, without a Raft snapshot,
\* has a database ahead of the empty log.
LEMMA RestartAhead ==
  ASSUME NEW cs, NEW hs, IsHistory(cs, hs), NEW d,
         NEW j \in Nat, NEW k \in Nat, j <= k, k <= Len(cs), Ahead(cs, hs, d, j, k)
  PROVE  Ahead(cs, hs, d, 0, k)
<1>1. j \in 0 .. Len(cs) /\ 0 \in 0 .. Len(cs) /\ 0 + 1 = 1
  BY DEF IsHistory
<1>2. /\ \A i \in 1 .. j : i \in 0 + 1 .. k
      /\ \A i \in j + 1 .. k : i \in 0 + 1 .. k
      /\ \A i \in 1 .. 0 : FALSE
  OBVIOUS
<1>3. hs[1] = EmptyDatabase
  BY Zenon DEF IsHistory
<1>4. ASSUME NEW x \in Ids
      PROVE  d.data[x] = hs[1].data[x] \/ \E i \in 0 + 1 .. k : WritesData(cs[i], x)
  <2>1. hs[1].data[x] = Absent
    BY <1>3 DEF EmptyDatabase
  <2>2. (\A i \in 1 .. j : ~WritesData(cs[i], x)) => hs[j + 1].data[x] = Absent
    BY Zenon, <1>1 DEF IsHistory
  <2> QED BY Zenon, <2>1, <2>2, <1>2 DEF Ahead
<1>5. ASSUME NEW s \in SnapshotIds
      PROVE  \/ s \in d.snapshots <=> s \in hs[1].snapshots
             \/ \E i \in 0 + 1 .. k : WritesSnapshot(cs[i], s)
  <2>1. s \notin hs[1].snapshots
    BY <1>3 DEF EmptyDatabase
  <2>2. (\A i \in 1 .. j : ~WritesSnapshot(cs[i], s)) => s \notin hs[j + 1].snapshots
    BY Zenon, <1>1 DEF IsHistory
  <2> QED BY Zenon, <2>1, <2>2, <1>2 DEF Ahead
<1>6. d.active = hs[1].active \/ \E i \in 0 + 1 .. k : Activates(cs, hs, i)
  <2>1. hs[1].active = Absent
    BY <1>3 DEF EmptyDatabase
  <2>2. (\A i \in 1 .. j : ~Activates(cs, hs, i)) => hs[j + 1].active = Absent
    BY Zenon, <1>1 DEF IsHistory
  <2> QED BY Zenon, <2>1, <2>2, <1>2 DEF Ahead
<1> QED BY Zenon, <1>1, <1>2, <1>4, <1>5, <1>6 DEF Ahead

\* A database that is ahead of no entry is the one the log describes.
LEMMA AheadExact ==
  ASSUME NEW cs, NEW hs, IsHistory(cs, hs), NEW d \in Databases,
         NEW j \in Nat, j <= Len(cs), Ahead(cs, hs, d, j, j)
  PROVE  d = hs[j + 1]
<1> DEFINE h == hs[j + 1]
<1>1. h \in Databases
  BY DEF IsHistory
<1>2. \A i \in j + 1 .. j : FALSE
  OBVIOUS
<1>3. /\ \A x \in Ids : d.data[x] = h.data[x]
      /\ \A s \in SnapshotIds : s \in d.snapshots <=> s \in h.snapshots
      /\ d.active = h.active
  BY Zenon, <1>2 DEF Ahead
<1> HIDE DEF h
<1>4. d.data = h.data
  BY <1>1, <1>3 DEF Databases
<1>5. d.snapshots = h.snapshots
  BY Zenon, <1>1, <1>3 DEF Databases
<1>6. d = h
  BY <1>1, <1>3, <1>4, <1>5 DEF Databases
<1> QED BY Zenon, <1>6 DEF h

\* What two logs have in common up to entry k, a database is ahead of in both.
LEMMA PrefixAhead ==
  ASSUME NEW cs, NEW hs, NEW ds, NEW gs, NEW d, NEW j \in Nat, NEW k \in Nat, j <= k,
         \A i \in 1 .. k : ds[i] = cs[i], \A i \in 1 .. k + 1 : gs[i] = hs[i],
         Ahead(cs, hs, d, j, k)
  PROVE  Ahead(ds, gs, d, j, k)
<1>1. /\ \A i \in 1 .. j : i \in 1 .. k /\ i \in 1 .. k + 1
      /\ \A i \in j + 1 .. k : i \in 1 .. k /\ i \in 1 .. k + 1
      /\ j + 1 \in 1 .. k + 1
  OBVIOUS
<1>2. \A i \in 1 .. k : Activates(ds, gs, i) <=> Activates(cs, hs, i)
  <2>1. \A i \in 1 .. k : i \in 1 .. k + 1
    OBVIOUS
  <2> QED BY Zenon, <2>1 DEF Activates
<1>3. gs[j + 1] = hs[j + 1]
  BY Zenon, <1>1
<1> QED BY Zenon, <1>1, <1>2, <1>3 DEF Ahead

\* Raft commits one entry more.  A snapshot that it activates has been saved.
LEMMA HistoryGrows ==
  ASSUME NEW cs, NEW hs, IsHistory(cs, hs), NEW c \in Commands,
         c.type = "ActivateSnapshot" =>
           \E h \in 1 .. Len(cs) : cs[h].type = "SaveSnapshot" /\ cs[h].id = c.id
  PROVE  IsHistory(Append(cs, c), Append(hs, ApplyCommand(hs[Len(hs)], c)))
<1> DEFINE m == Len(cs)
           last == hs[m + 1]
           e == ApplyCommand(last, c)
           ds == Append(cs, c)
           gs == Append(hs, e)
<1>1. /\ m \in Nat /\ Len(hs) = m + 1 /\ cs \in Seq(Commands) /\ hs \in Seq(Databases)
      /\ last \in Databases
  BY DEF IsHistory
<1>2. e \in Databases
  BY Zenon, <1>1, ApplyEffect
<1>3. /\ ds \in Seq(Commands) /\ Len(ds) = m + 1
      /\ \A i \in 1 .. m : ds[i] = cs[i]
      /\ ds[m + 1] = c
  BY <1>1
<1>4. /\ gs \in Seq(Databases) /\ Len(gs) = Len(ds) + 1
      /\ \A i \in 1 .. m + 1 : gs[i] = hs[i]
      /\ gs[m + 2] = e
  <2>1. gs \in Seq(Databases) /\ Len(gs) = Len(hs) + 1
    BY <1>1, <1>2
  <2>2. \A i \in 1 .. Len(hs) : gs[i] = hs[i]
    BY <1>1, <1>2
  <2>3. gs[Len(hs) + 1] = e
    BY <1>1, <1>2
  <2>4. Len(hs) + 1 = m + 2
    BY <1>1
  <2> QED BY Zenon, <1>1, <1>3, <2>1, <2>2, <2>3, <2>4
<1> HIDE DEF ds, gs, e, last, m
<1>5. gs[1] = EmptyDatabase
  BY <1>1, <1>4 DEF IsHistory
<1>6. ASSUME NEW i \in 1 .. Len(ds) PROVE gs[i + 1] = ApplyCommand(gs[i], ds[i])
  <2>1. CASE i \in 1 .. m
    <3>1. i \in 1 .. m + 1 /\ i + 1 \in 1 .. m + 1
      BY <1>1, <2>1
    <3>2. hs[i + 1] = ApplyCommand(hs[i], cs[i])
      BY Zenon, <2>1 DEF IsHistory, m
    <3> QED BY Zenon, <2>1, <3>1, <3>2, <1>3, <1>4
  <2>2. CASE i = m + 1
    <3>1. m + 1 \in 1 .. m + 1 /\ (m + 1) + 1 = m + 2
      BY <1>1
    <3>2. gs[m + 1] = last
      BY Zenon, <3>1, <1>4 DEF last
    <3> QED BY Zenon, <2>2, <3>1, <3>2, <1>3, <1>4 DEF e
  <2> QED BY <1>1, <1>3, <2>1, <2>2
<1>7. \A i \in 1 .. m : Activates(ds, gs, i) <=> Activates(cs, hs, i)
  <2>1. \A i \in 1 .. m : i \in 1 .. m + 1
    BY <1>1
  <2> QED BY Zenon, <2>1, <1>3, <1>4 DEF Activates
<1>8. Activates(ds, gs, m + 1) <=> c.type = "ActivateSnapshot" /\ c.id \in last.snapshots
  <2>1. m + 1 \in 1 .. m + 1
    BY <1>1
  <2> QED BY Zenon, <2>1, <1>3, <1>4 DEF Activates, last
<1>9. ASSUME NEW j \in 0 .. Len(ds)
      PROVE  /\ \A x \in Ids : (\A i \in 1 .. j : ~WritesData(ds[i], x)) => gs[j + 1].data[x] = Absent
             /\ \A s \in SnapshotIds :
                  (\A i \in 1 .. j : ~WritesSnapshot(ds[i], s)) => s \notin gs[j + 1].snapshots
             /\ (\A i \in 1 .. j : ~Activates(ds, gs, i)) => gs[j + 1].active = Absent
  <2>0. \A p \in 0 .. m :
          /\ \A x \in Ids : (\A i \in 1 .. p : ~WritesData(cs[i], x)) => hs[p + 1].data[x] = Absent
          /\ \A s \in SnapshotIds :
               (\A i \in 1 .. p : ~WritesSnapshot(cs[i], s)) => s \notin hs[p + 1].snapshots
          /\ (\A i \in 1 .. p : ~Activates(cs, hs, i)) => hs[p + 1].active = Absent
    BY Zenon DEF IsHistory, m
  <2>1. CASE j \in 0 .. m
    <3>1. j + 1 \in 1 .. m + 1 /\ \A i \in 1 .. j : i \in 1 .. m
      BY <1>1, <2>1
    <3>2. gs[j + 1] = hs[j + 1] /\ \A i \in 1 .. j : ds[i] = cs[i]
      BY Zenon, <3>1, <1>3, <1>4
    <3> QED BY Zenon, <2>0, <2>1, <3>1, <3>2, <1>7
  <2>2. CASE j = m + 1
    <3>1. /\ \A i \in 1 .. m : i \in 1 .. j
          /\ m + 1 \in 1 .. j /\ m \in 0 .. m /\ j + 1 = m + 2
      BY <1>1, <2>2
    <3>2. gs[j + 1] = e
      BY Zenon, <3>1, <1>4
    <3>3. ASSUME NEW x \in Ids, \A i \in 1 .. j : ~WritesData(ds[i], x)
          PROVE  gs[j + 1].data[x] = Absent
      <4>1. ~WritesData(c, x) /\ \A i \in 1 .. m : ~WritesData(cs[i], x)
        BY Zenon, <3>1, <3>3, <1>3
      <4>2. last.data[x] = Absent
        BY Zenon, <4>1, <3>1, <2>0 DEF last
      <4> QED BY <4>1, <4>2, <3>2, <1>1, ApplyEffect DEF e
    <3>4. ASSUME NEW s \in SnapshotIds, \A i \in 1 .. j : ~WritesSnapshot(ds[i], s)
          PROVE  s \notin gs[j + 1].snapshots
      <4>1. ~WritesSnapshot(c, s) /\ \A i \in 1 .. m : ~WritesSnapshot(cs[i], s)
        BY Zenon, <3>1, <3>4, <1>3
      <4>2. s \notin last.snapshots
        BY Zenon, <4>1, <3>1, <2>0 DEF last
      <4> QED BY Zenon, <4>1, <4>2, <3>2, <1>1, ApplyEffect DEF e
    <3>5. ASSUME \A i \in 1 .. j : ~Activates(ds, gs, i)
          PROVE  gs[j + 1].active = Absent
      <4>1. ~(c.type = "ActivateSnapshot" /\ c.id \in last.snapshots)
        BY Zenon, <3>1, <3>5, <1>8
      <4>2. last.active = Absent
        BY Zenon, <3>1, <3>5, <2>0, <1>7 DEF last
      <4> QED BY <4>1, <4>2, <3>2, <1>1, ApplyEffect DEF e
    <3> QED BY Zenon, <3>3, <3>4, <3>5
  <2> QED BY <1>1, <1>3, <2>1, <2>2
<1>10. ASSUME NEW i \in 1 .. Len(ds), ds[i].type = "ActivateSnapshot"
       PROVE  \E h \in 1 .. i - 1 : ds[h].type = "SaveSnapshot" /\ ds[h].id = ds[i].id
  <2>1. CASE i \in 1 .. m
    <3>1. PICK h \in 1 .. i - 1 : cs[h].type = "SaveSnapshot" /\ cs[h].id = cs[i].id
      BY Zenon, <1>3, <1>10, <2>1 DEF IsHistory, m
    <3>2. h \in 1 .. m
      BY <1>1, <2>1
    <3> QED BY Zenon, <1>3, <2>1, <3>1, <3>2
  <2>2. CASE i = m + 1
    <3>1. PICK h \in 1 .. m : cs[h].type = "SaveSnapshot" /\ cs[h].id = c.id
      BY Zenon, <1>3, <1>10, <2>2 DEF m
    <3>2. h \in 1 .. i - 1
      BY <1>1, <2>2
    <3> QED BY Zenon, <1>3, <2>2, <3>1, <3>2
  <2> QED BY <1>1, <1>3, <2>1, <2>2
<1>11. IsHistory(ds, gs)
  BY Zenon, <1>3, <1>4, <1>5, <1>6, <1>9, <1>10 DEF IsHistory
<1> QED BY Zenon, <1>1, <1>11 DEF ds, gs, e, last

----------------------------------------------------------------------------
(* What is answered.                                                       *)

\* Every request asks for an operation of the API.
LEMMA OperationTyped ==
  ASSUME NEW op \in Operations
  PROVE  IsOperation(op) /\ op # Absent
BY Zenon, OperationsAssumption DEF Operations, IsOperation

\* The command names what the request named, and a create or an update is a
\* command that writes.
LEMMA CommandOf ==
  ASSUME NEW op, IsOperation(op), op.verb # "get"
  PROVE  /\ Command(op).id = op.id
         /\ op.verb \in {"create", "update"} => Command(op).type \in {"Save", "SaveSnapshot"}
<1>1. CASE op.kind = "snapshot"
  <2>1. op.verb \in {"create", "delete", "activate"}
    BY Zenon, <1>1 DEF IsOperation
  <2> QED BY Zenon, <1>1, <2>1 DEF Command
<1>2. CASE op.kind # "snapshot"
  BY Zenon, <1>2 DEF Command
<1> QED BY Zenon, <1>1, <1>2

\* The second part: a failed write is never answered with success, and the
\* deletes of secrets and snapshots and the activation pass the result on.
LEMMA StatusTyped ==
  ASSUME NEW op \in Operations, op.verb # "get", NEW result \in {"ok", "notfound", "error"}
  PROVE  /\ Status(op, result) \in {"ok", "notfound", "error"}
         /\ result # "ok" => Status(op, result) # "ok"
         /\ op.kind \in {"secret", "snapshot"} /\ op.verb \in {"delete", "activate"}
              => Status(op, result) = result
<1>1. IsOperation(op)
  BY Zenon, OperationTyped
<1>2. CASE op.verb \in {"create", "update"}
  <2>1. Status(op, result) = IF result = "ok" THEN "ok" ELSE "error"
    BY Zenon, <1>2 DEF Status
  <2> QED BY Zenon, <1>2, <2>1
<1>3. CASE op.verb = "activate"
  <2>1. Status(op, result) = result
    BY Zenon, <1>3 DEF Status
  <2> QED BY Zenon, <2>1
<1>4. CASE op.verb = "delete"
  <2>1. Status(op, result) = DeleteStatus(op.kind, result)
    BY Zenon, <1>4 DEF Status
  <2>2. CASE op.kind \in {"secret", "snapshot"}
    <3>1. DeleteStatus(op.kind, result) = result
      BY Zenon, <2>2 DEF DeleteStatus, DeleteSecret, DeleteSnapshot
    <3> QED BY Zenon, <2>1, <3>1
  <2>3. CASE op.kind \in {"route", "group", "destination", "listener", "middleware"}
    <3>1. DeleteStatus(op.kind, result) = AnyErrorNotFound(result)
      BY Zenon, <2>3
      DEF DeleteStatus, DeleteRoute, DeleteGroup, DeleteDestination, DeleteListener,
          DeleteMiddleware
    <3> QED BY Zenon, <2>1, <2>3, <3>1 DEF AnyErrorNotFound
  <2> QED BY Zenon, <1>1, <2>2, <2>3 DEF IsOperation
<1> QED BY Zenon, <1>1, <1>2, <1>3, <1>4 DEF IsOperation

\* FSM.Apply answers a command with success or with ErrNotFound.
LEMMA ResultTyped ==
  ASSUME NEW d \in Databases, NEW c \in Commands
  PROVE  Result(d, c) \in {"ok", "notfound"}
<1>1. CASE c.type \in {"Save", "SaveSnapshot"}
  BY Zenon, <1>1 DEF Result
<1>2. CASE c.type = "Delete"
  BY Zenon, <1>2 DEF Result
<1>3. CASE c.type \in {"DeleteSnapshot", "ActivateSnapshot"}
  BY Zenon, <1>3 DEF Result
<1> QED BY Zenon, <1>1, <1>2, <1>3 DEF Commands

\* What Reply makes of a waiting request.
LEMMA ReplyTyped ==
  ASSUME TypeOK, NEW r \in Requests, req[r].op \in Operations, req[r].op.verb # "get",
         NEW result \in {"ok", "notfound"}
  PROVE  LET s == Reply(r, result)[r]
             seen == IF req[r].via = req[r].at \/ result = "ok" THEN result ELSE "error"
         IN /\ Reply(r, result) \in [Requests -> RequestRecords]
            /\ \A q \in Requests \ {r} : Reply(r, result)[q] = req[q]
            /\ s.op = req[r].op /\ s.command = req[r].command
            /\ IF req[r].op.verb = "activate" /\ seen = "ok"
               THEN s.pc = "reading" /\ s.status = req[r].status
               ELSE s.pc = "done" /\ s.status = Status(req[r].op, seen)
<1> DEFINE seen == IF req[r].via = req[r].at \/ result = "ok" THEN result ELSE "error"
           t == IF req[r].op.verb = "activate" /\ seen = "ok"
                THEN [req[r] EXCEPT !.pc = "reading"]
                ELSE [req[r] EXCEPT !.pc = "done", !.status = Status(req[r].op, seen)]
<1>1. seen \in {"ok", "notfound", "error"}
  BY Zenon
<1>2. Status(req[r].op, seen) \in Statuses
  BY Zenon, <1>1, StatusTyped DEF Statuses
<1>3. req \in [Requests -> RequestRecords] /\ req[r] \in RequestRecords
  BY Zenon DEF TypeOK
<1>4. Reply(r, result) = [req EXCEPT ![r] = t]
  BY Zenon, <1>3 DEF Reply
<1> HIDE DEF seen
<1>5. /\ t \in RequestRecords /\ t.op = req[r].op /\ t.command = req[r].command
      /\ IF req[r].op.verb = "activate" /\ seen = "ok"
         THEN t.pc = "reading" /\ t.status = req[r].status
         ELSE t.pc = "done" /\ t.status = Status(req[r].op, seen)
  BY Zenon, <1>2, <1>3 DEF RequestRecords
<1> HIDE DEF t
<1>6. Reply(r, result)[r] = t
  BY Zenon, <1>3, <1>4
<1>7. Reply(r, result) \in [Requests -> RequestRecords]
  BY Zenon, <1>3, <1>4, <1>5
<1>8. \A q \in Requests \ {r} : Reply(r, result)[q] = req[q]
  BY Zenon, <1>3, <1>4
<1> QED BY Zenon, <1>5, <1>6, <1>7, <1>8 DEF seen

----------------------------------------------------------------------------
(* What the invariant says of the log and of a request in progress.        *)

\* A logged request has a command, and it is the same as ever.
LEMMA CommandsKept ==
  ASSUME TypeOK, RequestInv, log' = log,
         \A r \in Requests : req[r].command # Absent => req'[r].command = req[r].command
  PROVE  LogCommands' = LogCommands
<1>1. ASSUME NEW i \in 1 .. Len(log) PROVE req'[log[i]].command = req[log[i]].command
  <2>1. log[i] \in Requests /\ log[i] \in Range(log)
    BY DEF TypeOK, Range
  <2> QED BY Zenon, <2>1 DEF RequestInv
<1> QED BY Zenon, <1>1 DEF LogCommands

\* The history as TypeOK and LogInv have it.
LEMMA LogFacts ==
  ASSUME RaftInv
  PROVE  /\ IsHistory(LogCommands, history)
         /\ Len(log) \in Nat /\ Len(LogCommands) = Len(log)
         /\ \A n \in Nodes : /\ applied[n] \in Nat /\ applied[n] <= Len(log)
                             /\ compacted[n].index \in Nat /\ compacted[n].index <= Len(log)
                             /\ db[n] \in Databases /\ compacted[n].db \in Databases
         /\ \A i \in 1 .. Len(log) :
              /\ log[i] \in Requests /\ log[i] \in Range(log)
              /\ req[log[i]].command = LogCommands[i] /\ LogCommands[i] \in Commands
<1>1. log \in Seq(Requests) /\ Len(log) \in Nat
  BY DEF RaftInv, TypeOK
<1>2. Len(LogCommands) = Len(log)
  BY <1>1 DEF LogCommands
<1>3. \A n \in Nodes : /\ applied[n] \in Nat /\ applied[n] <= Len(log)
                       /\ db[n] \in Databases
  BY <1>1 DEF RaftInv, TypeOK
<1>4. \A n \in Nodes : /\ compacted[n].index \in Nat /\ compacted[n].index <= Len(log)
                       /\ compacted[n].db \in Databases
  <2> SUFFICES ASSUME NEW n \in Nodes
               PROVE  /\ compacted[n].index \in Nat /\ compacted[n].index <= Len(log)
                      /\ compacted[n].db \in Databases
    BY Zenon
  <2>1. compacted[n] \in [index : 0 .. Len(log), db : Databases]
    BY Zenon DEF RaftInv, TypeOK
  <2> QED BY <1>1, <2>1
<1>5. IsHistory(LogCommands, history)
  BY Zenon DEF RaftInv, LogInv
<1>6. ASSUME NEW i \in 1 .. Len(log)
      PROVE  /\ log[i] \in Requests /\ log[i] \in Range(log)
             /\ req[log[i]].command = LogCommands[i] /\ LogCommands[i] \in Commands
  <2>1. log[i] \in Requests /\ log[i] \in Range(log)
    BY <1>1 DEF Range
  <2>2. req[log[i]].command = LogCommands[i]
    BY Zenon DEF LogCommands
  <2>3. LogCommands[i] \in Commands
    BY <1>2, <1>5 DEF IsHistory
  <2> QED BY Zenon, <2>1, <2>2, <2>3
<1> QED BY Zenon, <1>1, <1>2, <1>3, <1>4, <1>5, <1>6

\* A request that is in progress has an operation and its command.
LEMMA InProgress ==
  ASSUME RaftInv, NEW r \in Requests,
         req[r].pc \in {"writing", "waiting", "reading"} \/ r \in Range(log)
  PROVE  /\ req[r].op \in Operations /\ req[r].op.verb # "get"
         /\ req[r].command = Command(req[r].op) /\ req[r].command \in Commands
<1>1. req[r].command # Absent
  BY Zenon DEF RaftInv, RequestInv
<1>2. req[r].op # Absent
  BY Zenon, <1>1 DEF RaftInv, RequestInv
<1>3. req[r] \in RequestRecords
  BY Zenon DEF RaftInv, TypeOK
<1> QED BY Zenon, <1>1, <1>2, <1>3 DEF RaftInv, RequestInv, RequestRecords

\* The node that applies an entry its caller waits for has applied all that
\* precede it and nothing else: the result is that of the history.
LEMMA ResultTrue ==
  ASSUME RaftInv, NEW n \in Nodes, NEW r \in Requests, applied[n] < Len(log),
         r = log[applied[n] + 1], req[r].pc = "waiting", req[r].via = n
  PROVE  /\ db[n] = Contents(applied[n])
         /\ applied[n] + 1 \in Entry(r) /\ Contents((applied[n] + 1) - 1) = Contents(applied[n])
<1> DEFINE j == applied[n]
<1>1. j \in Nat /\ j + 1 \in 1 .. Len(log) /\ (j + 1) - 1 = j /\ j <= Len(log)
  BY LogFacts
<1>2. Ahead(LogCommands, history, db[n], j, (j + 1) - 1)
  BY Zenon, <1>1 DEF RaftInv, WaitingInv
<1>3. Ahead(LogCommands, history, db[n], j, j)
  BY Zenon, <1>1, <1>2
<1>4. db[n] \in Databases /\ IsHistory(LogCommands, history) /\ j <= Len(LogCommands)
  BY Zenon, <1>1, LogFacts
<1>5. db[n] = history[j + 1]
  BY Zenon, <1>1, <1>3, <1>4, AheadExact
<1>6. j + 1 \in DOMAIN log
  BY <1>1 DEF RaftInv, TypeOK
<1> QED BY Zenon, <1>1, <1>5, <1>6 DEF Contents, Entry

----------------------------------------------------------------------------
(* What the handlers decide.                                               *)

\* Every handler's first part answers or goes on to the write.  A read never
\* writes; what a handler hands to the store is a command.  Neither a delete
\* nor an activation is answered with success or "not found" before it wrote.
LEMMA HandleTyped ==
  ASSUME NEW d \in Databases, NEW op \in Operations
  PROVE  /\ Handle(d, op) \in {"write", "ok", "notfound", "invalid", "unauthorized"}
         /\ Handle(d, op) = "write" => op.verb # "get" /\ Command(op) \in Commands
         /\ op.verb \in {"delete", "activate"} => Handle(d, op) \in {"write", "unauthorized"}
<1>1. IsOperation(op)
  BY Zenon, OperationTyped
<1>2. CASE ~Auth(op)
  <2>1. Handle(d, op) = "unauthorized"
    BY Zenon, <1>2 DEF Handle
  <2> QED BY Zenon, <2>1
<1>3. CASE Auth(op) /\ op.kind = "snapshot"
  <2>1. CASE op.verb = "create"
    <3>1. Handle(d, op) = Checked(op.named)
      BY Zenon, <1>3, <2>1 DEF Handle
    <3>2. Command(op) = [type |-> "SaveSnapshot", id |-> op.id]
      BY Zenon, <1>3, <2>1 DEF Command
    <3> QED BY <1>1, <1>3, <2>1, <3>1, <3>2 DEF IsOperation, Checked, Commands
  <2>2. CASE op.verb = "get"
    <3>1. Handle(d, op) = GetSnapshot(d, op)
      BY Zenon, <1>3, <2>2 DEF Handle, Get
    <3> QED BY Zenon, <2>2, <3>1 DEF GetSnapshot
  <2>3. CASE op.verb = "delete"
    <3>1. Handle(d, op) = "write"
      BY Zenon, <1>3, <2>3 DEF Handle
    <3>2. Command(op) = [type |-> "DeleteSnapshot", id |-> op.id]
      BY Zenon, <1>3, <2>3 DEF Command
    <3> QED BY <1>1, <1>3, <2>3, <3>1, <3>2 DEF IsOperation, Commands
  <2>4. CASE op.verb = "activate"
    <3>1. Handle(d, op) = "write"
      BY Zenon, <1>3, <2>4 DEF Handle
    <3>2. Command(op) = [type |-> "ActivateSnapshot", id |-> op.id]
      BY Zenon, <1>3, <2>4 DEF Command
    <3> QED BY <1>1, <1>3, <2>4, <3>1, <3>2 DEF IsOperation, Commands
  <2> QED BY Zenon, <1>1, <1>3, <2>1, <2>2, <2>3, <2>4 DEF IsOperation
<1>4. CASE Auth(op) /\ op.kind # "snapshot"
  <2>0. op.kind \in {"route", "group", "destination", "listener", "middleware", "secret"}
    BY Zenon, <1>1, <1>4 DEF IsOperation
  <2>1. CASE op.verb \in {"create", "update"}
    <3>1. Command(op) = [type |-> "Save", id |-> op.id, payload |-> Stored(op)]
      BY Zenon, <1>4, <2>1 DEF Command
    <3>2. Command(op) \in Commands
      BY <1>1, <1>4, <2>1, <3>1 DEF IsOperation, Commands
    <3>3. Create(op) \in {"write", "invalid"}
      BY Zenon, <2>0
      DEF Create, CreateRoute, CreateGroup, CreateDestination, CreateListener,
          CreateMiddleware, CreateSecret, Checked
    <3>4. Update(d, op) \in {"write", "invalid", "notfound"}
      BY Zenon, <2>0
      DEF Update, UpdateRoute, UpdateGroup, UpdateDestination, UpdateListener,
          UpdateMiddleware, UpdateSecret, Found, Checked
    <3>5. Handle(d, op) = IF op.verb = "create" THEN Create(op) ELSE Update(d, op)
      BY Zenon, <1>4, <2>1 DEF Handle
    <3> QED BY Zenon, <2>1, <3>2, <3>3, <3>4, <3>5
  <2>2. CASE op.verb = "get"
    <3>1. Handle(d, op) = Get(d, op)
      BY Zenon, <1>4, <2>2 DEF Handle
    <3>2. Get(d, op) \in {"ok", "notfound"}
      BY Zenon, <2>0
      DEF Get, GetRoute, GetGroup, GetDestination, GetListener, GetMiddleware, GetSecret,
          Found
    <3> QED BY Zenon, <2>2, <3>1, <3>2
  <2>3. CASE op.verb = "delete"
    <3>1. Handle(d, op) = "write"
      BY Zenon, <1>4, <2>3 DEF Handle
    <3>2. Command(op) = [type |-> "Delete", id |-> op.id]
      BY Zenon, <1>4, <2>3 DEF Command
    <3> QED BY <1>1, <1>4, <2>3, <3>1, <3>2 DEF IsOperation, Commands
  <2> QED BY Zenon, <1>1, <1>4, <2>1, <2>2, <2>3 DEF IsOperation
<1> QED BY Zenon, <1>2, <1>3, <1>4

----------------------------------------------------------------------------
(* Answers.                                                                *)

\* The log and the nodes are as they were, up to the fields of requests that
\* the node invariant does not look at.
LEMMA NodesKept ==
  ASSUME RaftInv, UNCHANGED <<log, history, nodeVars>>, LogCommands' = LogCommands
  PROVE  NodeInv' /\ IsHistory(LogCommands, history)'
<1>1. NodeInv' 
  BY Zenon DEF RaftInv, NodeInv, nodeVars
<1>2. IsHistory(LogCommands, history)'
  BY Zenon DEF RaftInv, LogInv
<1> QED BY Zenon, <1>1, <1>2

\* Requests are answered, and nothing else happens to log and nodes.
LEMMA AnswerStep ==
  ASSUME RaftInv, TypeOK', UNCHANGED <<log, history, proposed, nodeVars>>,
         \A r \in Requests : req'[r] = req[r] \/ Answered(r),
         \A r \in Requests : req'[r].pc = "waiting" => req'[r].via \in up'
  PROVE  RaftInv'
<1>1. \A r \in Requests : /\ req'[r].command = req[r].command /\ req'[r].op = req[r].op
                          /\ req'[r].pc # "done" => req'[r] = req[r]
  BY Zenon DEF Answered
<1>2. LogCommands' = LogCommands
  BY Zenon, <1>1, CommandsKept DEF RaftInv
<1>3. NodeInv' /\ IsHistory(LogCommands, history)'
  BY Zenon, <1>2, NodesKept
<1>4. RequestInv'
  <2> SUFFICES ASSUME NEW r \in Requests
               PROVE  /\ req'[r].pc = "new" <=> req'[r].op = Absent
                      /\ req'[r].pc = "new" => req'[r].command = Absent
                      /\ req'[r].pc # "done" => req'[r].status = Absent
                      /\ req'[r].pc \in {"writing", "waiting", "reading"} => req'[r].command # Absent
                      /\ req'[r].command # Absent =>
                           /\ req'[r].command = Command(req'[r].op)
                           /\ req'[r].op.verb # "get"
                      /\ req'[r].pc = "writing" => req'[r].at \in Nodes /\ r \notin proposed \cup Range(log)
                      /\ r \in proposed \cup Range(log) => req'[r].command # Absent
    BY Zenon DEF RequestInv, Range
  <2> QED BY <1>1 DEF RaftInv, RequestInv, Answered
<1>5. LogInv'
  <2>1. proposed' \cap Range(log)' = {} /\ \A i, j \in 1 .. Len(log') : log'[i] = log'[j] => i = j
    BY DEF RaftInv, LogInv, Range
  <2>2. ASSUME NEW r \in Requests, req'[r].command # Absent, req'[r].command.type = "ActivateSnapshot"
        PROVE  \E i \in 1 .. Len(log') :
                 req'[log'[i]].command.type = "SaveSnapshot" /\ req'[log'[i]].command.id = req'[r].command.id
    <3>1. req[r].command # Absent /\ req[r].command.type = "ActivateSnapshot"
      BY Zenon, <1>1, <2>2
    <3>2. PICK i \in 1 .. Len(log) :
            req[log[i]].command.type = "SaveSnapshot" /\ req[log[i]].command.id = req[r].command.id
      BY Zenon, <3>1 DEF RaftInv, LogInv
    <3>3. log[i] \in Requests
      BY Zenon, LogFacts
    <3> QED BY Zenon, <1>1, <3>2, <3>3
  <2> QED BY Zenon, <1>3, <2>1, <2>2 DEF LogInv
<1>6. WaitingInv'
  <2> SUFFICES ASSUME NEW r \in Requests, req'[r].pc = "waiting"
               PROVE  /\ req'[r].via \in up'
                      /\ \A k \in 1 .. Len(log') :
                           log'[k] = r =>
                             /\ applied'[req'[r].via] < k
                             /\ Ahead(LogCommands', history', db'[req'[r].via], applied'[req'[r].via], k - 1)
    BY Zenon DEF WaitingInv
  <2>1. req'[r] = req[r]
    BY Zenon, <1>1
  <2> QED BY Zenon, <2>1, <1>2 DEF RaftInv, WaitingInv, nodeVars
<1>7. ReadingInv'
  <2> SUFFICES ASSUME NEW r \in Requests, req'[r].pc = "reading"
               PROVE  /\ req'[r].op.verb = "activate"
                      /\ \E i \in Entry(r)' : Result(Contents(i - 1)', req'[r].command) = "ok"
    BY Zenon DEF ReadingInv
  <2>1. req'[r] = req[r]
    BY Zenon, <1>1
  <2> QED BY <2>1 DEF RaftInv, ReadingInv, Entry, Contents
<1>8. AnswersTrue'
  <2> SUFFICES ASSUME NEW r \in Requests, req'[r].op # Absent,
                      req'[r].op.kind \in {"secret", "snapshot"},
                      req'[r].op.verb \in {"delete", "activate"},
                      req'[r].status \in {"ok", "notfound"}
               PROVE  \E i \in Entry(r)' : Result(Contents(i - 1)', req'[r].command) = req'[r].status
    BY Zenon DEF AnswersTrue
  <2>1. \E i \in Entry(r) : Result(Contents(i - 1), req'[r].command) = req'[r].status
    <3>1. CASE req'[r] = req[r]
      BY Zenon, <3>1 DEF RaftInv, AnswersTrue
    <3>2. CASE Answered(r)
      BY Zenon, <3>2, <1>1 DEF Answered
    <3> QED BY Zenon, <3>1, <3>2
  <2> QED BY Zenon, <2>1 DEF Entry, Contents
<1> QED BY Zenon, <1>3, <1>4, <1>5, <1>6, <1>7, <1>8 DEF RaftInv

----------------------------------------------------------------------------
(* Handlers and raft.Apply.                                                *)

\* A handler takes a request: it answers it, sends it on, or hands its
\* command to the leader's raft.Apply.
LEMMA ReceiveStep ==
  ASSUME RaftInv, NEW r \in Requests, NEW n \in Nodes, NEW op \in OperationsOf[r], Receive(r, n, op)
  PROVE  /\ RaftInv'
         /\ \A q \in Requests \ {r} : req'[q] = req[q]
         /\ req[r].command = Absent /\ req[r].status = Absent
         /\ IF Handle(db[n], op) = "write"
            THEN req'[r].command = Command(op) /\ req'[r].status = Absent
            ELSE req'[r].command = Absent /\ req'[r].status = Handle(db[n], op)
<1> DEFINE verdict == Handle(db[n], op)
           t == req'[r]
<1>1. op \in Operations /\ IsOperation(op) /\ op # Absent
  <2>1. op \in Operations
    BY Zenon DEF Operations
  <2> QED BY Zenon, <2>1, OperationTyped
<1>2. /\ verdict \in {"write", "ok", "notfound", "invalid", "unauthorized"}
      /\ verdict = "write" => op.verb # "get" /\ Command(op) \in Commands
      /\ op.verb \in {"delete", "activate"} => verdict \in {"write", "unauthorized"}
  BY Zenon, <1>1, HandleTyped, LogFacts
<1>3. /\ req \in [Requests -> RequestRecords] /\ req[r] \in RequestRecords /\ req[r].pc = "new"
      /\ req[r].command = Absent /\ req[r].status = Absent
      /\ UNCHANGED <<leader, up, log, history, proposed, applied, db, compacted, faults>>
  BY Zenon DEF RaftInv, TypeOK, RequestInv, Receive, raftVars, nodeVars
<1>4. \E s : /\ req' = [req EXCEPT ![r] = s]
             /\ s \in RequestRecords /\ s.op = op /\ s.at = n
             /\ IF verdict = "write"
                THEN s.pc = "writing" /\ s.command = Command(op) /\ s.status = Absent
                ELSE s.pc = "done" /\ s.command = Absent /\ s.status = verdict
  <2> DEFINE started == [req[r] EXCEPT !.op = op, !.at = n]
  <2>1. started \in RequestRecords /\ started.op = op /\ started.at = n /\ started.command = Absent /\ started.status = Absent
    BY Zenon, <1>1, <1>3 DEF RequestRecords
  <2>2. req' = [req EXCEPT ![r] =
          IF verdict = "write"
          THEN [started EXCEPT !.pc = "writing", !.command = Command(op)]
          ELSE [started EXCEPT !.pc = "done", !.status = verdict]]
    BY Zenon DEF Receive
  <2> HIDE DEF started
  <2>3. CASE verdict = "write"
    <3>1. req' = [req EXCEPT ![r] = [started EXCEPT !.pc = "writing", !.command = Command(op)]]
      BY Zenon, <2>2, <2>3
    <3>2. /\ [started EXCEPT !.pc = "writing", !.command = Command(op)] \in RequestRecords
          /\ [started EXCEPT !.pc = "writing", !.command = Command(op)].op = op
          /\ [started EXCEPT !.pc = "writing", !.command = Command(op)].at = n
          /\ [started EXCEPT !.pc = "writing", !.command = Command(op)].pc = "writing"
          /\ [started EXCEPT !.pc = "writing", !.command = Command(op)].command = Command(op)
          /\ [started EXCEPT !.pc = "writing", !.command = Command(op)].status = Absent
      BY Zenon, <1>2, <2>1, <2>3 DEF RequestRecords
    <3> QED BY Zenon, <2>3, <3>1, <3>2
  <2>4. CASE verdict # "write"
    <3>1. req' = [req EXCEPT ![r] = [started EXCEPT !.pc = "done", !.status = verdict]]
      BY Zenon, <2>2, <2>4
    <3>2. /\ [started EXCEPT !.pc = "done", !.status = verdict] \in RequestRecords
          /\ [started EXCEPT !.pc = "done", !.status = verdict].op = op
          /\ [started EXCEPT !.pc = "done", !.status = verdict].at = n
          /\ [started EXCEPT !.pc = "done", !.status = verdict].pc = "done"
          /\ [started EXCEPT !.pc = "done", !.status = verdict].command = Absent
          /\ [started EXCEPT !.pc = "done", !.status = verdict].status = verdict
      BY Zenon, <1>2, <2>1, <2>4 DEF RequestRecords, Statuses
    <3> QED BY Zenon, <2>4, <3>1, <3>2
  <2> QED BY Zenon, <2>3, <2>4
<1>5. /\ req' \in [Requests -> RequestRecords] /\ t.op = op /\ t.at = n
      /\ \A q \in Requests \ {r} : req'[q] = req[q]
      /\ IF verdict = "write"
         THEN t.pc = "writing" /\ t.command = Command(op) /\ t.status = Absent
         ELSE t.pc = "done" /\ t.command = Absent /\ t.status = verdict
  BY Zenon, <1>3, <1>4
<1> HIDE DEF verdict, t
<1>6. TypeOK'
  BY Zenon, <1>3, <1>5 DEF RaftInv, TypeOK
<1>7. r \notin proposed \cup Range(log)
  BY Zenon, <1>3 DEF RaftInv, RequestInv
<1>8. LogCommands' = LogCommands
  BY Zenon, <1>3, <1>5, CommandsKept DEF RaftInv
<1>9. NodeInv' /\ IsHistory(LogCommands, history)'
  BY Zenon, <1>3, <1>8, NodesKept DEF nodeVars
<1>10. RequestInv'
  <2>1. Range(log)' = Range(log) /\ proposed' = proposed
    BY Zenon, <1>3 DEF Range
  <2>2. \A q \in Requests \ {r} :
           /\ req'[q].pc = "new" <=> req'[q].op = Absent
           /\ req'[q].pc = "new" => req'[q].command = Absent
           /\ req'[q].pc # "done" => req'[q].status = Absent
           /\ req'[q].pc \in {"writing", "waiting", "reading"} => req'[q].command # Absent
           /\ req'[q].command # Absent => req'[q].command = Command(req'[q].op) /\ req'[q].op.verb # "get"
           /\ req'[q].pc = "writing" => req'[q].at \in Nodes /\ q \notin proposed \cup Range(log)
           /\ q \in proposed \cup Range(log) => req'[q].command # Absent
    BY <1>5 DEF RaftInv, RequestInv
  <2>3. /\ t.pc # "new" /\ t.op # Absent
        /\ t.pc # "done" => t.status = Absent
        /\ t.pc \in {"writing", "waiting", "reading"} => t.command # Absent
        /\ t.command # Absent => t.command = Command(t.op) /\ t.op.verb # "get"
    BY Zenon, <1>1, <1>2, <1>5, AbsentAssumption
  <2> QED BY <1>5, <1>7, <2>1, <2>2, <2>3 DEF RequestInv, t
<1>11. LogInv'
  <2>1. proposed' \cap Range(log)' = {} /\ \A i, j \in 1 .. Len(log') : log'[i] = log'[j] => i = j
    BY <1>3 DEF RaftInv, LogInv, Range
  <2>2. ASSUME NEW q \in Requests, req'[q].command # Absent, req'[q].command.type = "ActivateSnapshot"
        PROVE  \E i \in 1 .. Len(log) :
                 req[log[i]].command.type = "SaveSnapshot" /\ req[log[i]].command.id = req'[q].command.id
    <3>1. CASE q # r
      BY <2>2, <3>1, <1>5 DEF RaftInv, LogInv
    <3>2. CASE q = r
      <4>1. t.command = Command(op) /\ t.command.type = "ActivateSnapshot" /\ verdict = "write"
        BY Zenon, <2>2, <3>2, <1>5 DEF t
      <4>2. op.kind = "snapshot" /\ op.verb = "activate" /\ t.command.id = op.id
        <5>1. op.kind = "snapshot"
          BY <4>1, <1>1 DEF Command, IsOperation
        <5>2. op.verb = "activate"
          BY <4>1, <5>1, <1>1, <1>2 DEF Command, IsOperation
        <5> QED BY <4>1, <5>1, <5>2 DEF Command
      <4>3. op.id \in Issued
        BY Zenon, <4>2 DEF Receive
      <4>4. PICK p \in Range(log) : req[p].command.type = "SaveSnapshot" /\ req[p].op.id = op.id
        BY Zenon, <4>3 DEF Issued
      <4>5. PICK i \in 1 .. Len(log) : log[i] = p
        <5>1. DOMAIN log = 1 .. Len(log)
          BY DEF RaftInv, TypeOK
        <5> QED BY Zenon, <5>1 DEF Range
      <4>6. req[p].command = Command(req[p].op) /\ req[p].op \in Operations /\ req[p].op.verb # "get"
        <5>1. p \in Requests /\ req[p].command # Absent
          BY Zenon, <4>4, <4>5, LogFacts, AbsentAssumption
        <5>2. req[p].op # Absent
          BY Zenon, <5>1 DEF RaftInv, RequestInv
        <5>3. req[p].op \in Operations
          BY Zenon, <5>1, <5>2 DEF RaftInv, TypeOK, RequestRecords
        <5> QED BY Zenon, <5>1, <5>3 DEF RaftInv, RequestInv
      <4>7. req[p].command.id = req[p].op.id
        <5>1. IsOperation(req[p].op)
          BY Zenon, <4>6, OperationTyped
        <5> QED BY Zenon, <4>6, <5>1, CommandOf
      <4> QED BY Zenon, <3>2, <4>2, <4>4, <4>5, <4>7 DEF t
    <3> QED BY Zenon, <3>1, <3>2
  <2>3. \A i \in 1 .. Len(log) : req'[log[i]].command = req[log[i]].command
    BY Zenon, <1>8, <1>3 DEF LogCommands
  <2> QED BY <1>3, <1>9, <2>1, <2>2, <2>3 DEF LogInv
<1>12. WaitingInv'
  <2> SUFFICES ASSUME NEW q \in Requests, req'[q].pc = "waiting"
               PROVE  /\ req'[q].via \in up'
                      /\ \A k \in 1 .. Len(log') :
                           log'[k] = q =>
                             /\ applied'[req'[q].via] < k
                             /\ Ahead(LogCommands', history', db'[req'[q].via], applied'[req'[q].via], k - 1)
    BY Zenon DEF WaitingInv
  <2>1. req'[q] = req[q]
    BY Zenon, <1>5 DEF t
  <2>2. /\ up' = up /\ log' = log /\ history' = history
        /\ applied' = applied /\ db' = db
    BY Zenon, <1>3
  <2> QED BY Zenon, <2>1, <2>2, <1>8 DEF RaftInv, WaitingInv
<1>13. ReadingInv'
  <2> SUFFICES ASSUME NEW q \in Requests, req'[q].pc = "reading"
               PROVE  /\ req'[q].op.verb = "activate"
                      /\ \E i \in Entry(q)' : Result(Contents(i - 1)', req'[q].command) = "ok"
    BY Zenon DEF ReadingInv
  <2>1. req'[q] = req[q]
    BY Zenon, <1>5 DEF t
  <2> QED BY <2>1, <1>3 DEF RaftInv, ReadingInv, Entry, Contents
<1>14. AnswersTrue'
  <2> SUFFICES ASSUME NEW q \in Requests, req'[q].op # Absent,
                      req'[q].op.kind \in {"secret", "snapshot"},
                      req'[q].op.verb \in {"delete", "activate"},
                      req'[q].status \in {"ok", "notfound"}
               PROVE  \E i \in Entry(q)' : Result(Contents(i - 1)', req'[q].command) = req'[q].status
    BY Zenon DEF AnswersTrue
  <2>1. q # r
    BY Zenon, <1>2, <1>5, AbsentAssumption DEF t, Statuses
  <2> QED BY <2>1, <1>3, <1>5 DEF RaftInv, AnswersTrue, Entry, Contents
<1>15. req[r].command = Absent /\ req[r].status = Absent
  BY Zenon, <1>3 DEF RaftInv, RequestInv
<1> QED
  BY Zenon, <1>5, <1>6, <1>9, <1>10, <1>11, <1>12, <1>13, <1>14, <1>15 DEF RaftInv, t, verdict

\* The request is in the leader's log; no node has heard of it.
LEMMA ApplyRawStep ==
  ASSUME RaftInv, NEW r \in Requests, NEW n, leader # NoNode, req[r].pc = "writing", ApplyRaw(r, n)
  PROVE  RaftInv' /\ \A q \in Requests : Told(q)
<1>1. /\ req \in [Requests -> RequestRecords] /\ req[r] \in RequestRecords
      /\ n \in up /\ n \in Nodes
      /\ UNCHANGED <<leader, up, log, history, applied, db, compacted, faults>>
      /\ proposed' = proposed \cup {r}
  BY Zenon DEF RaftInv, TypeOK, ApplyRaw, nodeVars
<1>2. req' = [req EXCEPT ![r] = [@ EXCEPT !.pc = "waiting", !.via = n]]
  BY Zenon, <1>1 DEF ApplyRaw, RequestRecords
<1>3. /\ [req[r] EXCEPT !.pc = "waiting", !.via = n] \in RequestRecords
      /\ [req[r] EXCEPT !.pc = "waiting", !.via = n].pc = "waiting"
      /\ [req[r] EXCEPT !.pc = "waiting", !.via = n].via = n
      /\ [req[r] EXCEPT !.pc = "waiting", !.via = n].op = req[r].op
      /\ [req[r] EXCEPT !.pc = "waiting", !.via = n].command = req[r].command
      /\ [req[r] EXCEPT !.pc = "waiting", !.via = n].status = req[r].status
  BY Zenon, <1>1 DEF RequestRecords
<1>4. /\ req' \in [Requests -> RequestRecords]
      /\ \A q \in Requests \ {r} : req'[q] = req[q]
      /\ req'[r].pc = "waiting" /\ req'[r].via = n
      /\ req'[r].op = req[r].op /\ req'[r].command = req[r].command /\ req'[r].status = req[r].status
  BY Zenon, <1>1, <1>2, <1>3
<1>5. TypeOK'
  BY Zenon, <1>1, <1>4 DEF RaftInv, TypeOK
<1>6. r \notin proposed \cup Range(log) /\ req[r].command # Absent
  BY Zenon DEF RaftInv, RequestInv
<1>7. \A q \in Requests : req'[q].command = req[q].command /\ req'[q].op = req[q].op
  BY Zenon, <1>4
<1>8. LogCommands' = LogCommands
  BY Zenon, <1>1, <1>7, CommandsKept DEF RaftInv
<1>9. NodeInv' /\ IsHistory(LogCommands, history)'
  BY Zenon, <1>1, <1>8, NodesKept DEF nodeVars
<1>10. RequestInv'
  <2>1. Range(log)' = Range(log)
    BY Zenon, <1>1 DEF Range
  <2> QED BY <1>1, <1>4, <1>6, <2>1 DEF RaftInv, RequestInv
<1>11. LogInv'
  <2>1. proposed' \cap Range(log)' = {} /\ \A i, j \in 1 .. Len(log') : log'[i] = log'[j] => i = j
    BY <1>1, <1>6 DEF RaftInv, LogInv, Range
  <2>2. \A i \in 1 .. Len(log) : req'[log[i]].command = req[log[i]].command
    BY Zenon, <1>8, <1>1 DEF LogCommands
  <2> QED BY <1>1, <1>7, <1>9, <2>1, <2>2 DEF RaftInv, LogInv
<1>12. WaitingInv'
  <2> SUFFICES ASSUME NEW q \in Requests, req'[q].pc = "waiting"
               PROVE  /\ req'[q].via \in up'
                      /\ \A k \in 1 .. Len(log') :
                           log'[k] = q =>
                             /\ applied'[req'[q].via] < k
                             /\ Ahead(LogCommands', history', db'[req'[q].via], applied'[req'[q].via], k - 1)
    BY Zenon DEF WaitingInv
  <2>1. CASE q = r
    <3>1. \A k \in 1 .. Len(log') : log'[k] # r
      BY Zenon, <1>1, <1>6, LogFacts
    <3> QED BY Zenon, <2>1, <3>1, <1>1, <1>4
  <2>2. CASE q # r
    <3>1. req'[q] = req[q]
      BY Zenon, <2>2, <1>4
    <3> QED BY Zenon, <3>1, <1>1, <1>8 DEF RaftInv, WaitingInv
  <2> QED BY Zenon, <2>1, <2>2
<1>13. ReadingInv'
  <2> SUFFICES ASSUME NEW q \in Requests, req'[q].pc = "reading"
               PROVE  /\ req'[q].op.verb = "activate"
                      /\ \E i \in Entry(q)' : Result(Contents(i - 1)', req'[q].command) = "ok"
    BY Zenon DEF ReadingInv
  <2>1. req'[q] = req[q]
    BY Zenon, <1>4
  <2> QED BY <2>1, <1>1 DEF RaftInv, ReadingInv, Entry, Contents
<1>14. AnswersTrue'
  <2>1. \A q \in Requests : req'[q].status = req[q].status
    BY Zenon, <1>4
  <2> QED BY <1>1, <1>7, <2>1 DEF RaftInv, AnswersTrue, Entry, Contents
<1>15. \A q \in Requests : Told(q)
  BY Zenon, <1>4 DEF Told
<1> QED BY Zenon, <1>5, <1>9, <1>10, <1>11, <1>12, <1>13, <1>14, <1>15 DEF RaftInv

----------------------------------------------------------------------------
(* Failures, and the read after an activation.                             *)

\* The requests rs are finished with the statuses st.
FinishWith(rs, st) ==
  req' = [q \in Requests |->
            IF q \in rs THEN [req[q] EXCEPT !.pc = "done", !.status = st[q]] ELSE req[q]]

\* FinishWith ends the requests rs and leaves the others alone.
LEMMA FinishTyped ==
  ASSUME TypeOK, NEW rs, rs \subseteq Requests, NEW st, \A q \in rs : st[q] \in Statuses,
         FinishWith(rs, st)
  PROVE  /\ req' \in [Requests -> RequestRecords]
         /\ \A q \in Requests \ rs : req'[q] = req[q]
         /\ \A q \in rs : /\ req'[q].pc = "done" /\ req'[q].status = st[q]
                          /\ req'[q].op = req[q].op /\ req'[q].command = req[q].command
<1>1. \A q \in Requests : req[q] \in RequestRecords
  BY Zenon DEF TypeOK
<1>2. ASSUME NEW q \in rs
      PROVE  /\ req'[q] \in RequestRecords
             /\ req'[q].pc = "done" /\ req'[q].status = st[q]
             /\ req'[q].op = req[q].op /\ req'[q].command = req[q].command
  <2>1. req'[q] = [req[q] EXCEPT !.pc = "done", !.status = st[q]] /\ req[q] \in RequestRecords
    BY <1>1, Zenon DEF FinishWith
  <2>2. st[q] \in Statuses
    BY Zenon
  <2> QED BY Zenon, <2>1, <2>2 DEF RequestRecords
<1>3. \A q \in Requests \ rs : req'[q] = req[q]
  BY Zenon DEF FinishWith
<1>4. req' = [q \in Requests |-> req'[q]]
  BY Zenon DEF FinishWith
<1>5. \A q \in Requests : req'[q] \in RequestRecords
  BY Zenon, <1>1, <1>2, <1>3
<1> QED BY Zenon, <1>2, <1>3, <1>4, <1>5

\* Requests in progress are finished with an error, or with what their handler
\* makes of one.
LEMMA FailureStep ==
  ASSUME RaftInv, NEW rs, rs \subseteq Requests, NEW st,
         \A q \in rs : /\ req[q].pc \in {"writing", "waiting", "reading"}
                       /\ st[q] = "error" \/ st[q] = Status(req[q].op, "error"),
         FinishWith(rs, st),
         UNCHANGED <<log, history, proposed, nodeVars>>,
         leader' \in up' \cup {NoNode}, up' \subseteq up, faults' \in 0 .. MaxFaults,
         \A q \in Requests \ rs : req[q].pc = "waiting" => req[q].via \in up'
  PROVE  RaftInv' /\ \A q \in Requests : req'[q] = req[q] \/ Failed(q)
<1>1. ASSUME NEW q \in rs
      PROVE  /\ st[q] \in {"notfound", "error"}
             /\ /\ req[q].op.kind \in {"secret", "snapshot"}
                /\ req[q].op.verb \in {"delete", "activate"}
                => st[q] = "error"
  <2>1. q \in Requests /\ req[q].op \in Operations /\ req[q].op.verb # "get"
    BY Zenon, InProgress
  <2> QED BY Zenon, <2>1, StatusTyped
<1>2. TypeOK /\ \A q \in rs : st[q] \in Statuses
  BY Zenon, <1>1 DEF RaftInv, Statuses
<1>3. /\ req' \in [Requests -> RequestRecords]
      /\ \A q \in Requests \ rs : req'[q] = req[q]
      /\ \A q \in rs : /\ req'[q].pc = "done" /\ req'[q].status = st[q]
                       /\ req'[q].op = req[q].op /\ req'[q].command = req[q].command
  BY Zenon, <1>2, FinishTyped
<1>4. TypeOK'
  <2>1. req' \in [Requests -> RequestRecords]
    BY Zenon, <1>3
  <2> QED BY Zenon, <2>1 DEF RaftInv, TypeOK, nodeVars
<1>5. ASSUME NEW q \in Requests PROVE req'[q] = req[q] \/ Failed(q)
  <2>1. CASE q \notin rs
    BY Zenon, <1>3, <2>1
  <2>2. CASE q \in rs
    <3>1. /\ req'[q].pc = "done" /\ req'[q].status = st[q]
          /\ req'[q].op = req[q].op /\ req'[q].command = req[q].command
          /\ req[q].pc \in {"writing", "waiting", "reading"}
      BY Zenon, <1>3, <2>2
    <3>2. ~(/\ req[q].op.kind \in {"secret", "snapshot"}
            /\ req[q].op.verb \in {"delete", "activate"}
            /\ req'[q].status \in {"ok", "notfound"})
      BY Zenon, <1>1, <2>2, <3>1
    <3> QED BY Zenon, <1>1, <2>2, <3>1, <3>2 DEF Answered, Failed
  <2> QED BY Zenon, <2>1, <2>2
<1>6. \A q \in Requests : req'[q].pc = "waiting" => req'[q].via \in up'
  BY Zenon, <1>3
<1>7. \A q \in Requests : req'[q] = req[q] \/ Answered(q)
  BY Zenon, <1>5 DEF Failed
<1>8. RaftInv'
  BY Zenon, <1>4, <1>6, <1>7, AnswerStep
<1> QED BY Zenon, <1>5, <1>8

\* The number of faults stays within its bound.
LEMMA FaultTyped ==
  ASSUME RaftInv, Fault \/ UNCHANGED faults
  PROVE  faults' \in 0 .. MaxFaults
BY FaultsAssumption DEF RaftInv, TypeOK, Fault

\* The call that forwards a request to the leader fails, or times out.
LEMMA FailuresStep ==
  ASSUME RaftInv, NEW r \in Requests, WriteFails(r) \/ ForwardTimeout(r)
  PROVE  RaftInv' /\ \A q \in Requests : req'[q] = req[q] \/ Failed(q)
<1> DEFINE st == [q \in {r} |-> Status(req[r].op, "error")]
<1>1. /\ UNCHANGED <<leader, up, log, history, proposed, nodeVars>>
      /\ req[r].pc \in {"writing", "waiting", "reading"}
      /\ Finish({r}, Status(req[r].op, "error"))
      /\ Fault \/ UNCHANGED faults
  BY Zenon DEF WriteFails, ForwardTimeout, raftVars
<1>2. faults' \in 0 .. MaxFaults
  BY Zenon, <1>1, FaultTyped
<1>3. FinishWith({r}, st)
  BY <1>1, Zenon DEF Finish, FinishWith, st
<1>4. /\ leader' \in up' \cup {NoNode} /\ up' \subseteq up
      /\ \A q \in Requests \ {r} : req[q].pc = "waiting" => req[q].via \in up'
  BY Zenon, <1>1 DEF RaftInv, TypeOK, WaitingInv
<1>5. \A q \in {r} : /\ req[q].pc \in {"writing", "waiting", "reading"}
                     /\ st[q] = "error" \/ st[q] = Status(req[q].op, "error")
  BY Zenon, <1>1
<1>6. st[r] = Status(req[r].op, "error") /\ {r} \subseteq Requests
  BY Zenon
<1> HIDE DEF st
<1> QED BY Zenon, <1>1, <1>2, <1>3, <1>4, <1>5, <1>6, FailureStep

\* The leader steps down and fails what waits for its log.
LEMMA LoseLeadershipStep ==
  ASSUME RaftInv, NEW n \in Nodes, LoseLeadership(n)
  PROVE  RaftInv' /\ \A q \in Requests : req'[q] = req[q] \/ Failed(q)
<1> DEFINE rs == Uncommitted(n)
           st == [q \in rs |-> Status(req[q].op, "error")]
<1>1. UNCHANGED <<up, log, history, proposed, nodeVars>> /\ leader' = NoNode /\ Fault
  BY Zenon DEF LoseLeadership
<1>2. rs \subseteq Requests /\ \A q \in rs : req[q].pc = "waiting"
  BY Zenon DEF RaftInv, TypeOK, Uncommitted
<1>3. faults' \in 0 .. MaxFaults
  BY Zenon, <1>1, FaultTyped
<1> HIDE DEF rs
<1>4. \A q \in rs : st[q] = Status(req[q].op, "error")
  BY Zenon
<1>5. FinishWith(rs, st)
  BY <1>4, Zenon DEF FinishWith, LoseLeadership, rs
<1>6. /\ leader' \in up' \cup {NoNode} /\ up' \subseteq up
      /\ \A q \in Requests \ rs : req[q].pc = "waiting" => req[q].via \in up'
  BY Zenon, <1>1 DEF RaftInv, TypeOK, WaitingInv
<1> HIDE DEF st
<1> QED BY Zenon, <1>1, <1>2, <1>3, <1>4, <1>5, <1>6, FailureStep

\* A node crashes: its clients see their requests fail.
LEMMA CrashStep ==
  ASSUME RaftInv, NEW n \in Nodes, Crash(n)
  PROVE  RaftInv' /\ \A q \in Requests : req'[q] = req[q] \/ Failed(q)
<1> DEFINE rs == Depending(n)
           st == [q \in rs |-> "error"]
<1>1. /\ UNCHANGED <<log, history, proposed, nodeVars>> /\ Fault
      /\ up' = up \ {n} /\ leader' = IF leader = n THEN NoNode ELSE leader
      /\ Finish(rs, "error")
  BY Zenon DEF Crash
<1>2. /\ rs \subseteq Requests /\ \A q \in rs : req[q].pc \in {"writing", "waiting", "reading"}
      /\ \A q \in Requests \ rs : req[q].pc = "waiting" => req[q].via # n
  BY Zenon DEF Depending
<1>3. faults' \in 0 .. MaxFaults
  BY Zenon, <1>1, FaultTyped
<1> HIDE DEF rs
<1>4. \A q \in rs : st[q] = "error"
  BY Zenon
<1>5. FinishWith(rs, st)
  BY <1>1, <1>4, Zenon DEF Finish, FinishWith
<1>6. /\ leader' \in up' \cup {NoNode} /\ up' \subseteq up
      /\ \A q \in Requests \ rs : req[q].pc = "waiting" => req[q].via \in up'
  BY Zenon, <1>1, <1>2 DEF RaftInv, TypeOK, WaitingInv
<1> HIDE DEF st
<1> QED BY Zenon, <1>1, <1>2, <1>3, <1>4, <1>5, <1>6, FailureStep

\* The handler reads the activated snapshot back after FSM.Apply.
LEMMA ReadActivatedStep ==
  ASSUME RaftInv, NEW r \in Requests, ReadActivated(r)
  PROVE  RaftInv' /\ \A q \in Requests : Told(q)
<1> DEFINE s == IF req[r].op.id \in db[req[r].at].snapshots THEN "ok" ELSE "error"
           st == [q \in {r} |-> s]
<1>1. /\ UNCHANGED <<leader, up, log, history, proposed, nodeVars, faults>>
      /\ req[r].pc = "reading" /\ Finish({r}, s)
  BY Zenon DEF ReadActivated, raftVars
<1>2. s \in {"ok", "error"} /\ \A q \in {r} : st[q] = s
  BY Zenon
<1> HIDE DEF s
<1>3. FinishWith({r}, st)
  BY <1>1, Zenon DEF Finish, FinishWith, st
<1> HIDE DEF st
<1>4. TypeOK /\ {r} \subseteq Requests /\ \A q \in {r} : st[q] \in Statuses
  BY Zenon, <1>2 DEF RaftInv, Statuses
<1>5. /\ req' \in [Requests -> RequestRecords]
      /\ \A q \in Requests \ {r} : req'[q] = req[q]
      /\ \A q \in {r} : /\ req'[q].pc = "done" /\ req'[q].status = st[q]
                        /\ req'[q].op = req[q].op /\ req'[q].command = req[q].command
  BY <1>3, <1>4, FinishTyped, Zenon
<1>6. TypeOK'
  BY Zenon, <1>1, <1>5 DEF RaftInv, TypeOK, nodeVars
<1>7. \E i \in Entry(r) : Result(Contents(i - 1), req[r].command) = "ok"
  BY Zenon, <1>1 DEF RaftInv, ReadingInv
<1>8. \A q \in Requests : req'[q] = req[q] \/ Answered(q)
  BY Zenon, <1>1, <1>2, <1>5, <1>7 DEF Answered
<1>9. \A q \in Requests : req'[q].pc = "waiting" => req'[q].via \in up'
  BY Zenon, <1>1, <1>5 DEF RaftInv, WaitingInv
<1>10. RaftInv'
  BY Zenon, <1>1, <1>6, <1>8, <1>9, AnswerStep
<1>11. req[r].status = Absent /\ r \in Range(log)
  BY Zenon, <1>1, <1>7 DEF RaftInv, RequestInv, Entry, Range
<1> QED BY Zenon, <1>5, <1>10, <1>11 DEF Told

----------------------------------------------------------------------------
(* An entry is committed, and applied.                                     *)

\* The log grows by an entry that no node has applied.
LEMMA CommitStep ==
  ASSUME RaftInv, NEW r \in Requests, Commit(r)
  PROVE  RaftInv'
<1> DEFINE m == Len(log)
           c == req[r].command
<1>1. /\ UNCHANGED <<leader, up, applied, db, compacted, req, faults>>
      /\ r \in proposed /\ proposed' = proposed \ {r}
      /\ log' = Append(log, r)
      /\ history' = Append(history, ApplyCommand(history[m + 1], c))
  BY Zenon DEF Commit, Contents, nodeVars
<1>2. /\ log \in Seq(Requests) /\ m \in Nat
      /\ history \in Seq(Databases) /\ Len(history) = m + 1
      /\ r \notin Range(log)
  BY <1>1 DEF RaftInv, TypeOK, LogInv
<1>3. c # Absent /\ c \in Commands
  <2>1. c # Absent
    BY Zenon, <1>1 DEF RaftInv, RequestInv
  <2> QED BY Zenon, <2>1 DEF RaftInv, TypeOK, RequestRecords
<1>4. /\ log' \in Seq(Requests) /\ Len(log') = m + 1
      /\ \A i \in 1 .. m : log'[i] = log[i]
      /\ log'[m + 1] = r
  BY <1>1, <1>2
<1>5. history[m + 1] \in Databases /\ ApplyCommand(history[m + 1], c) \in Databases
  <2>1. history[m + 1] \in Databases
    BY <1>2
  <2> QED BY Zenon, <1>3, <2>1, ApplyEffect
<1>6. /\ history' \in Seq(Databases) /\ Len(history') = m + 2
      /\ \A i \in 1 .. m + 1 : history'[i] = history[i]
  BY <1>1, <1>2, <1>5
<1> HIDE DEF m, c
<1>7. TypeOK'
  <2>1. applied' \in [Nodes -> 0 .. Len(log')]
    BY <1>1, <1>2, <1>4 DEF RaftInv, TypeOK, m
  <2>2. compacted' \in [Nodes -> [index : 0 .. Len(log'), db : Databases]]
    <3>1. \A n \in Nodes : compacted[n] \in [index : 0 .. Len(log'), db : Databases]
      <4> SUFFICES ASSUME NEW n \in Nodes PROVE compacted[n] \in [index : 0 .. Len(log'), db : Databases]
        BY Zenon
      <4>1. compacted[n] \in [index : 0 .. m, db : Databases]
        BY Zenon DEF RaftInv, TypeOK, m
      <4>2. 0 .. m \subseteq 0 .. Len(log')
        BY <1>2, <1>4
      <4> QED BY Zenon, <4>1, <4>2
    <3>2. compacted = [n \in Nodes |-> compacted[n]]
      BY Zenon DEF RaftInv, TypeOK
    <3> QED BY Zenon, <1>1, <3>1, <3>2
  <2>3. Len(history') = Len(log') + 1
    BY <1>2, <1>4, <1>6
  <2> QED BY Zenon, <1>1, <1>4, <1>6, <2>1, <2>2, <2>3 DEF RaftInv, TypeOK
<1>8. LogCommands' = Append(LogCommands, c)
  <2>1. /\ LogCommands \in Seq(Commands) /\ Len(LogCommands) = m
        /\ \A i \in 1 .. m : LogCommands[i] = req[log[i]].command
    BY Zenon, LogFacts DEF m, IsHistory
  <2>2. LogCommands' = [i \in 1 .. m + 1 |-> req[log'[i]].command]
    BY Zenon, <1>1, <1>4 DEF LogCommands
  <2>3. \A i \in 1 .. m + 1 : req[log'[i]].command = IF i = m + 1 THEN c ELSE LogCommands[i]
    BY <1>2, <1>4, <2>1 DEF c
  <2> DEFINE longer == Append(LogCommands, c)
  <2>4. /\ longer \in Seq(Commands) /\ Len(longer) = m + 1
        /\ \A i \in 1 .. m + 1 : longer[i] = IF i = m + 1 THEN c ELSE LogCommands[i]
    BY <1>2, <1>3, <2>1
  <2> HIDE DEF longer
  <2>5. longer = [i \in 1 .. m + 1 |-> longer[i]]
    BY <2>4
  <2> QED BY Zenon, <2>2, <2>3, <2>4, <2>5 DEF longer
<1>9. IsHistory(LogCommands', history')
  <2>1. /\ IsHistory(LogCommands, history) /\ Len(LogCommands) = m
        /\ \A i \in 1 .. m : LogCommands[i] = req[log[i]].command
    BY Zenon, LogFacts DEF m
  <2>2. c.type = "ActivateSnapshot" =>
          \E h \in 1 .. Len(LogCommands) :
            LogCommands[h].type = "SaveSnapshot" /\ LogCommands[h].id = c.id
    BY <1>3, <2>1 DEF RaftInv, LogInv, c, m
  <2>3. history' = Append(history, ApplyCommand(history[Len(history)], c))
    BY Zenon, <1>1, <1>2 DEF c, m
  <2>4. IsHistory(Append(LogCommands, c), Append(history, ApplyCommand(history[Len(history)], c)))
    BY Zenon, <1>3, <2>1, <2>2, HistoryGrows
  <2> QED BY Zenon, <1>8, <2>3, <2>4
<1>10. /\ \A i \in 1 .. m : LogCommands'[i] = LogCommands[i]
       /\ \A i \in 1 .. m + 1 : history'[i] = history[i]
  <2>1. LogCommands \in Seq(Commands) /\ Len(LogCommands) = m
    BY Zenon, LogFacts DEF m, IsHistory
  <2> QED BY <1>3, <1>6, <1>8, <2>1
<1>11. ASSUME NEW d, NEW j \in Nat, NEW k \in Nat, j <= k, k <= m,
              Ahead(LogCommands, history, d, j, k)
       PROVE  Ahead(LogCommands', history', d, j, k)
  <2>1. /\ \A i \in 1 .. k : LogCommands'[i] = LogCommands[i]
        /\ \A i \in 1 .. k + 1 : history'[i] = history[i]
    BY <1>2, <1>10, <1>11
  <2> QED BY Zenon, <1>11, <2>1, PrefixAhead
<1>12. ASSUME NEW d, NEW j \in Nat, j <= m, Ahead(LogCommands, history, d, j, m)
       PROVE  Ahead(LogCommands', history', d, j, m) /\ Ahead(LogCommands', history', d, j, Len(log'))
  <2>1. Ahead(LogCommands', history', d, j, m)
    BY <1>2, <1>11, <1>12
  <2>2. Len(log') \in Nat /\ m <= Len(log')
    BY <1>2, <1>4
  <2> QED BY Zenon, <1>2, <1>12, <2>1, <2>2, LongerAhead
<1>13. NodeInv'
  <2> SUFFICES ASSUME NEW n \in Nodes
               PROVE  /\ Ahead(LogCommands', history', db[n], applied[n], Len(log'))
                      /\ Ahead(LogCommands', history', compacted[n].db, compacted[n].index, Len(log'))
    BY Zenon, <1>1 DEF NodeInv
  <2>1. /\ applied[n] \in Nat /\ applied[n] <= m
        /\ compacted[n].index \in Nat /\ compacted[n].index <= m
    BY Zenon, LogFacts DEF m
  <2>2. /\ Ahead(LogCommands, history, db[n], applied[n], m)
        /\ Ahead(LogCommands, history, compacted[n].db, compacted[n].index, m)
    BY Zenon DEF RaftInv, NodeInv, m
  <2> QED BY Zenon, <1>12, <2>1, <2>2
<1>14. Range(log)' = Range(log) \cup {r}
  BY <1>2, <1>4 DEF Range, m
<1>15. RequestInv'
  <2>1. req[r].pc # "writing"
    BY Zenon, <1>1 DEF RaftInv, RequestInv
  <2> QED BY Zenon, <1>1, <1>3, <1>14, <2>1 DEF RaftInv, RequestInv, c
<1>16. LogInv'
  <2>1. proposed' \cap Range(log)' = {}
    BY Zenon, <1>1, <1>14 DEF RaftInv, LogInv
  <2>2. ASSUME NEW i \in 1 .. m + 1, NEW j \in 1 .. m + 1, log'[i] = log'[j] PROVE i = j
    <3>1. \A h \in 1 .. m : log[h] # r
      BY Zenon, <1>2, LogFacts DEF m
    <3>2. \A g, h \in 1 .. m : log[g] = log[h] => g = h
      BY Zenon DEF RaftInv, LogInv, m
    <3> QED BY <1>2, <1>4, <2>2, <3>1, <3>2
  <2>3. ASSUME NEW q \in Requests, req[q].command # Absent, req[q].command.type = "ActivateSnapshot"
        PROVE  \E i \in 1 .. m + 1 :
                 req[log'[i]].command.type = "SaveSnapshot" /\ req[log'[i]].command.id = req[q].command.id
    <3>1. PICK i \in 1 .. m :
            req[log[i]].command.type = "SaveSnapshot" /\ req[log[i]].command.id = req[q].command.id
      BY Zenon, <2>3 DEF RaftInv, LogInv, m
    <3>2. i \in 1 .. m + 1 /\ log'[i] = log[i]
      BY <1>2, <1>4
    <3> QED BY Zenon, <3>1, <3>2
  <2> QED BY Zenon, <1>1, <1>4, <1>9, <2>1, <2>2, <2>3 DEF LogInv
<1>17. WaitingInv'
  <2> SUFFICES ASSUME NEW q \in Requests, req[q].pc = "waiting"
               PROVE  /\ req[q].via \in up
                      /\ \A k \in 1 .. m + 1 :
                           log'[k] = q =>
                             /\ applied[req[q].via] < k
                             /\ Ahead(LogCommands', history', db[req[q].via], applied[req[q].via], k - 1)
    BY Zenon, <1>1, <1>4 DEF WaitingInv
  <2> DEFINE n == req[q].via
  <2>1. n \in up /\ n \in Nodes
    BY Zenon DEF RaftInv, WaitingInv, TypeOK
  <2>2. applied[n] \in Nat /\ applied[n] <= m
    BY Zenon, <2>1, LogFacts DEF m
  <2>3. ASSUME NEW k \in 1 .. m, log'[k] = q
        PROVE  applied[n] < k /\ Ahead(LogCommands', history', db[n], applied[n], k - 1)
    <3>1. applied[n] < k /\ Ahead(LogCommands, history, db[n], applied[n], k - 1)
      BY Zenon, <1>4, <2>3 DEF RaftInv, WaitingInv, m
    <3>2. k - 1 \in Nat /\ k - 1 <= m /\ applied[n] <= k - 1
      BY <1>2, <2>2, <3>1
    <3> QED BY Zenon, <2>2, <3>1, <3>2, <1>11
  <2>4. applied[n] < m + 1 /\ Ahead(LogCommands', history', db[n], applied[n], (m + 1) - 1)
    <3>1. Ahead(LogCommands, history, db[n], applied[n], m)
      BY Zenon, <2>1 DEF RaftInv, NodeInv, m
    <3>2. applied[n] < m + 1 /\ (m + 1) - 1 = m
      BY <1>2, <2>2
    <3> QED BY Zenon, <2>2, <3>1, <3>2, <1>12
  <2>5. \A k \in 1 .. m + 1 : k \in 1 .. m \/ k = m + 1
    BY <1>2
  <2> HIDE DEF n
  <2> QED BY Zenon, <2>1, <2>3, <2>4, <2>5 DEF n
<1>18. ASSUME NEW q \in Requests, NEW i \in Entry(q)
       PROVE  i \in Entry(q)' /\ Contents(i - 1)' = Contents(i - 1)
  <2>1. i \in 1 .. m /\ log[i] = q
    BY <1>2 DEF Entry, m
  <2>2. (i - 1) + 1 \in 1 .. m + 1 /\ i \in 1 .. m + 1
    BY <1>2, <2>1
  <2> QED BY <1>4, <1>6, <2>1, <2>2 DEF Entry, Contents
<1>19. ReadingInv'
  BY Zenon, <1>1, <1>18 DEF RaftInv, ReadingInv
<1>20. AnswersTrue'
  BY Zenon, <1>1, <1>18 DEF RaftInv, AnswersTrue
<1> QED BY Zenon, <1>7, <1>13, <1>15, <1>16, <1>17, <1>19, <1>20 DEF RaftInv

\* FSM.Apply on a node: its database moves along the history by one entry,
\* and the request that waits there learns the result of the history.
LEMMA FSMApplyStep ==
  ASSUME RaftInv, NEW n \in Nodes, FSMApply(n)
  PROVE  RaftInv' /\ \A q \in Requests : Told(q)
<1> DEFINE j == applied[n]
           r == log[j + 1]
           c == req[r].command
           replies == req[r].pc = "waiting" /\ req[r].via = n
<1>0. /\ db' = [db EXCEPT ![n] = ApplyCommand(db[n], c)]
      /\ applied' = [applied EXCEPT ![n] = j + 1]
      /\ req' = IF replies THEN Reply(r, Result(db[n], c)) ELSE req
  <2>1. db' = [db EXCEPT ![n] = ApplyCommand(@, c)] /\ applied' = [applied EXCEPT ![n] = @ + 1]
    BY Zenon DEF FSMApply
  <2>2. db \in [Nodes -> Databases] /\ applied \in [Nodes -> 0 .. Len(log)]
    BY Zenon DEF RaftInv, TypeOK
  <2> QED BY Zenon, <2>1, <2>2 DEF FSMApply
<1>1. n \in up /\ j < Len(log) /\ UNCHANGED <<leader, up, log, history, proposed, compacted, faults>>
  BY Zenon DEF FSMApply, raftVars
<1>2. /\ j \in Nat /\ j + 1 \in 1 .. Len(log) /\ j + 1 <= Len(log) /\ Len(log) \in Nat
      /\ r \in Requests /\ r \in Range(log) /\ c \in Commands /\ c = LogCommands[j + 1]
      /\ db[n] \in Databases
  BY <1>1, LogFacts
<1>3. req[r].op \in Operations /\ req[r].op.verb # "get" /\ Result(db[n], c) \in {"ok", "notfound"}
  BY Zenon, <1>2, InProgress, ResultTyped
<1> HIDE DEF r, c, j, replies
<1>4. /\ req' \in [Requests -> RequestRecords]
      /\ \A q \in Requests \ {r} : req'[q] = req[q]
      /\ req'[r].op = req[r].op /\ req'[r].command = req[r].command
      /\ ~replies => req'[r] = req[r]
      /\ replies => \/ /\ req'[r].pc = "reading" /\ req'[r].status = req[r].status
                       /\ req[r].op.verb = "activate" /\ Result(db[n], c) = "ok"
                    \/ /\ req'[r].pc = "done"
                       /\ \/ req'[r].status = Status(req[r].op, Result(db[n], c))
                          \/ req'[r].status = Status(req[r].op, "error")
  <2>1. CASE ~replies
    BY Zenon, <1>0, <2>1 DEF RaftInv, TypeOK
  <2>2. CASE replies
    <3>1. req' = Reply(r, Result(db[n], c))
      BY Zenon, <1>0, <2>2
    <3>2. TypeOK
      BY Zenon DEF RaftInv
    <3> QED BY Zenon, <1>2, <1>3, <2>2, <3>1, <3>2, ReplyTyped
  <2> QED BY Zenon, <2>1, <2>2
<1>5. TypeOK'
  <2>1. ApplyCommand(db[n], c) \in Databases
    BY Zenon, <1>2, ApplyEffect
  <2>2. db' \in [Nodes -> Databases]
    BY Zenon, <1>0, <2>1 DEF RaftInv, TypeOK
  <2>3. applied' \in [Nodes -> 0 .. Len(log)]
    BY <1>0, <1>2 DEF RaftInv, TypeOK
  <2>4. req' \in [Requests -> RequestRecords]
    BY Zenon, <1>4
  <2> QED BY Zenon, <1>1, <2>2, <2>3, <2>4 DEF RaftInv, TypeOK
<1>6. \A q \in Requests : req'[q].command = req[q].command /\ req'[q].op = req[q].op
  BY Zenon, <1>4
<1>7. LogCommands' = LogCommands
  BY Zenon, <1>1, <1>6, CommandsKept DEF RaftInv
<1>8. /\ \A m \in Nodes \ {n} : db'[m] = db[m] /\ applied'[m] = applied[m]
      /\ db'[n] = ApplyCommand(db[n], c) /\ applied'[n] = j + 1
  BY Zenon, <1>0 DEF RaftInv, TypeOK
<1>9. ASSUME NEW k \in Nat, j < k, k <= Len(log), Ahead(LogCommands, history, db[n], j, k)
      PROVE  Ahead(LogCommands', history', db'[n], applied'[n], k)
  <2>1. IsHistory(LogCommands, history) /\ k <= Len(LogCommands)
    BY Zenon, <1>9, LogFacts
  <2>2. Ahead(LogCommands, history, ApplyCommand(db[n], LogCommands[j + 1]), j + 1, k)
    BY Zenon, <1>2, <1>9, <2>1, ApplyAhead
  <2> QED BY Zenon, <1>1, <1>2, <1>7, <1>8, <2>2
<1>10. NodeInv'
  <2> SUFFICES ASSUME NEW m \in Nodes
               PROVE  /\ Ahead(LogCommands', history', db'[m], applied'[m], Len(log'))
                      /\ Ahead(LogCommands', history', compacted'[m].db, compacted'[m].index, Len(log'))
    BY Zenon DEF NodeInv
  <2>1. Ahead(LogCommands', history', compacted'[m].db, compacted'[m].index, Len(log'))
    BY Zenon, <1>1, <1>7 DEF RaftInv, NodeInv
  <2>2. CASE m # n
    <3>1. db'[m] = db[m] /\ applied'[m] = applied[m]
      BY Zenon, <1>8, <2>2
    <3> QED BY Zenon, <1>1, <1>7, <2>1, <3>1 DEF RaftInv, NodeInv
  <2>3. CASE m = n
    <3>1. Ahead(LogCommands, history, db[n], j, Len(log))
      BY Zenon DEF RaftInv, NodeInv, j
    <3>2. j < Len(log) /\ Len(log) <= Len(log)
      BY <1>2
    <3> QED BY Zenon, <1>1, <1>2, <1>9, <2>1, <2>3, <3>1, <3>2
  <2> QED BY Zenon, <2>2, <2>3
<1>11. RequestInv'
  <2>1. Range(log)' = Range(log) /\ proposed' = proposed
    BY Zenon, <1>1 DEF Range
  <2>2. replies => req[r].pc = "waiting" /\ req[r].status = Absent /\ req[r].command # Absent
                   /\ req[r].op # Absent
    BY Zenon, <1>2 DEF RaftInv, RequestInv, replies
  <2>3. \A q \in Requests : req'[q].pc \in {"new", "writing"} => req'[q] = req[q]
    BY Zenon, <1>4
  <2> QED BY <1>4, <1>6, <2>1, <2>2, <2>3 DEF RaftInv, RequestInv
<1>12. LogInv'
  <2>1. IsHistory(LogCommands', history')
    BY Zenon, <1>1, <1>7, LogFacts
  <2>2. proposed' \cap Range(log)' = {} /\ \A h, i \in 1 .. Len(log') : log'[h] = log'[i] => h = i
    BY <1>1 DEF RaftInv, LogInv, Range
  <2>3. ASSUME NEW q \in Requests, req'[q].command # Absent, req'[q].command.type = "ActivateSnapshot"
        PROVE  \E i \in 1 .. Len(log') :
                 req'[log'[i]].command.type = "SaveSnapshot" /\ req'[log'[i]].command.id = req'[q].command.id
    <3>1. PICK i \in 1 .. Len(log) :
            req[log[i]].command.type = "SaveSnapshot" /\ req[log[i]].command.id = req[q].command.id
      BY Zenon, <1>6, <2>3 DEF RaftInv, LogInv
    <3>2. req'[log[i]].command = req[log[i]].command
      BY Zenon, <1>6, LogFacts
    <3> QED BY Zenon, <1>1, <1>6, <3>1, <3>2
  <2> QED BY Zenon, <2>1, <2>2, <2>3 DEF LogInv
<1>13. WaitingInv'
  <2> SUFFICES ASSUME NEW q \in Requests, req'[q].pc = "waiting"
               PROVE  /\ req'[q].via \in up'
                      /\ \A k \in 1 .. Len(log') :
                           log'[k] = q =>
                             /\ applied'[req'[q].via] < k
                             /\ Ahead(LogCommands', history', db'[req'[q].via], applied'[req'[q].via], k - 1)
    BY Zenon DEF WaitingInv
  <2>1. req'[q] = req[q] /\ ~(q = r /\ replies)
    BY Zenon, <1>4
  <2>2. req[q].via \in up /\ req[q].via \in Nodes
    BY Zenon, <2>1 DEF RaftInv, WaitingInv, TypeOK
  <2>3. ASSUME NEW k \in 1 .. Len(log), log[k] = q
        PROVE  /\ applied'[req[q].via] < k
               /\ Ahead(LogCommands', history', db'[req[q].via], applied'[req[q].via], k - 1)
    <3>1. /\ applied[req[q].via] < k
          /\ Ahead(LogCommands, history, db[req[q].via], applied[req[q].via], k - 1)
      BY Zenon, <2>1, <2>3 DEF RaftInv, WaitingInv
    <3>2. CASE req[q].via # n
      <4>1. db'[req[q].via] = db[req[q].via] /\ applied'[req[q].via] = applied[req[q].via]
        BY Zenon, <1>8, <2>2, <3>2
      <4> QED BY Zenon, <1>1, <1>7, <3>1, <4>1
    <3>3. CASE req[q].via = n
      <4>1. k # j + 1
        BY Zenon, <2>1, <2>3, <3>3 DEF r, replies
      <4>2. j + 1 < k /\ k - 1 \in Nat /\ j < k - 1 /\ k - 1 <= Len(log)
        <5>1. j < k
          BY Zenon, <3>1, <3>3 DEF j
        <5> QED BY <1>2, <4>1, <5>1
      <4>3. Ahead(LogCommands, history, db[n], j, k - 1)
        BY Zenon, <3>1, <3>3 DEF j
      <4> QED BY Zenon, <1>8, <1>9, <3>3, <4>2, <4>3
    <3> QED BY Zenon, <3>2, <3>3
  <2> QED BY Zenon, <1>1, <2>1, <2>2, <2>3
<1>14. replies => /\ \E i \in Entry(r) : Result(Contents(i - 1), c) = Result(db[n], c)
  <2> SUFFICES ASSUME replies PROVE \E i \in Entry(r) : Result(Contents(i - 1), c) = Result(db[n], c)
    BY Zenon
  <2>1. db[n] = Contents(j) /\ j + 1 \in Entry(r) /\ Contents((j + 1) - 1) = Contents(j)
    BY Zenon, <1>1, <1>2, ResultTrue DEF r, j, replies
  <2> QED BY Zenon, <2>1
<1>15. ReadingInv'
  <2> SUFFICES ASSUME NEW q \in Requests, req'[q].pc = "reading"
               PROVE  /\ req'[q].op.verb = "activate"
                      /\ \E i \in Entry(q)' : Result(Contents(i - 1)', req'[q].command) = "ok"
    BY Zenon DEF ReadingInv
  <2>1. req[q].op.verb = "activate" /\ \E i \in Entry(q) : Result(Contents(i - 1), req[q].command) = "ok"
    <3>1. CASE q = r /\ replies
      BY Zenon, <1>4, <1>14, <3>1 DEF c
    <3>2. CASE ~(q = r /\ replies)
      <4>1. req'[q] = req[q]
        BY Zenon, <1>4, <3>2
      <4> QED BY Zenon, <4>1 DEF RaftInv, ReadingInv
    <3> QED BY Zenon, <3>1, <3>2
  <2> QED BY Zenon, <1>1, <1>6, <2>1 DEF Entry, Contents
<1>16. AnswersTrue'
  <2> SUFFICES ASSUME NEW q \in Requests, req'[q].op # Absent,
                      req'[q].op.kind \in {"secret", "snapshot"},
                      req'[q].op.verb \in {"delete", "activate"},
                      req'[q].status \in {"ok", "notfound"}
               PROVE  \E i \in Entry(q)' : Result(Contents(i - 1)', req'[q].command) = req'[q].status
    BY Zenon DEF AnswersTrue
  <2>1. \E i \in Entry(q) : Result(Contents(i - 1), req[q].command) = req'[q].status
    <3>1. CASE q = r /\ replies
      <4>1. Status(req[r].op, Result(db[n], c)) = Result(db[n], c) /\ Status(req[r].op, "error") = "error"
        BY <1>3, <1>6, <3>1, StatusTyped
      <4>2. req[r].status = Absent /\ Absent \notin {"ok", "notfound"}
        BY Zenon, <1>2, <3>1, AbsentAssumption DEF RaftInv, RequestInv, replies, Statuses
      <4>3. req'[r].status = Result(db[n], c)
        BY Zenon, <1>4, <3>1, <4>1, <4>2
      <4> QED BY Zenon, <1>14, <3>1, <4>3 DEF c
    <3>2. CASE ~(q = r /\ replies)
      <4>1. req'[q] = req[q]
        BY Zenon, <1>4, <3>2
      <4> QED BY Zenon, <4>1 DEF RaftInv, AnswersTrue
    <3> QED BY Zenon, <3>1, <3>2
  <2> QED BY Zenon, <1>1, <1>6, <2>1 DEF Entry, Contents
<1>17. \A q \in Requests : Told(q)
  <2>1. replies => req[r].status = Absent
    BY Zenon, <1>2 DEF RaftInv, RequestInv, replies
  <2> QED BY Zenon, <1>2, <1>4, <2>1 DEF Told
<1> QED BY Zenon, <1>5, <1>10, <1>11, <1>12, <1>13, <1>15, <1>16, <1>17 DEF RaftInv

----------------------------------------------------------------------------
(* Steps that no request notices.                                          *)

\* Steps of Raft and the nodes that no request notices.
LEMMA QuietStep ==
  ASSUME RaftInv, TypeOK', UNCHANGED <<log, history, req>>, proposed' \subseteq proposed,
         NodeInv', WaitingInv'
  PROVE  RaftInv'
<1>1. LogCommands' = LogCommands /\ Range(log)' = Range(log)
  BY Zenon DEF LogCommands, Range
<1>2. RequestInv'
  BY Zenon, <1>1 DEF RaftInv, RequestInv
<1>3. LogInv'
  <2>1. IsHistory(LogCommands', history')
    BY Zenon, <1>1, LogFacts
  <2> QED BY Zenon, <1>1, <2>1 DEF RaftInv, LogInv
<1>4. ReadingInv' /\ AnswersTrue'
  BY DEF RaftInv, ReadingInv, AnswersTrue, Entry, Contents
<1> QED BY Zenon, <1>2, <1>3, <1>4 DEF RaftInv

\* An election: only the leader changes.
LEMMA ElectStep ==
  ASSUME RaftInv, NEW n \in Nodes, Elect(n)
  PROVE  RaftInv'
<1>1. /\ UNCHANGED <<up, log, history, applied, db, compacted, req, faults>>
      /\ leader' = n /\ n \in up /\ proposed' \subseteq proposed
  BY Zenon DEF Elect, nodeVars
<1>2. TypeOK'
  BY Zenon, <1>1 DEF RaftInv, TypeOK
<1>3. LogCommands' = LogCommands
  BY Zenon, <1>1 DEF LogCommands
<1>4. NodeInv' /\ WaitingInv'
  BY Zenon, <1>1, <1>3 DEF RaftInv, NodeInv, WaitingInv
<1> QED BY Zenon, <1>1, <1>2, <1>4, QuietStep

\* Nobody waits for a node that is down, and its database, kept or restored,
\* is ahead of the index the log is applied from.
LEMMA RestartStep ==
  ASSUME RaftInv, NEW n \in Nodes, Restart(n)
  PROVE  RaftInv'
<1> DEFINE i == compacted[n].index
           d == IF i > 0 THEN compacted[n].db ELSE db[n]
<1>1. /\ n \notin up /\ up' = up \cup {n}
      /\ UNCHANGED <<leader, log, history, proposed, compacted, req, faults>>
      /\ applied' = [applied EXCEPT ![n] = i]
      /\ db' = [db EXCEPT ![n] = d]
  <2>1. db \in [Nodes -> Databases]
    BY Zenon DEF RaftInv, TypeOK
  <2> QED BY Zenon, <2>1 DEF Restart
<1>2. i \in Nat /\ i <= Len(log) /\ Len(log) \in Nat /\ d \in Databases
  BY Zenon, LogFacts
<1> HIDE DEF i, d
<1>3. TypeOK'
  <2>1. db' \in [Nodes -> Databases]
    BY Zenon, <1>1, <1>2 DEF RaftInv, TypeOK
  <2>2. applied' \in [Nodes -> 0 .. Len(log)]
    BY <1>1, <1>2 DEF RaftInv, TypeOK
  <2> QED BY Zenon, <1>1, <2>1, <2>2 DEF RaftInv, TypeOK
<1>4. LogCommands' = LogCommands
  BY Zenon, <1>1 DEF LogCommands
<1>5. /\ \A m \in Nodes \ {n} : db'[m] = db[m] /\ applied'[m] = applied[m]
      /\ db'[n] = d /\ applied'[n] = i
  BY Zenon, <1>1 DEF RaftInv, TypeOK
<1>6. Ahead(LogCommands, history, d, i, Len(log))
  <2>1. CASE i > 0
    BY Zenon, <2>1 DEF RaftInv, NodeInv, i, d
  <2>2. CASE ~(i > 0)
    <3>1. i = 0 /\ d = db[n]
      BY <1>2, <2>2 DEF d
    <3>2. /\ applied[n] \in Nat /\ applied[n] <= Len(log) /\ Len(log) <= Len(LogCommands)
          /\ IsHistory(LogCommands, history)
      BY <1>2, LogFacts
    <3>3. Ahead(LogCommands, history, db[n], applied[n], Len(log))
      BY Zenon DEF RaftInv, NodeInv
    <3>4. Ahead(LogCommands, history, db[n], 0, Len(log))
      BY Zenon, <1>2, <3>2, <3>3, RestartAhead
    <3> QED BY Zenon, <3>1, <3>4
  <2> QED BY Zenon, <2>1, <2>2
<1>7. NodeInv'
  <2> SUFFICES ASSUME NEW m \in Nodes
               PROVE  /\ Ahead(LogCommands', history', db'[m], applied'[m], Len(log'))
                      /\ Ahead(LogCommands', history', compacted'[m].db, compacted'[m].index, Len(log'))
    BY Zenon DEF NodeInv
  <2>1. CASE m = n
    BY Zenon, <1>1, <1>4, <1>5, <1>6, <2>1 DEF RaftInv, NodeInv
  <2>2. CASE m # n
    <3>1. db'[m] = db[m] /\ applied'[m] = applied[m]
      BY Zenon, <1>5, <2>2
    <3> QED BY Zenon, <1>1, <1>4, <3>1 DEF RaftInv, NodeInv
  <2> QED BY Zenon, <2>1, <2>2
<1>8. WaitingInv'
  <2> SUFFICES ASSUME NEW q \in Requests, req[q].pc = "waiting"
               PROVE  /\ req[q].via \in up'
                      /\ \A k \in 1 .. Len(log) :
                           log[k] = q =>
                             /\ applied'[req[q].via] < k
                             /\ Ahead(LogCommands', history', db'[req[q].via], applied'[req[q].via], k - 1)
    BY Zenon, <1>1 DEF WaitingInv
  <2>1. req[q].via \in up /\ req[q].via \in Nodes \ {n}
    BY Zenon, <1>1 DEF RaftInv, WaitingInv, TypeOK
  <2>2. db'[req[q].via] = db[req[q].via] /\ applied'[req[q].via] = applied[req[q].via]
    BY Zenon, <1>5, <2>1
  <2> QED BY Zenon, <1>1, <1>4, <2>1, <2>2 DEF RaftInv, WaitingInv
<1> QED BY Zenon, <1>1, <1>3, <1>7, <1>8, QuietStep

\* FSM.Snapshot keeps what the log describes at the node's index.
LEMMA CompactStep ==
  ASSUME RaftInv, NEW n \in Nodes, Compact(n)
  PROVE  RaftInv'
<1> DEFINE s == [index |-> applied[n], db |-> db[n]]
<1>1. /\ UNCHANGED <<leader, up, log, history, proposed, applied, db, req, faults>>
      /\ compacted' = [compacted EXCEPT ![n] = s]
  BY Zenon DEF Compact, raftVars
<1>2. s \in [index : 0 .. Len(log), db : Databases] /\ s.index = applied[n] /\ s.db = db[n]
  BY Zenon DEF RaftInv, TypeOK
<1> HIDE DEF s
<1>3. TypeOK'
  <2>1. compacted' \in [Nodes -> [index : 0 .. Len(log), db : Databases]]
    BY Zenon, <1>1, <1>2 DEF RaftInv, TypeOK
  <2> QED BY Zenon, <1>1, <2>1 DEF RaftInv, TypeOK
<1>4. LogCommands' = LogCommands
  BY Zenon, <1>1 DEF LogCommands
<1>5. \A m \in Nodes : compacted'[m] = IF m = n THEN s ELSE compacted[m]
  BY Zenon, <1>1 DEF RaftInv, TypeOK
<1>6. NodeInv'
  BY Zenon, <1>1, <1>2, <1>4, <1>5 DEF RaftInv, NodeInv
<1>7. WaitingInv'
  BY Zenon, <1>1, <1>4 DEF RaftInv, WaitingInv
<1> QED BY Zenon, <1>1, <1>3, <1>6, <1>7, QuietStep

\* FSM.Restore of the leader's snapshot replaces a node's database.
LEMMA InstallSnapshotStep ==
  ASSUME RaftInv, NEW n \in Nodes, InstallSnapshot(n)
  PROVE  RaftInv'
<1> DEFINE s == compacted[leader]
<1>1. /\ UNCHANGED <<leader, up, log, history, proposed, req, faults>>
      /\ \A r \in Requests : req[r].pc = "waiting" => req[r].via # n
      /\ db' = [db EXCEPT ![n] = s.db] /\ applied' = [applied EXCEPT ![n] = s.index]
      /\ compacted' = [compacted EXCEPT ![n] = s]
      /\ leader \in Nodes
  BY Zenon DEF InstallSnapshot, raftVars, RaftInv, TypeOK
<1>2. s \in [index : 0 .. Len(log), db : Databases] /\ s.index \in 0 .. Len(log) /\ s.db \in Databases
  BY Zenon, <1>1 DEF RaftInv, TypeOK
<1>3. Ahead(LogCommands, history, s.db, s.index, Len(log))
  BY Zenon, <1>1 DEF RaftInv, NodeInv
<1> HIDE DEF s
<1>4. TypeOK'
  <2>1. compacted' \in [Nodes -> [index : 0 .. Len(log), db : Databases]]
    BY Zenon, <1>1, <1>2 DEF RaftInv, TypeOK
  <2>2. db' \in [Nodes -> Databases]
    BY Zenon, <1>1, <1>2 DEF RaftInv, TypeOK
  <2>3. applied' \in [Nodes -> 0 .. Len(log)]
    BY Zenon, <1>1, <1>2 DEF RaftInv, TypeOK
  <2> QED BY Zenon, <1>1, <2>1, <2>2, <2>3 DEF RaftInv, TypeOK
<1>5. LogCommands' = LogCommands
  BY Zenon, <1>1 DEF LogCommands
<1>6. /\ \A m \in Nodes \ {n} : db'[m] = db[m] /\ applied'[m] = applied[m] /\ compacted'[m] = compacted[m]
      /\ db'[n] = s.db /\ applied'[n] = s.index /\ compacted'[n] = s
  BY Zenon, <1>1 DEF RaftInv, TypeOK
<1>7. NodeInv'
  <2> SUFFICES ASSUME NEW m \in Nodes
               PROVE  /\ Ahead(LogCommands', history', db'[m], applied'[m], Len(log'))
                      /\ Ahead(LogCommands', history', compacted'[m].db, compacted'[m].index, Len(log'))
    BY Zenon DEF NodeInv
  <2>1. CASE m = n
    BY Zenon, <1>1, <1>3, <1>5, <1>6, <2>1
  <2>2. CASE m # n
    <3>1. db'[m] = db[m] /\ applied'[m] = applied[m] /\ compacted'[m] = compacted[m]
      BY Zenon, <1>6, <2>2
    <3> QED BY Zenon, <1>1, <1>5, <3>1 DEF RaftInv, NodeInv
  <2> QED BY Zenon, <2>1, <2>2
<1>8. WaitingInv'
  <2> SUFFICES ASSUME NEW q \in Requests, req[q].pc = "waiting"
               PROVE  /\ req[q].via \in up
                      /\ \A k \in 1 .. Len(log) :
                           log[k] = q =>
                             /\ applied'[req[q].via] < k
                             /\ Ahead(LogCommands', history', db'[req[q].via], applied'[req[q].via], k - 1)
    BY Zenon, <1>1 DEF WaitingInv
  <2>1. req[q].via \in up /\ req[q].via \in Nodes \ {n}
    BY Zenon, <1>1 DEF RaftInv, WaitingInv, TypeOK
  <2>2. db'[req[q].via] = db[req[q].via] /\ applied'[req[q].via] = applied[req[q].via]
    BY Zenon, <1>6, <2>1
  <2> QED BY Zenon, <1>1, <1>5, <2>1, <2>2 DEF RaftInv, WaitingInv
<1> QED BY Zenon, <1>1, <1>4, <1>7, <1>8, QuietStep

----------------------------------------------------------------------------
(* The invariant holds.                                                    *)

\* A cluster that has just formed satisfies the invariant.
LEMMA InitInv ==
  ASSUME Init
  PROVE  RaftInv
<1>1. TypeOK
  <2>1. /\ log \in Seq(Requests) /\ Len(log) = 0
        /\ history \in Seq(Databases) /\ Len(history) = 1
    BY EmptyTyped DEF Init
  <2>2. \A r \in Requests : req[r] \in RequestRecords
    BY Zenon DEF Init, RequestRecords
  <2>3. req \in [Requests -> RequestRecords]
    BY Zenon, <2>2 DEF Init
  <2>4. db \in [Nodes -> Databases] /\ applied \in [Nodes -> 0 .. Len(log)]
    BY <2>1, EmptyTyped DEF Init
  <2>5. compacted \in [Nodes -> [index : 0 .. Len(log), db : Databases]]
    BY <2>1, EmptyTyped DEF Init
  <2>6. faults \in 0 .. MaxFaults
    BY FaultsAssumption DEF Init
  <2>7. up \subseteq Nodes /\ leader \in up \cup {NoNode} /\ proposed \subseteq Requests
    BY Zenon DEF Init
  <2> QED BY <2>1, <2>3, <2>4, <2>5, <2>6, <2>7 DEF TypeOK
<1>2. /\ log = << >> /\ Len(log) = 0 /\ Range(log) = {} /\ proposed = {}
      /\ history = <<EmptyDatabase>> /\ history[1] = EmptyDatabase
      /\ LogCommands = << >>
  BY DEF Init, Range, LogCommands
<1>3. \A r \in Requests : /\ req[r].pc = "new" /\ req[r].op = Absent /\ req[r].command = Absent
                          /\ req[r].status = Absent
  BY Zenon DEF Init
<1>4. RequestInv
  BY Zenon, <1>2, <1>3 DEF RequestInv
<1>5. LogInv
  BY <1>2, <1>3, HistoryBegins DEF LogInv
<1>6. NodeInv
  <2>1. \A n \in Nodes : /\ db[n] = EmptyDatabase /\ applied[n] = 0
                         /\ compacted[n].db = EmptyDatabase /\ compacted[n].index = 0
    BY Zenon DEF Init
  <2>2. Ahead(LogCommands, history, EmptyDatabase, 0, 0)
    BY <1>2 DEF Ahead
  <2> QED BY Zenon, <1>2, <2>1, <2>2 DEF NodeInv
<1>7. WaitingInv /\ ReadingInv /\ AnswersTrue
  BY Zenon, <1>3 DEF WaitingInv, ReadingInv, AnswersTrue
<1> QED BY Zenon, <1>1, <1>4, <1>5, <1>6, <1>7 DEF RaftInv

\* Every step of a request, the log, a node or the network preserves it.
LEMMA NextInv ==
  ASSUME RaftInv, [Next]_vars
  PROVE  RaftInv'
<1>1. ASSUME NEW r \in Requests, NEW n \in Nodes, NEW op \in OperationsOf[r], Receive(r, n, op)
      PROVE  RaftInv'
  BY Zenon, <1>1, ReceiveStep
<1>2. ASSUME NEW r \in Requests, Handlers(r) PROVE RaftInv'
  <2>1. CASE Apply(r)
    <3>1. req[r].pc = "writing" /\ ApplyRaw(r, req[r].at) /\ leader = req[r].at
      BY Zenon, <2>1 DEF Apply, ApplyRaw
    <3>2. leader # NoNode
      BY Zenon, <3>1, NodesAssumption DEF RaftInv, RequestInv
    <3> QED BY Zenon, <3>1, <3>2, ApplyRawStep
  <2>2. CASE ForwardToLeader(r)
    BY Zenon, <2>2, ApplyRawStep DEF ForwardToLeader
  <2>3. CASE WriteFails(r) \/ ForwardTimeout(r)
    BY Zenon, <2>3, FailuresStep
  <2>4. CASE Commit(r)
    BY Zenon, <2>4, CommitStep
  <2>5. CASE ReadActivated(r)
    BY Zenon, <2>5, ReadActivatedStep
  <2> QED BY Zenon, <1>2, <2>1, <2>2, <2>3, <2>4, <2>5 DEF Handlers
<1>3. ASSUME NEW n \in Nodes, NodeSteps(n) PROVE RaftInv'
  BY Zenon, <1>3, FSMApplyStep, LoseLeadershipStep, ElectStep, CrashStep, RestartStep, CompactStep, InstallSnapshotStep
  DEF NodeSteps
<1>4. CASE UNCHANGED vars
  <2>1. LogCommands' = LogCommands
    BY Zenon, <1>4 DEF vars, LogCommands
  <2>2. TypeOK' /\ NodeInv' /\ WaitingInv'
    BY Zenon, <1>4, <2>1 DEF vars, RaftInv, TypeOK, NodeInv, WaitingInv
  <2> QED BY Zenon, <1>4, <2>2, QuietStep DEF vars
<1> QED BY Zenon, <1>1, <1>2, <1>3, <1>4 DEF Next

----------------------------------------------------------------------------
(* What a step looks like to the client.                                   *)

\* The steps of ReplicatedStore, on the variables of this specification.
InvokeStep(r) ==
  /\ req[r].command = Absent /\ req[r].status = Absent
  /\ \E n \in Nodes : \E op \in Operations :
       Handle(db[n], op) = "write" /\ req'[r].command = Command(op)
  /\ req'[r].status = Absent
  /\ \A q \in Requests \ {r} : req'[q] = req[q]
  /\ UNCHANGED <<log, history>>

TakeEffectStep(r) ==
  /\ req[r].command # Absent /\ r \notin Range(log)
  /\ log' = Append(log, r)
  /\ history' = Append(history, ApplyCommand(Contents(Len(log)), req[r].command))
  /\ req' = req

ToldStep ==
  /\ \A q \in Requests :
       /\ req'[q].command = req[q].command
       /\ req'[q].status # req[q].status =>
            /\ req[q].status = Absent
            /\ req'[q].status = "ok" /\ req[q].command # Absent => q \in Range(log)
  /\ UNCHANGED <<log, history>>

\* A step that only answers requests, each with the truth.
LEMMA ToldEnough ==
  ASSUME \A q \in Requests : Told(q), UNCHANGED <<log, history>>
  PROVE  ToldStep
BY Zenon DEF Told, ToldStep

\* A step that only fails requests answers none of them wrongly.
LEMMA FailedEnough ==
  ASSUME RaftInv, \A q \in Requests : req'[q] = req[q] \/ Failed(q), UNCHANGED <<log, history>>
  PROVE  ToldStep
<1>1. ASSUME NEW q \in Requests PROVE Told(q)
  <2>1. CASE req'[q] = req[q]
    BY Zenon, <2>1 DEF Told
  <2>2. CASE Failed(q)
    BY Zenon, <2>2 DEF Failed, Answered, Told, RaftInv, RequestInv
  <2> QED BY Zenon, <1>1, <2>1, <2>2
<1> QED BY Zenon, <1>1, ToldEnough

\* The entries of a log with one more.
LEMMA RangeGrows ==
  ASSUME NEW S, NEW s \in Seq(S), NEW r \in S
  PROVE  Range(Append(s, r)) = Range(s) \cup {r}
<1> DEFINE t == Append(s, r)
<1>1. /\ Len(s) \in Nat /\ DOMAIN s = 1 .. Len(s) /\ DOMAIN t = 1 .. Len(s) + 1
      /\ t[Len(s) + 1] = r /\ \A i \in 1 .. Len(s) : t[i] = s[i]
  OBVIOUS
<1> HIDE DEF t
<1>2. Range(t) \subseteq Range(s) \cup {r}
  <2> SUFFICES ASSUME NEW i \in DOMAIN t PROVE t[i] \in Range(s) \cup {r}
    BY Zenon DEF Range
  <2>1. CASE i = Len(s) + 1
    BY Zenon, <1>1, <2>1
  <2>2. CASE i # Len(s) + 1
    <3>1. i \in DOMAIN s /\ t[i] = s[i]
      BY <1>1, <2>2
    <3> QED BY Zenon, <3>1 DEF Range
  <2> QED BY Zenon, <2>1, <2>2
<1>3. \A i \in DOMAIN s : i \in DOMAIN t /\ t[i] = s[i]
  BY <1>1
<1>4. Len(s) + 1 \in DOMAIN t
  BY <1>1
<1>5. Range(s) \cup {r} \subseteq Range(t)
  BY Zenon, <1>1, <1>3, <1>4 DEF Range
<1> QED BY Zenon, <1>2, <1>5 DEF t

\* Every step of the replicated control plane is one of the three: a handler
\* hands its command to the store, Raft commits it, or requests are answered.
LEMMA StepKinds ==
  ASSUME RaftInv, [Next]_vars
  PROVE  ToldStep \/ \E r \in Requests : InvokeStep(r) \/ TakeEffectStep(r)
<1>1. ASSUME NEW r \in Requests, NEW n \in Nodes, NEW op \in OperationsOf[r], Receive(r, n, op)
      PROVE  ToldStep \/ InvokeStep(r)
  <2>1. UNCHANGED <<log, history>> /\ op \in Operations
    BY Zenon, <1>1 DEF Receive, raftVars, Operations
  <2>2. CASE Handle(db[n], op) = "write"
    BY Zenon, <1>1, <2>1, <2>2, ReceiveStep DEF InvokeStep
  <2>3. CASE Handle(db[n], op) # "write"
    <3>1. /\ \A q \in Requests \ {r} : req'[q] = req[q]
          /\ req[r].command = Absent /\ req[r].status = Absent
          /\ req'[r].command = Absent
      BY Zenon, <1>1, <2>3, ReceiveStep
    <3> QED BY Zenon, <2>1, <3>1 DEF ToldStep
  <2> QED BY Zenon, <2>2, <2>3
<1>2. ASSUME NEW r \in Requests, Handlers(r) PROVE ToldStep \/ TakeEffectStep(r)
  <2>1. CASE Apply(r)
    <3>1. req[r].pc = "writing" /\ ApplyRaw(r, req[r].at) /\ leader = req[r].at
      BY Zenon, <2>1 DEF Apply, ApplyRaw
    <3>2. leader # NoNode /\ UNCHANGED <<log, history>>
      BY Zenon, <3>1, NodesAssumption DEF RaftInv, RequestInv, ApplyRaw
    <3> QED BY Zenon, <3>1, <3>2, ApplyRawStep, ToldEnough
  <2>2. CASE ForwardToLeader(r)
    BY Zenon, <2>2, ApplyRawStep, ToldEnough DEF ForwardToLeader, ApplyRaw
  <2>3. CASE WriteFails(r) \/ ForwardTimeout(r)
    <3>1. UNCHANGED <<log, history>>
      BY Zenon, <2>3 DEF WriteFails, ForwardTimeout, raftVars
    <3> QED BY Zenon, <2>3, <3>1, FailuresStep, FailedEnough
  <2>4. CASE Commit(r)
    <3>1. req[r].command # Absent /\ r \notin Range(log)
      BY Zenon, <2>4 DEF Commit, RaftInv, RequestInv, LogInv
    <3> QED BY Zenon, <2>4, <3>1 DEF Commit, TakeEffectStep
  <2>5. CASE ReadActivated(r)
    <3>1. UNCHANGED <<log, history>>
      BY Zenon, <2>5 DEF ReadActivated, raftVars
    <3> QED BY Zenon, <2>5, <3>1, ReadActivatedStep, ToldEnough
  <2> QED BY Zenon, <1>2, <2>1, <2>2, <2>3, <2>4, <2>5 DEF Handlers
<1>3. ASSUME NEW n \in Nodes, NodeSteps(n) PROVE ToldStep
  <2>1. CASE FSMApply(n)
    <3>1. UNCHANGED <<log, history>>
      BY Zenon, <2>1 DEF FSMApply, raftVars
    <3> QED BY Zenon, <2>1, <3>1, FSMApplyStep, ToldEnough
  <2>2. CASE LoseLeadership(n)
    <3>1. UNCHANGED <<log, history>>
      BY <2>2, Zenon DEF LoseLeadership
    <3> QED BY Zenon, <2>2, <3>1, LoseLeadershipStep, FailedEnough
  <2>3. CASE Crash(n)
    <3>1. UNCHANGED <<log, history>>
      BY Zenon, <2>3 DEF Crash
    <3> QED BY Zenon, <2>3, <3>1, CrashStep, FailedEnough
  <2>4. CASE Elect(n) \/ Restart(n) \/ Compact(n) \/ InstallSnapshot(n)
    <3>1. UNCHANGED <<log, history, req>>
      BY Zenon, <2>4 DEF Elect, Restart, Compact, InstallSnapshot, raftVars
    <3> QED BY Zenon, <3>1 DEF ToldStep
  <2> QED BY Zenon, <1>3, <2>1, <2>2, <2>3, <2>4 DEF NodeSteps
<1>4. CASE UNCHANGED vars
  BY Zenon, <1>4 DEF vars, ToldStep
<1> QED BY Zenon, <1>1, <1>2, <1>3, <1>4 DEF Next

----------------------------------------------------------------------------
(* The theorems.                                                           *)

\* The Raft store's variables keep their types: no step of a handler, of Raft
\* or of a node's FSM leaves the values the code can give them.
THEOREM RaftTypeCorrect == Spec => []TypeOK
<1>1. Init => RaftInv
  BY Zenon, InitInv
<1>2. RaftInv /\ [Next]_vars => RaftInv'
  BY Zenon, NextInv
<1>3. RaftInv => TypeOK
  BY Zenon DEF RaftInv
<1> QED BY <1>1, <1>2, <1>3, PTL DEF Spec

\* FSM.Apply replays the log over a database that is ahead of it, FSM.Restore
\* installs a snapshot that may have been taken in the middle of such a replay:
\* a node that has applied the whole log has the database the log describes,
\* for every number of nodes, faults and writes.
THEOREM RaftConverged == Spec => []Converged
<1>1. Init => RaftInv
  BY Zenon, InitInv
<1>2. RaftInv /\ [Next]_vars => RaftInv'
  BY Zenon, NextInv
<1>3. RaftInv => Converged
  <2> SUFFICES ASSUME RaftInv, NEW n \in up, applied[n] = Len(log)
               PROVE  db[n] = Contents(Len(log))
    BY Zenon DEF Converged
  <2>1. n \in Nodes
    BY Zenon DEF RaftInv, TypeOK
  <2>2. /\ db[n] \in Databases /\ IsHistory(LogCommands, history)
        /\ Len(log) \in Nat /\ Len(log) <= Len(LogCommands)
    BY Zenon, <2>1, LogFacts
  <2>3. Ahead(LogCommands, history, db[n], Len(log), Len(log))
    BY Zenon, <2>1 DEF RaftInv, NodeInv
  <2> QED BY Zenon, <2>2, <2>3, AheadExact DEF Contents
<1> QED BY <1>1, <1>2, <1>3, PTL DEF Spec

\* DeleteSecret, DeleteSnapshot and ActivateSnapshot answer 404 and success
\* truly, whichever node was asked and whatever happened before: the leader's
\* FSM has applied all that precedes the entry and nothing else when it
\* answers.
THEOREM RaftAnswersTrue == Spec => []AnswersTrue
<1>1. Init => RaftInv
  BY Zenon, InitInv
<1>2. RaftInv /\ [Next]_vars => RaftInv'
  BY Zenon, NextInv
<1>3. RaftInv => AnswersTrue
  BY Zenon DEF RaftInv
<1> QED BY <1>1, <1>2, <1>3, PTL DEF Spec

\* The Raft store implements ReplicatedStore: one database, every write in
\* effect at most once and in one order, nothing acknowledged that is not in
\* effect, nothing answered twice.
THEOREM RaftImplements == Spec => ImplementsReplicatedStore
<1>1. Init => RaftInv
  BY Zenon, InitInv
<1>2. RaftInv /\ [Next]_vars => RaftInv'
  BY Zenon, NextInv
<1>3. Init => RS!Init
  <2> SUFFICES ASSUME Init PROVE RS!Init
    BY Zenon
  <2>1. log = << >> /\ Len(log) = 0 /\ Range(log) = {} /\ history[1] = EmptyDatabase
    BY DEF Init, Range
  <2>2. \A r \in Requests : req[r].command = Absent /\ req[r].status = Absent
    BY Zenon DEF Init
  <2> QED BY <2>1, <2>2 DEF RS!Init, Contents
<1>4. RaftInv /\ RaftInv' /\ [Next]_vars => [RS!Next]_RS!vars
  <2> SUFFICES ASSUME RaftInv, RaftInv', [Next]_vars PROVE RS!Next
    BY Zenon
  <2>1. CASE ToldStep
    <3>1. UNCHANGED <<log, history>> /\ Contents(Len(log))' = Contents(Len(log)) /\ Range(log)' = Range(log)
      BY Zenon, <2>1 DEF ToldStep, Contents, Range
    <3>2. \A q \in Requests :
            /\ req'[q].command = req[q].command
            /\ req'[q].status # req[q].status =>
                 /\ req[q].status = Absent
                 /\ req'[q].status = "ok" /\ req[q].command # Absent => q \in Range(log)
      BY Zenon, <2>1 DEF ToldStep
    <3>3. RS!Answer
      BY Zenon, <3>1, <3>2 DEF RS!Answer
    <3> QED BY Zenon, <3>3 DEF RS!Next
  <2>2. ASSUME NEW r \in Requests, InvokeStep(r) PROVE RS!Next
    <3>1. PICK op \in Operations : req'[r].command = Command(op)
      BY Zenon, <2>2 DEF InvokeStep
    <3>2. /\ Contents(Len(log))' = Contents(Len(log)) /\ Range(log)' = Range(log)
          /\ req[r].command = Absent /\ req[r].status = Absent /\ req'[r].status = Absent
          /\ \A q \in Requests \ {r} : req'[q] = req[q]
      BY Zenon, <2>2 DEF InvokeStep, Contents, Range
    <3>3. [q \in Requests |-> req'[q].status] = [q \in Requests |-> req[q].status]
      BY Zenon, <3>2
    <3>4. [q \in Requests |-> req'[q].command]
            = [[q \in Requests |-> req[q].command] EXCEPT ![r] = Command(op)]
      BY Zenon, <3>1, <3>2
    <3>5. RS!Invoke(r)
      BY Zenon, <3>2, <3>3, <3>4 DEF RS!Invoke
    <3> QED BY Zenon, <3>5 DEF RS!Next
  <2>3. ASSUME NEW r \in Requests, TakeEffectStep(r) PROVE RS!Next
    <3>1. /\ log \in Seq(Requests) /\ history \in Seq(Databases) /\ Len(history) = Len(log) + 1
          /\ history' \in Seq(Databases)
      BY Zenon DEF RaftInv, TypeOK
    <3>2. /\ log' = Append(log, r) /\ req' = req /\ r \notin Range(log) /\ req[r].command # Absent
          /\ history' = Append(history, ApplyCommand(Contents(Len(log)), req[r].command))
      BY Zenon, <2>3 DEF TakeEffectStep
    <3>3. Range(log)' = Range(log) \cup {r}
      BY <3>1, <3>2, RangeGrows
    <3>4. Contents(Len(log))' = ApplyCommand(Contents(Len(log)), req[r].command)
      BY <3>1, <3>2 DEF Contents
    <3>5. RS!TakeEffect(r)
      BY Zenon, <3>2, <3>3, <3>4 DEF RS!TakeEffect
    <3> QED BY Zenon, <3>5 DEF RS!Next
  <2> QED BY Zenon, <2>1, <2>2, <2>3, StepKinds
<1> QED BY <1>1, <1>2, <1>3, <1>4, PTL DEF Spec, ImplementsReplicatedStore, RS!Spec

----------------------------------------------------------------------------
(* What is stored has been validated.                                      *)

\* What a handler hands to the store it has validated.
LEMMA HandleValidated ==
  ASSUME NEW d \in Databases, NEW op \in Operations, Handle(d, op) = "write",
         Command(op).type = "Save"
  PROVE  Command(op).payload = Stored(op) /\ Validated(Stored(op))
<1>1. IsOperation(op)
  BY Zenon, OperationTyped
<1>2. op.kind # "snapshot" /\ op.verb # "delete"
  <2>1. op.kind = "snapshot" => op.verb \in {"create", "delete", "activate"}
    BY Zenon, <1>1, HandleTyped DEF IsOperation
  <2>2. CASE op.kind = "snapshot"
    BY Zenon, <2>1, <2>2 DEF Command
  <2>3. CASE op.kind # "snapshot" /\ op.verb = "delete"
    BY Zenon, <2>3 DEF Command
  <2> QED BY Zenon, <2>2, <2>3
<1>3. Command(op).payload = Stored(op)
  BY Zenon, <1>2 DEF Command
<1>4. op.verb \in {"create", "update"} /\ op.value \in Values /\ op.value.kind = op.kind
  BY Zenon, <1>1, <1>2, HandleTyped DEF IsOperation
<1>5. Handle(d, op) = IF op.verb = "create" THEN Create(op) ELSE Update(d, op)
  <2>1. Auth(op)
    BY Zenon DEF Handle
  <2> QED BY Zenon, <1>2, <1>4, <2>1 DEF Handle
<1>6. CASE op.kind = "route"
  <2>1. validateRouteAction(op.value)
    BY Zenon, <1>4, <1>5, <1>6 DEF Create, Update, CreateRoute, UpdateRoute, Found, Checked
  <2> QED BY Zenon, <1>3, <1>4, <1>6, <2>1 DEF Stored, Validated
<1>7. CASE op.kind = "listener"
  <2>1. validateListener(op.value)
    BY Zenon, <1>4, <1>5, <1>7
    DEF Create, Update, CreateListener, UpdateListener, Found, Checked
  <2>2. op.value \in [kind : {"listener"}, address : STRING, mode : STRING, ca : BOOLEAN]
    BY Zenon, <1>4, <1>7, ListenersAssumption
  <2>3. /\ Stored(op).kind = "listener" /\ Stored(op).address # ""
        /\ Stored(op).mode = op.value.mode /\ Stored(op).ca = op.value.ca
    BY Zenon, <1>7, <2>2 DEF Stored
  <2> QED BY Zenon, <1>3, <2>1, <2>3 DEF Validated, validateListener
<1>8. CASE op.kind = "middleware"
  <2>1. validateMiddleware(op.value)
    BY Zenon, <1>4, <1>5, <1>8
    DEF Create, Update, CreateMiddleware, UpdateMiddleware, Found, Checked
  <2> QED BY Zenon, <1>3, <1>4, <1>8, <2>1 DEF Stored, Validated
<1>9. CASE op.kind \notin {"route", "listener", "middleware"}
  BY Zenon, <1>3, <1>4, <1>9 DEF Stored, Validated
<1> QED BY Zenon, <1>6, <1>7, <1>8, <1>9

ValidatedData(d) == \A i \in Ids : d.data[i] # Absent => Validated(d.data[i])

\* Validated are also the commands on their way and the Raft snapshots.
ValidatedInv ==
  /\ \A r \in Requests :
       req[r].command # Absent /\ req[r].command.type = "Save" => Validated(req[r].command.payload)
  /\ \A n \in Nodes : ValidatedData(db[n]) /\ ValidatedData(compacted[n].db)

\* Applying a validated command keeps a database validated.
LEMMA ApplyValidated ==
  ASSUME NEW d \in Databases, NEW c \in Commands, ValidatedData(d),
         c.type = "Save" => Validated(c.payload)
  PROVE  ValidatedData(ApplyCommand(d, c))
<1> DEFINE e == ApplyCommand(d, c)
<1>1. \A x \in Ids : e.data[x] = IF WritesData(c, x)
                                 THEN IF c.type = "Save" THEN c.payload ELSE Absent
                                 ELSE d.data[x]
  BY Zenon, ApplyEffect
<1> HIDE DEF e
<1>2. ValidatedData(e)
  BY Zenon, <1>1 DEF ValidatedData
<1> QED BY Zenon, <1>2 DEF e

\* Only a node's own steps write to its database and its Raft snapshot.
LEMMA NodesWrittenBy ==
  ASSUME [Next]_vars
  PROVE  \/ UNCHANGED nodeVars
         \/ \E n \in Nodes : FSMApply(n) \/ Restart(n) \/ InstallSnapshot(n) \/ Compact(n)
<1>1. ASSUME NEW r \in Requests, NEW n \in Nodes, NEW op \in OperationsOf[r], Receive(r, n, op)
      PROVE  UNCHANGED nodeVars
  BY <1>1, Zenon DEF Receive
<1>2. ASSUME NEW r \in Requests, Handlers(r) PROVE UNCHANGED nodeVars
  BY <1>2, Zenon DEF Handlers, Apply, ForwardToLeader, WriteFails, ForwardTimeout, Commit, ReadActivated,
     ApplyRaw
<1>3. ASSUME NEW n \in Nodes, LoseLeadership(n) \/ Elect(n) \/ Crash(n) PROVE UNCHANGED nodeVars
  BY <1>3, Zenon DEF LoseLeadership, Elect, Crash
<1>4. CASE UNCHANGED vars
  BY Zenon, <1>4 DEF vars, nodeVars
<1> QED BY Zenon, <1>1, <1>2, <1>3, <1>4 DEF Next, NodeSteps

\* Of the steps, only a handler's first part makes a command, and only a
\* node's FSM writes to its database.
LEMMA ValidatedStep ==
  ASSUME RaftInv, ValidatedInv, [Next]_vars
  PROVE  ValidatedInv'
<1>1. ASSUME NEW q \in Requests, req'[q].command # Absent, req'[q].command.type = "Save"
      PROVE  Validated(req'[q].command.payload)
  <2>1. CASE req'[q].command = req[q].command
    BY Zenon, <1>1, <2>1 DEF ValidatedInv
  <2>2. CASE req'[q].command # req[q].command
    <3>1. PICK r \in Requests : InvokeStep(r)
      BY Zenon, <2>2, StepKinds DEF ToldStep, TakeEffectStep
    <3>2. q = r
      BY Zenon, <2>2, <3>1 DEF InvokeStep
    <3>3. PICK n \in Nodes, op \in Operations :
            Handle(db[n], op) = "write" /\ req'[q].command = Command(op)
      BY Zenon, <3>1, <3>2 DEF InvokeStep
    <3>4. db[n] \in Databases
      BY Zenon, LogFacts
    <3> QED BY Zenon, <1>1, <3>3, <3>4, HandleValidated
  <2> QED BY Zenon, <2>1, <2>2
<1>2. \A n \in Nodes : ValidatedData(db'[n]) /\ ValidatedData(compacted'[n].db)
  <2>1. CASE UNCHANGED nodeVars
    BY Zenon, <2>1 DEF ValidatedInv, nodeVars
  <2>2. ASSUME NEW n \in Nodes, FSMApply(n)
        PROVE  \A m \in Nodes : ValidatedData(db'[m]) /\ ValidatedData(compacted'[m].db)
    <3> DEFINE c == req[log[applied[n] + 1]].command
    <3>1. /\ applied[n] + 1 \in 1 .. Len(log) /\ compacted' = compacted
          /\ db' = [db EXCEPT ![n] = ApplyCommand(@, c)]
      BY <2>2, LogFacts DEF FSMApply
    <3>2. c \in Commands /\ log[applied[n] + 1] \in Requests /\ db[n] \in Databases
      BY Zenon, <3>1, LogFacts
    <3>3. c.type = "Save" => Validated(c.payload)
      BY Zenon, <3>2, AbsentAssumption DEF ValidatedInv
    <3> HIDE DEF c
    <3>4. ValidatedData(ApplyCommand(db[n], c))
      BY Zenon, <3>2, <3>3, ApplyValidated DEF ValidatedInv
    <3>5. db'[n] = ApplyCommand(db[n], c) /\ \A m \in Nodes \ {n} : db'[m] = db[m]
      BY Zenon, <3>1 DEF RaftInv, TypeOK
    <3> QED BY Zenon, <3>1, <3>4, <3>5 DEF ValidatedInv
  <2>3. ASSUME NEW n \in Nodes, Restart(n) \/ InstallSnapshot(n) \/ Compact(n)
        PROVE  \A m \in Nodes : ValidatedData(db'[m]) /\ ValidatedData(compacted'[m].db)
    <3>1. leader # NoNode => leader \in Nodes
      BY Zenon DEF RaftInv, TypeOK
    <3>2. \A m \in Nodes : db'[m] = db[m] \/ \E k \in Nodes : db'[m] = compacted[k].db
      BY Zenon, <2>3, <3>1 DEF Restart, InstallSnapshot, Compact, RaftInv, TypeOK
    <3>3. \A m \in Nodes : \E k \in Nodes : compacted'[m].db \in {compacted[k].db, db[k]}
      BY <2>3, <3>1 DEF Restart, InstallSnapshot, Compact, RaftInv, TypeOK
    <3> QED BY Zenon, <3>2, <3>3 DEF ValidatedInv
  <2>4. \/ UNCHANGED nodeVars
        \/ \E n \in Nodes : FSMApply(n) \/ Restart(n) \/ InstallSnapshot(n) \/ Compact(n)
    BY Zenon, NodesWrittenBy
  <2> QED BY Zenon, <2>1, <2>2, <2>3, <2>4
<1> QED BY Zenon, <1>1, <1>2 DEF ValidatedInv

\* Whatever node and handler of the API it came through, and over replays and
\* installed Raft snapshots, no node's database holds an entity that
\* validateRouteAction, validateListener or validateMiddleware refuses.
THEOREM RaftStoredValidated == Spec => []StoredValidated
<1>1. Init => RaftInv
  BY Zenon, InitInv
<1>2. Init => ValidatedInv
  <2> SUFFICES ASSUME Init PROVE ValidatedInv
    BY Zenon
  <2>1. \A r \in Requests : req[r].command = Absent
    BY Zenon DEF Init
  <2>2. \A n \in Nodes : db[n] = EmptyDatabase /\ compacted[n].db = EmptyDatabase
    BY Zenon DEF Init
  <2>3. ValidatedData(EmptyDatabase)
    BY Zenon DEF ValidatedData, EmptyDatabase
  <2> QED BY Zenon, <2>1, <2>2, <2>3 DEF ValidatedInv
<1>3. RaftInv /\ [Next]_vars => RaftInv'
  BY Zenon, NextInv
<1>4. RaftInv /\ ValidatedInv /\ [Next]_vars => ValidatedInv'
  BY Zenon, ValidatedStep
<1>5. ValidatedInv => StoredValidated
  BY Zenon DEF ValidatedInv, ValidatedData, StoredValidated
<1> QED BY <1>1, <1>2, <1>3, <1>4, <1>5, PTL DEF Spec

----------------------------------------------------------------------------
(* Every node accepts writes.                                              *)

\* While nothing has failed there is a leader.
AcceptInv == (faults = 0 => leader # NoNode) /\ EveryNodeAcceptsWrites

\* FSM.Apply never fails a create or an update, on whatever database.
LEMMA WritesSucceed ==
  ASSUME RaftInv, NEW n \in Nodes, FSMApply(n)
  PROVE  \A q \in Requests :
           req'[q].op.verb \in {"create", "update"} => req'[q].status \in {req[q].status, "ok"}
<1> DEFINE r == log[applied[n] + 1]
           result == Result(db[n], req[r].command)
<1>1. /\ applied[n] + 1 \in 1 .. Len(log)
      /\ \/ req' = req
         \/ req[r].pc = "waiting" /\ req' = Reply(r, result)
  BY LogFacts DEF FSMApply
<1>2. /\ r \in Requests /\ r \in Range(log) /\ req[r].command \in Commands
      /\ db[n] \in Databases
  <2>1. applied[n] + 1 \in 1 .. Len(log)
    BY Zenon, <1>1
  <2> QED BY Zenon, <2>1, LogFacts
<1> HIDE DEF r, result
<1>3. /\ req[r].op \in Operations /\ req[r].op.verb # "get"
      /\ req[r].command = Command(req[r].op) /\ result \in {"ok", "notfound"}
  BY Zenon, <1>2, InProgress, ResultTyped DEF result
<1>4. req[r].op.verb \in {"create", "update"} => result = "ok"
  <2> SUFFICES ASSUME req[r].op.verb \in {"create", "update"} PROVE result = "ok"
    BY Zenon
  <2>1. IsOperation(req[r].op)
    BY Zenon, <1>3, OperationTyped
  <2>2. Command(req[r].op).type \in {"Save", "SaveSnapshot"}
    BY Zenon, <1>3, <2>1, CommandOf
  <2> QED BY Zenon, <1>3, <2>2 DEF Result, result
<1>5. ASSUME req' = Reply(r, result), req[r].op.verb \in {"create", "update"}
      PROVE  req'[r].status = "ok"
  <2>1. req'[r].status = Status(req[r].op, "ok")
    BY Zenon, <1>2, <1>3, <1>4, <1>5, ReplyTyped DEF RaftInv
  <2> QED BY Zenon, <1>5, <2>1 DEF Status
<1>6. ASSUME req' = Reply(r, result)
      PROVE  /\ req'[r].op = req[r].op
             /\ \A q \in Requests \ {r} : req'[q] = req[q]
  BY Zenon, <1>2, <1>3, <1>6, ReplyTyped DEF RaftInv
<1> QED BY Zenon, <1>1, <1>5, <1>6

\* The two ways a step keeps AcceptInv: it counts as a fault, or it neither
\* takes the leader away nor answers a create or an update with an error.
LEMMA FaultAccepted ==
  ASSUME RaftInv, Fault
  PROVE  AcceptInv'
<1>1. faults' # 0
  BY DEF RaftInv, TypeOK, Fault
<1> QED BY Zenon, <1>1 DEF AcceptInv, EveryNodeAcceptsWrites

\* The second of the two.
LEMMA CalmAccepted ==
  ASSUME AcceptInv, faults' = faults, leader' = leader \/ leader' \in Nodes,
         \A q \in Requests :
           \/ req'[q].op = req[q].op /\ req'[q].status = req[q].status
           \/ req'[q].status # "error"
           \/ req'[q].op.verb \notin {"create", "update"}
  PROVE  AcceptInv'
<1>1. faults' = 0 => leader' # NoNode
  BY Zenon, NodesAssumption DEF AcceptInv
<1>2. EveryNodeAcceptsWrites'
  BY Zenon DEF AcceptInv, EveryNodeAcceptsWrites
<1> QED BY Zenon, <1>1, <1>2 DEF AcceptInv

\* No step takes the leader away for good or fails a create or an update.
LEMMA AcceptStep ==
  ASSUME RaftInv, AcceptInv, [Next]_vars
  PROVE  AcceptInv'
<1>1. ASSUME NEW r \in Requests, NEW n \in Nodes, NEW op \in OperationsOf[r], Receive(r, n, op)
      PROVE  AcceptInv'
  <2>1. op \in Operations /\ db[n] \in Databases
    BY Zenon, LogFacts DEF Operations
  <2>2. Handle(db[n], op) # "error" /\ Absent # "error"
    BY Zenon, <2>1, HandleTyped, AbsentAssumption DEF Statuses
  <2>3. req'[r].status # "error" /\ \A q \in Requests \ {r} : req'[q] = req[q]
    BY Zenon, <1>1, <2>2, ReceiveStep
  <2>4. faults' = faults /\ leader' = leader
    BY Zenon, <1>1 DEF Receive, raftVars
  <2> QED BY Zenon, <2>3, <2>4, CalmAccepted
<1>2. ASSUME NEW r \in Requests, Apply(r) \/ ForwardToLeader(r) PROVE AcceptInv'
  <2>1. PICK n : ApplyRaw(r, n)
    BY Zenon, <1>2 DEF Apply, ForwardToLeader
  <2>2. /\ faults' = faults /\ leader' = leader
        /\ req' = [req EXCEPT ![r] = [@ EXCEPT !.pc = "waiting", !.via = n]]
    BY Zenon, <2>1 DEF ApplyRaw, RaftInv, TypeOK, RequestRecords
  <2>3. req \in [Requests -> RequestRecords] /\ req[r] \in RequestRecords
    BY Zenon DEF RaftInv, TypeOK
  <2>4. \A q \in Requests : req'[q].op = req[q].op /\ req'[q].status = req[q].status
    BY Zenon, <2>2, <2>3 DEF RequestRecords
  <2> QED BY Zenon, <2>2, <2>4, CalmAccepted
<1>3. ASSUME NEW r \in Requests, WriteFails(r) PROVE AcceptInv'
  <2>1. CASE Fault
    BY Zenon, <2>1, FaultAccepted
  <2>2. CASE UNCHANGED faults /\ leader = NoNode
    <3>1. faults' # 0
      BY Zenon, <2>2 DEF AcceptInv
    <3> QED BY Zenon, <3>1 DEF AcceptInv, EveryNodeAcceptsWrites
  <2>3. CASE UNCHANGED faults /\ ~RaftApplyAccepts
    <3>1. leader' = leader
      BY Zenon, <1>3 DEF WriteFails, raftVars
    <3>2. ~RaftApplyAccepts'
      BY Zenon, <2>3 DEF RaftApplyAccepts, Auth
    <3> QED BY Zenon, <2>3, <3>1, <3>2 DEF AcceptInv, EveryNodeAcceptsWrites
  <2> QED BY Zenon, <1>3, <2>1, <2>2, <2>3 DEF WriteFails
<1>4. ASSUME NEW r \in Requests, ForwardTimeout(r) PROVE AcceptInv'
  BY Zenon, <1>4, FaultAccepted DEF ForwardTimeout
<1>5. ASSUME NEW r \in Requests, Commit(r) PROVE AcceptInv'
  BY Zenon, <1>5, CalmAccepted DEF Commit
<1>6. ASSUME NEW r \in Requests, ReadActivated(r) PROVE AcceptInv'
  <2>1. faults' = faults /\ leader' = leader /\ req[r].op.verb = "activate"
    BY Zenon, <1>6 DEF ReadActivated, raftVars, RaftInv, ReadingInv
  <2>2. req'[r].op = req[r].op
    BY Zenon, <1>6, ReadActivatedStep DEF Told
  <2>3. \A q \in Requests \ {r} : req'[q] = req[q]
    BY <1>6, Zenon DEF ReadActivated, Finish
  <2> QED BY Zenon, <2>1, <2>2, <2>3, CalmAccepted
<1>7. ASSUME NEW n \in Nodes, FSMApply(n) PROVE AcceptInv'
  <2>1. faults' = faults /\ leader' = leader
    BY Zenon, <1>7 DEF FSMApply, raftVars
  <2>2. \A q \in Requests : req'[q].op = req[q].op
    BY Zenon, <1>7, FSMApplyStep DEF Told
  <2>3. \A q \in Requests :
           req'[q].op.verb \in {"create", "update"} => req'[q].status \in {req[q].status, "ok"}
    BY Zenon, <1>7, WritesSucceed
  <2> QED BY Zenon, <2>1, <2>2, <2>3, CalmAccepted
<1>8. ASSUME NEW n \in Nodes, LoseLeadership(n) \/ Crash(n) PROVE AcceptInv'
  <2>1. Fault
    BY <1>8, Zenon DEF LoseLeadership, Crash
  <2> QED BY Zenon, <2>1, FaultAccepted
<1>9. ASSUME NEW n \in Nodes, Elect(n) \/ Restart(n) \/ Compact(n) \/ InstallSnapshot(n)
      PROVE  AcceptInv'
  <2>1. faults' = faults /\ req' = req /\ (leader' = leader \/ leader' = n)
    BY Zenon, <1>9 DEF Elect, Restart, Compact, InstallSnapshot, raftVars
  <2> QED BY Zenon, <2>1, CalmAccepted
<1>10. CASE UNCHANGED vars
  BY Zenon, <1>10, CalmAccepted DEF vars
<1> QED
  BY Zenon, <1>1, <1>2, <1>3, <1>4, <1>5, <1>6, <1>7, <1>8, <1>9, <1>10
  DEF Next, Handlers, NodeSteps

\* Every node accepts writes, a follower by forwarding them: without a fault, and
\* where RaftApply is reached over plain HTTP from private addresses and needs no
\* API key, no create or update ends in an error.
THEOREM RaftEveryNodeAcceptsWrites == Spec => []EveryNodeAcceptsWrites
<1>1. Init => RaftInv
  BY Zenon, InitInv
<1>2. Init => AcceptInv
  BY NodesAssumption, AbsentAssumption DEF Init, AcceptInv, EveryNodeAcceptsWrites, Statuses
<1>3. RaftInv /\ [Next]_vars => RaftInv'
  BY Zenon, NextInv
<1>4. RaftInv /\ AcceptInv /\ [Next]_vars => AcceptInv'
  BY Zenon, AcceptStep
<1>5. AcceptInv => EveryNodeAcceptsWrites
  BY Zenon DEF AcceptInv
<1> QED BY <1>1, <1>2, <1>3, <1>4, <1>5, PTL DEF Spec
=============================================================================
