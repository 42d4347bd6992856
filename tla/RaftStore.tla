------------------------------ MODULE RaftStore ------------------------------
(***************************************************************************)
(* The replicated control plane: the REST handlers of every node over      *)
(* store/raftstore, raft/node.go and raft/fsm.go, with the local bolt      *)
(* database of every node underneath.  A write goes through the Raft log;  *)
(* a node that does not lead posts the command to the one that does.       *)
(* Reads are served from the node's own database.                          *)
(*                                                                         *)
(* hashicorp/raft itself is external.  It is modelled by what this code    *)
(* relies on: a log of committed entries, at most one leader that can      *)
(* commit, entries that survive a change of leader or do not, and per node *)
(* an index up to which its FSM has applied the log.  The bolt database    *)
(* survives a restart; the applied index does not, and a restarted node    *)
(* applies the log again from its last Raft snapshot, over whatever its    *)
(* database holds.                                                         *)
(***************************************************************************)
EXTENDS RestHandlers

CONSTANTS
  Nodes,          \* control-plane nodes, all of them voters
  Requests,       \* client requests
  OperationsOf,   \* OperationsOf[r]: the operations request r may be
  SnapshotThreshold, \* new entries after which Raft takes a snapshot (8192)
  TLS,            \* controlPlane.tls is set: the API is served over TLS only
  PrivateNetwork, \* the nodes reach each other from private or loopback addresses
  MaxFaults,      \* bound: crashes, lost leaderships, lost or late answers
  NoNode          \* no leader

ASSUME NodesAssumption == NoNode \notin Nodes
ASSUME FaultsAssumption == MaxFaults \in Nat
ASSUME ThresholdAssumption == SnapshotThreshold \in Nat \ {0}
ASSUME OperationsAssumption == \A r \in Requests : \A op \in OperationsOf[r] : IsOperation(op)

VARIABLES
  leader,         \* the node that can commit, or NoNode
  up,             \* the nodes that are running
  log,            \* committed entries, by the request that wrote them
  history,        \* history[i + 1]: what the first i entries make of an empty
                  \* database; no node stores it, the properties compare with it
  proposed,       \* requests in the leader's log that are not committed
  applied,        \* applied[n]: entries n's FSM has applied since it started
  db,             \* db[n]: n's bolt database
  compacted,      \* compacted[n]: n's Raft snapshot, index and contents
  req,            \* req[r]: request r: the node it was sent to (at), the node
                  \* whose raft.Apply it waits in (via), the command its
                  \* handler passed to the store, the status it answered
  faults          \* faults so far

vars == <<leader, up, log, history, proposed, applied, db, compacted, req, faults>>

raftVars == <<leader, up, log, history, proposed>>
nodeVars == <<applied, db, compacted>>

Operations == UNION {OperationsOf[r] : r \in Requests}

RequestRecords ==
  [pc : {"new", "writing", "waiting", "reading", "done"},
   op : Operations \cup {Absent},
   at : Nodes \cup {NoNode}, via : Nodes \cup {NoNode},
   command : Commands \cup {Absent},
   status : Statuses \cup {Absent}]

\* Every component has the values the code can give it.
TypeOK ==
  /\ up \subseteq Nodes
  /\ leader \in up \cup {NoNode}
  /\ log \in Seq(Requests)
  /\ history \in Seq(Databases) /\ Len(history) = Len(log) + 1
  /\ proposed \subseteq Requests
  /\ applied \in [Nodes -> 0 .. Len(log)]
  /\ db \in [Nodes -> Databases]
  /\ compacted \in [Nodes -> [index : 0 .. Len(log), db : Databases]]
  /\ req \in [Requests -> RequestRecords]
  /\ faults \in 0 .. MaxFaults

\* The cluster has formed: NewNode bootstrapped it with every peer, and
\* WaitForLeader let the API start.
Init ==
  /\ leader \in Nodes
  /\ up = Nodes
  /\ log = << >>
  /\ history = <<EmptyDatabase>>
  /\ proposed = {}
  /\ applied = [n \in Nodes |-> 0]
  /\ db = [n \in Nodes |-> EmptyDatabase]
  /\ compacted = [n \in Nodes |-> [index |-> 0, db |-> EmptyDatabase]]
  /\ req = [r \in Requests |->
       [pc |-> "new", op |-> Absent, at |-> NoNode, via |-> NoNode,
        command |-> Absent, status |-> Absent]]
  /\ faults = 0

----------------------------------------------------------------------------
\* The database a node has after ApplyCommand, and the error it returns.
ApplyCommand(d, c) ==
  CASE c.type = "Save" -> [d EXCEPT !.data[c.id] = c.payload]
    [] c.type = "Delete" -> [d EXCEPT !.data[c.id] = Absent]
    [] c.type = "SaveSnapshot" -> [d EXCEPT !.snapshots = @ \cup {c.id}]
    [] c.type = "DeleteSnapshot" ->
         [d EXCEPT !.snapshots = @ \ {c.id},
                   !.active = IF @ = c.id THEN Absent ELSE @]
    [] c.type = "ActivateSnapshot" ->
         [d EXCEPT !.active = IF c.id \in d.snapshots THEN c.id ELSE @]

Result(d, c) ==
  CASE c.type \in {"Save", "SaveSnapshot"} -> "ok"
    [] c.type = "Delete" -> IF d.data[c.id] = Absent THEN "notfound" ELSE "ok"
    [] c.type \in {"DeleteSnapshot", "ActivateSnapshot"} ->
         IF c.id \in d.snapshots THEN "ok" ELSE "notfound"

\* What the first n entries of the log make of an empty database.
Contents(n) == history[n + 1]

Quorum == 2 * Cardinality(up) > Cardinality(Nodes)

Fault == faults < MaxFaults /\ faults' = faults + 1

Finish(rs, status) ==
  req' = [r \in Requests |->
            IF r \in rs THEN [req[r] EXCEPT !.pc = "done", !.status = status] ELSE req[r]]

----------------------------------------------------------------------------
\* A snapshot's id is a uuid: nobody knows it before the snapshot exists.
Issued == {req[r].op.id : r \in {q \in Range(log) : req[q].command.type = "SaveSnapshot"}}

\* A handler's first part, on the node the client reached.
Receive(r, n, op) ==
  /\ req[r].pc = "new" /\ n \in up
  /\ op.kind = "snapshot" /\ op.verb # "create" => op.id \in Issued
  /\ LET verdict == Handle(db[n], op)
         started == [req[r] EXCEPT !.op = op, !.at = n]
     IN req' = [req EXCEPT ![r] =
          IF verdict = "write"
          THEN [started EXCEPT !.pc = "writing", !.command = Command(op)]
          ELSE [started EXCEPT !.pc = "done", !.status = verdict]]
  /\ UNCHANGED <<raftVars, nodeVars, faults>>

\* ApplyRaw on node n: the command is in the leader's log, and its caller
\* waits for the FSM of that node to apply it.
ApplyRaw(r, n) ==
  /\ leader = n
  /\ proposed' = proposed \cup {r}
  /\ req' = [req EXCEPT ![r].pc = "waiting", ![r].via = n]
  /\ UNCHANGED <<leader, up, log, history, nodeVars, faults>>

\* apply on the leader.
Apply(r) == req[r].pc = "writing" /\ ApplyRaw(r, req[r].at)

\* Whether a forward reaches ApplyRaw on the leader.  forwardToLeader speaks plain
\* HTTP and carries no Authorization header, which Auth on the leader refuses if
\* there are API keys; RaftApply refuses public addresses.  Its 503 is for a
\* process that is not in a cluster, its 400 for a body that breaks off.
RaftApplyAccepts == ~TLS /\ Auth([bearer |-> "missing"]) /\ PrivateNetwork

\* apply on a follower: the POST reaches RaftApply on the leader.
ForwardToLeader(r) ==
  /\ req[r].pc = "writing"
  /\ leader \notin {NoNode, req[r].at}
  /\ RaftApplyAccepts
  /\ ApplyRaw(r, leader)

\* There is no leader, or none that this node knows of; the answer is not 200;
\* or raft.Apply does not take the entry within its 10 s.
WriteFails(r) ==
  /\ req[r].pc = "writing"
  /\ \/ /\ leader = NoNode \/ (leader # req[r].at /\ ~RaftApplyAccepts)
        /\ UNCHANGED faults
     \/ leader # NoNode /\ Fault
  /\ Finish({r}, Status(req[r].op, "error"))
  /\ UNCHANGED <<raftVars, nodeVars>>

\* The forwarding client gives up after 10 s; the leader's log keeps the entry.
ForwardTimeout(r) ==
  /\ req[r].pc = "waiting" /\ req[r].via # req[r].at
  /\ Fault
  /\ Finish({r}, Status(req[r].op, "error"))
  /\ UNCHANGED <<raftVars, nodeVars>>

\* Mutant of Commit: the entry stays in the leader's log to be committed again.
CommitAgain(r) ==
  /\ leader # NoNode /\ Quorum
  /\ r \in proposed
  /\ log' = Append(log, r)
  /\ history' = Append(history, ApplyCommand(Contents(Len(log)), req[r].command))
  /\ UNCHANGED <<leader, up, proposed, nodeVars, req, faults>>

\* Raft replicates the entry to a majority.
Commit(r) ==
  /\ leader # NoNode /\ Quorum
  /\ r \in proposed
  /\ log' = Append(log, r)
  /\ history' = Append(history, ApplyCommand(Contents(Len(log)), req[r].command))
  /\ proposed' = proposed \ {r}
  /\ UNCHANGED <<leader, up, nodeVars, req, faults>>

\* Mutant of Reply: ApplyRaw does not look at the FSM's response.
ReplyIgnoresResponse(r, result) ==
  [req EXCEPT ![r] = IF req[r].op.verb = "activate"
                     THEN [@ EXCEPT !.pc = "reading"]
                     ELSE [@ EXCEPT !.pc = "done", !.status = "ok"]]

\* The result of an entry reaches the handler.  Over a forward, an error is a
\* 500 whose text no longer wraps ErrNotFound.  ActivateSnapshot goes on to
\* read the snapshot back.
Reply(r, result) ==
  LET seen == IF req[r].via = req[r].at \/ result = "ok" THEN result ELSE "error"
  IN [req EXCEPT ![r] =
        IF req[r].op.verb = "activate" /\ seen = "ok"
        THEN [@ EXCEPT !.pc = "reading"]
        ELSE [@ EXCEPT !.pc = "done", !.status = Status(req[r].op, seen)]]

\* FSM.Apply on node n for the next committed entry.
FSMApply(n) ==
  /\ n \in up /\ applied[n] < Len(log)
  /\ LET r == log[applied[n] + 1]
     IN /\ db' = [db EXCEPT ![n] = ApplyCommand(@, req[r].command)]
        /\ req' = IF req[r].pc = "waiting" /\ req[r].via = n
                  THEN Reply(r, Result(db[n], req[r].command))
                  ELSE req
  /\ applied' = [applied EXCEPT ![n] = @ + 1]
  /\ UNCHANGED <<raftVars, compacted, faults>>

\* ActivateSnapshot's second call, on this node's database.
ReadActivated(r) ==
  /\ req[r].pc = "reading"
  /\ Finish({r}, IF req[r].op.id \in db[req[r].at].snapshots THEN "ok" ELSE "error")
  /\ UNCHANGED <<raftVars, nodeVars, faults>>

----------------------------------------------------------------------------
\* Requests whose raft.Apply on n has not been committed, and those that
\* need node n to go on at all.
Uncommitted(n) == {r \in proposed : req[r].pc = "waiting" /\ req[r].via = n}

\* Mutant of Depending: a forward is not told that its leader has gone.
DependingLocal(n) ==
  {r \in Requests : req[r].pc \in {"writing", "waiting", "reading"} /\ req[r].at = n}

Depending(n) ==
  {r \in Requests : \/ req[r].pc \in {"writing", "waiting", "reading"} /\ req[r].at = n
                    \/ req[r].pc = "waiting" /\ req[r].via = n}

\* ErrLeadershipLost: the caller is told of a failure, the entry may survive.
LoseLeadership(n) ==
  /\ leader = n
  /\ Fault
  /\ leader' = NoNode
  /\ req' = [r \in Requests |->
       IF r \in Uncommitted(n)
       THEN [req[r] EXCEPT !.pc = "done", !.status = Status(req[r].op, "error")]
       ELSE req[r]]
  /\ UNCHANGED <<up, log, history, proposed, nodeVars>>

\* A majority elects n.  Of the entries that were not committed its log has
\* some, and those it will commit.
Elect(n) ==
  /\ leader = NoNode /\ n \in up /\ Quorum
  /\ leader' = n
  /\ \E kept \in SUBSET proposed : proposed' = kept
  /\ UNCHANGED <<up, log, history, nodeVars, req, faults>>

Crash(n) ==
  /\ n \in up
  /\ Fault
  /\ up' = up \ {n}
  /\ leader' = IF leader = n THEN NoNode ELSE leader
  /\ Finish(Depending(n), "error")
  /\ UNCHANGED <<log, history, proposed, nodeVars>>

\* Mutant of Restart: the log is applied from where the node was, not from
\* where the restored snapshot is.
RestartFromOldIndex(n) ==
  /\ n \notin up
  /\ up' = up \cup {n}
  /\ db' = [db EXCEPT ![n] = IF compacted[n].index > 0 THEN compacted[n].db ELSE @]
  /\ UNCHANGED <<leader, log, history, proposed, applied, compacted, req, faults>>

\* Mutant of Restart: a node waits for a leader before it joins.
RestartNeedsLeader(n) ==
  /\ n \notin up /\ leader # NoNode
  /\ up' = up \cup {n}
  /\ applied' = [applied EXCEPT ![n] = compacted[n].index]
  /\ db' = [db EXCEPT ![n] = IF compacted[n].index > 0 THEN compacted[n].db ELSE @]
  /\ UNCHANGED <<leader, log, history, proposed, compacted, req, faults>>

\* NewNode with existing state: NewRaft restores the last Raft snapshot into
\* the database, if there is one, and applies the log from there.
Restart(n) ==
  /\ n \notin up
  /\ up' = up \cup {n}
  /\ applied' = [applied EXCEPT ![n] = compacted[n].index]
  /\ db' = [db EXCEPT ![n] = IF compacted[n].index > 0 THEN compacted[n].db ELSE @]
  /\ UNCHANGED <<leader, log, history, proposed, compacted, req, faults>>

\* Dump writes the active pointer, a bare id, as if it were JSON: the encoder
\* refuses it, and there is no snapshot.
Dumps(d) == d.active = Absent

\* FSM.Snapshot and Persist.
Compact(n) ==
  /\ n \in up /\ applied[n] >= compacted[n].index + SnapshotThreshold
  /\ Dumps(db[n])
  /\ compacted' = [compacted EXCEPT ![n] = [index |-> applied[n], db |-> db[n]]]
  /\ UNCHANGED <<raftVars, applied, db, req, faults>>

\* The leader's log no longer has what n needs: FSM.Restore on n, behind
\* every committed entry a caller on n waits for.
InstallSnapshot(n) ==
  /\ n \in up /\ leader \notin {NoNode, n}
  /\ \A r \in Requests : req[r].pc = "waiting" => req[r].via # n
  /\ compacted[leader].index > applied[n]
  /\ db' = [db EXCEPT ![n] = compacted[leader].db]
  /\ applied' = [applied EXCEPT ![n] = compacted[leader].index]
  /\ compacted' = [compacted EXCEPT ![n] = compacted[leader]]
  /\ UNCHANGED <<raftVars, req, faults>>

----------------------------------------------------------------------------
Handlers(r) ==
  \/ Apply(r) \/ ForwardToLeader(r) \/ WriteFails(r) \/ ForwardTimeout(r)
  \/ Commit(r) \/ ReadActivated(r)

NodeSteps(n) ==
  \/ FSMApply(n) \/ LoseLeadership(n) \/ Elect(n) \/ Crash(n) \/ Restart(n)
  \/ Compact(n) \/ InstallSnapshot(n)

Next ==
  \/ \E r \in Requests : \E n \in Nodes : \E op \in OperationsOf[r] : Receive(r, n, op)
  \/ \E r \in Requests : Handlers(r)
  \/ \E n \in Nodes : NodeSteps(n)

\* A handler runs on once it has started; Raft elects a leader and replicates
\* while a majority runs; an FSM applies what is committed; a node that went
\* down is started again.  Clients, faults and compaction owe nothing.
Fairness ==
  /\ \A r \in Requests :
       WF_vars(Apply(r) \/ ForwardToLeader(r) \/ WriteFails(r) \/ ReadActivated(r))
  /\ \A n \in Nodes : WF_vars(FSMApply(n) \/ Restart(n))
  /\ WF_vars(\E r \in Requests : Commit(r))
  /\ WF_vars(\E n \in Nodes : Elect(n))

Spec == Init /\ [][Next]_vars /\ Fairness

----------------------------------------------------------------------------
Entry(r) == {i \in DOMAIN log : log[i] = r}

\* The clients of the replicated store see one database on which every write
\* takes effect at most once, in the order of the log, and an acknowledged
\* write has taken effect (raftstore.apply, ApplyRaw, forwardToLeader), over
\* crashes, changes of leader, forwards that time out and entries that
\* survive the failure their caller was told of.
RS == INSTANCE ReplicatedStore WITH
        Commands <- {Command(op) : op \in Operations},
        EmptyContents <- EmptyDatabase,
        Effect <- ApplyCommand,
        None <- Absent,
        contents <- Contents(Len(log)),
        command <- [r \in Requests |-> req[r].command],
        effective <- Range(log),
        answer <- [r \in Requests |-> req[r].status]

ImplementsReplicatedStore == RS!Spec

\* A running node that has applied the whole log has the database the log
\* describes: FSM.Apply over a database that already holds later writes (the
\* replay after a restart), and FSM.Restore of a snapshot another node took in
\* the middle of such a replay, converge to it.
Converged ==
  \A n \in up : applied[n] = Len(log) => db[n] = Contents(Len(log))

\* What DeleteSecret, DeleteSnapshot and ActivateSnapshot answer is true of
\* the database at the point where their write took effect: 404 only when the
\* entity was not there, success only when it was.
AnswersTrue ==
  \A r \in Requests :
    /\ req[r].op # Absent
    /\ req[r].op.kind \in {"secret", "snapshot"}
    /\ req[r].op.verb \in {"delete", "activate"}
    /\ req[r].status \in {"ok", "notfound"}
    => \E i \in Entry(r) : Result(Contents(i - 1), req[r].command) = req[r].status

\* What the validation of a kind's handlers asks of an entity, all of it, and the
\* address that the listener handlers fill in.
Validated(v) ==
  /\ v.kind = "route" => validateRouteAction(v)
  /\ v.kind = "listener" => validateListener(v) /\ v.address # ""
  /\ v.kind = "middleware" => validateMiddleware(v)

\* What a node stores has passed the validation of its kind, whatever node and
\* handler it came through, also after replays and installed Raft snapshots.  The
\* commands are those of the API's handlers: RaftApply itself validates nothing,
\* and trusts that only followers post to it.
StoredValidated ==
  \A n \in Nodes : \A i \in Ids : db[n].data[i] # Absent => Validated(db[n].data[i])

\* Every node accepts writes (raftstore.go, forwardToLeader): while nothing has
\* failed, no create or update is answered with an error, whichever node it was
\* sent to, if the API has neither TLS nor API keys and the nodes are in a
\* private network; else a forward is refused.
EveryNodeAcceptsWrites ==
  faults = 0 /\ RaftApplyAccepts =>
    \A r \in Requests :
      req[r].op # Absent /\ req[r].op.verb \in {"create", "update"} =>
        req[r].status # "error"

\* Every request is answered in the end, also when the node it was forwarded
\* to crashes or loses its leadership while the request waits there.
EveryRequestAnswered ==
  \A r \in Requests : []<>(req[r].pc \in {"new", "done"})

\* Once clients and faults stop, every node runs and has caught up with the log.
EventuallyCaughtUp ==
  []<>(\A n \in Nodes : n \in up /\ db[n] = Contents(Len(log)))
=============================================================================
