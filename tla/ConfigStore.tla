----------------------------- MODULE ConfigStore -----------------------------
(***************************************************************************)
(* The control plane's bolt store (server/internal/store/bolt/bolt.go):    *)
(* entity buckets, versioned snapshots, the active-snapshot pointer, and   *)
(* the event channels of its subscribers.  A write is two steps: the bolt  *)
(* transaction commits, and then, outside of it, publish offers the event  *)
(* to every subscriber channel without blocking.  Between the two, any     *)
(* other goroutine may run.  Components that use the store extend this     *)
(* module and compose its actions with their own.                          *)
(***************************************************************************)
EXTENDS Naturals, Sequences, FiniteSets

CONSTANTS
  Kinds,          \* resource kinds that have a bucket (routes, groups, ...)
  Ids,            \* entity identifiers
  Values,         \* entity contents
  SnapshotIds,    \* identifiers uuid.NewString may produce
  Writers,        \* API goroutines that write concurrently
  Subscribers,    \* holders of a channel returned by Subscribe
  ChanCap,        \* capacity of a subscriber channel (32 in the code)
  MaxWrites,      \* bound: writes in a behaviour
  Absent          \* no entity, no snapshot, no event

ASSUME ChanCapAssumption == ChanCap \in Nat \ {0}
ASSUME MaxWritesAssumption == MaxWrites \in Nat
ASSUME AbsentAssumption ==
  /\ Absent \notin Values
  /\ Absent \notin SnapshotIds
  /\ Absent \notin Kinds
ASSUME SnapshotIsNotAKind == "snapshot" \notin Kinds /\ "snapshot" # Absent

VARIABLES
  data,           \* bucket contents: data[kind][id]
  snapshots,      \* snapshots[id]: the stored configuration, or Absent
  active,         \* metaActiveSnapshot: the active snapshot's id, or Absent
  issued,         \* snapshot ids handed out so far (a uuid is never reused)
  unpublished,    \* unpublished[w]: event of a committed, unpublished write
  subscribed,     \* the subscribers in s.subs
  chan,           \* chan[u]: events buffered for subscriber u
  writes          \* number of writes committed so far

storeVars ==
  <<data, snapshots, active, issued, unpublished, subscribed, chan, writes>>

Collection == [Ids -> Values \cup {Absent}]
Content == [Kinds -> Collection]
EmptyCollection == [i \in Ids |-> Absent]

\* Consumers look at nothing of a StoreEvent but its Resource.
Events == Kinds \cup {"snapshot"}

StoreTypeOK ==
  /\ data \in Content
  /\ snapshots \in [SnapshotIds -> Content \cup {Absent}]
  /\ active \in SnapshotIds \cup {Absent}
  /\ issued \subseteq SnapshotIds
  /\ unpublished \in [Writers -> Events \cup {Absent}]
  /\ subscribed \subseteq Subscribers
  /\ chan \in [Subscribers -> Seq(Events)]
  /\ writes \in Nat

\* The database is opened with whatever entities an earlier run left in it.
StoreInit ==
  /\ data \in Content
  /\ snapshots = [s \in SnapshotIds |-> Absent]
  /\ active = Absent
  /\ issued = {}
  /\ unpublished = [w \in Writers |-> Absent]
  /\ subscribed = {}
  /\ chan = [u \in Subscribers |-> << >>]
  /\ writes = 0

----------------------------------------------------------------------------
\* Writer w commits a transaction and is left holding event e.
Commit(w, e) ==
  /\ unpublished[w] = Absent
  /\ writes < MaxWrites
  /\ writes' = writes + 1
  /\ unpublished' = [unpublished EXCEPT ![w] = e]
  /\ UNCHANGED <<subscribed, chan>>

\* SaveRoute, SaveGroup, ...: create or replace one entity.
Save(w, k, i, v) ==
  /\ Commit(w, k)
  /\ data' = [data EXCEPT ![k][i] = v]
  /\ UNCHANGED <<snapshots, active, issued>>

\* DeleteRoute, DeleteGroup, ...: ErrNotFound, and no event, unless present.
Delete(w, k, i) ==
  /\ data[k][i] # Absent
  /\ Commit(w, k)
  /\ data' = [data EXCEPT ![k][i] = Absent]
  /\ UNCHANGED <<snapshots, active, issued>>

\* SaveSnapshot under the fresh id CreateSnapshot drew for it.
SaveSnapshot(w, s, c) ==
  /\ s \notin issued
  /\ Commit(w, "snapshot")
  /\ issued' = issued \cup {s}
  /\ snapshots' = [snapshots EXCEPT ![s] = c]
  /\ UNCHANGED <<data, active>>

\* The transaction that deletes the active snapshot also clears the pointer.
DeleteSnapshot(w, s) ==
  /\ snapshots[s] # Absent
  /\ Commit(w, "snapshot")
  /\ snapshots' = [snapshots EXCEPT ![s] = Absent]
  /\ active' = IF active = s THEN Absent ELSE active
  /\ UNCHANGED <<data, issued>>

ActivateSnapshot(w, s) ==
  /\ snapshots[s] # Absent
  /\ Commit(w, "snapshot")
  /\ active' = s
  /\ UNCHANGED <<data, snapshots, issued>>

----------------------------------------------------------------------------
\* A send with a default case: a full channel drops the event.
Offer(q, e) == IF Len(q) < ChanCap THEN Append(q, e) ELSE q

publish(w) ==
  /\ unpublished[w] # Absent
  /\ chan' = [u \in Subscribers |->
                IF u \in subscribed THEN Offer(chan[u], unpublished[w])
                                    ELSE chan[u]]
  /\ unpublished' = [unpublished EXCEPT ![w] = Absent]
  /\ UNCHANGED <<data, snapshots, active, issued, subscribed, writes>>

Subscribe(u) ==
  /\ u \notin subscribed
  /\ subscribed' = subscribed \cup {u}
  /\ chan' = [chan EXCEPT ![u] = << >>]
  /\ UNCHANGED <<data, snapshots, active, issued, unpublished, writes>>

\* The context of u's subscription is cancelled.
Unsubscribe(u) ==
  /\ subscribed' = subscribed \ {u}
  /\ chan' = [chan EXCEPT ![u] = << >>]
  /\ UNCHANGED <<data, snapshots, active, issued, unpublished, writes>>

\* Subscriber u takes the next event from its channel.
Receive(u) ==
  /\ u \in subscribed
  /\ chan[u] # << >>
  /\ chan' = [chan EXCEPT ![u] = Tail(@)]
  /\ UNCHANGED <<data, snapshots, active, issued, unpublished, subscribed, writes>>

\* No committed write still has its event to publish.
AllPublished == \A w \in Writers : unpublished[w] = Absent

\* Restore replaces every bucket by those of a leader's Dump and publishes
\* nothing.  A Dump never holds an active pointer: the stored id is not JSON,
\* so json.Marshal, and with it Dump, fails while a snapshot is active.
\* The goroutine that restores is the one that applies writes.
Restore(c, sn) ==
  /\ AllPublished
  /\ writes < MaxWrites
  /\ writes' = writes + 1
  /\ data' = c
  /\ snapshots' = sn
  /\ active' = Absent
  /\ issued' = issued \cup {s \in SnapshotIds : sn[s] # Absent}
  /\ UNCHANGED <<unpublished, subscribed, chan>>

EntityWrite(w) ==
  \E k \in Kinds, i \in Ids :
    \/ Delete(w, k, i)
    \/ \E v \in Values : Save(w, k, i, v)

\* Snapshot writes of components that do not look at a snapshot's content:
\* it is captured in one step (module SnapshotCapture takes the real ones).
SnapshotWrite(w) ==
  \E s \in SnapshotIds :
    \/ SaveSnapshot(w, s, data)
    \/ DeleteSnapshot(w, s)
    \/ ActivateSnapshot(w, s)

=============================================================================
