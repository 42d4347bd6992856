----------------------------- MODULE Controller ------------------------------
(* The Kubernetes controller's process (clients/controller/cmd/controller):  *)
(* its reconcile loop over the informer cache, the work queue, the overlap   *)
(* detector, the reconciler and the batcher; the timer goroutine that runs   *)
(* beside it; failing and half-answered API calls; crashes and restarts.     *)
(* The API of Vrata is reached by HTTP: its entity calls change the store in *)
(* one step, and CreateSnapshot copies it (module SnapshotCapture looks      *)
(* inside that copy).                                                         *)
EXTENDS WorkQueue, Batcher, Reconciler

CONSTANTS
  Supers,                 \* the route objects that are SuperHTTPRoutes, not HTTPRoutes
  NamespaceOf,            \* the namespace of each route object and Service
  Grants,                 \* the ReferenceGrants of the cluster
  InputsOf,               \* what the spec of each route object may be
  Rejecting,              \* duplicates.mode is "reject"
  RejectIncomplete,       \* snapshot.batchIncompletePolicy is "reject"
  MaxChanges,             \* bound: edits of the cluster
  MaxFaults               \* bound: failing calls, lost answers, crashes and terminations

VARIABLES
  cluster,                \* the informer cache: the spec of each route object
  gateways,               \* ... and the listeners of the Gateways
  queue,                  \* wq and knownSingles
  registered,             \* the detector's entries
  cycle,                  \* where the reconcile loop is
  signals,                \* Signal calls the loop has still to make
  active,                 \* the content of Vrata's active snapshot
  stopping,               \* ctx is done: a signal arrived
  changed, failures, restarts,
  lost                    \* history: changes were made that no Signal reports

vars == <<reconcilerVars, batcherVars, cluster, gateways, queue, registered, cycle,
          signals, active, stopping, changed, failures, restarts, lost>>

loopVars == <<cycle, signals, queue, registered, stopping>>
worldVars == <<cluster, gateways, changed>>

Places == {"idle", "members", "flush", "gateways", "create", "orphans", "delete", "final", "down"}

\* refs: routes of the head item still to reconcile; todo: listeners or groups
\* still to look at; listed: the Gateways' listeners when they were listed;
\* desired: desiredGroups; blocking: batchBlocking; batch: the head is a
\* group; first: no cycle has completed since the start.
Cycle(at, refs, desired, blocking, batch) ==
  [at |-> at, refs |-> refs, todo |-> {}, listed |-> {}, desired |-> desired,
   blocking |-> blocking, batch |-> batch, first |-> cycle.first]

Down == [at |-> "down", refs |-> << >>, todo |-> {}, listed |-> {}, desired |-> {},
         blocking |-> FALSE, batch |-> FALSE, first |-> TRUE]

TypeOK ==
  /\ ReconcilerTypeOK /\ BatcherTypeOK
  /\ \A k \in Keys : cluster[k] \in InputsOf[k] \cup {Absent}
  /\ gateways \subseteq Listeners
  /\ cycle.at \in Places /\ cycle.desired \subseteq Keys
  /\ queue.known \subseteq Keys /\ QueuedRefs(queue) \subseteq Keys
  /\ signals \in Nat

Init ==
  /\ BatcherInit
  /\ store = EmptyStore /\ job = NoJob
  /\ refCount = [d \in Dests |-> 0] /\ routeDestMap = [r \in RouteIds |-> Absent]
  /\ cluster \in [Keys -> UNION {InputsOf[k] : k \in Keys} \cup {Absent}]
  /\ \A k \in Keys : cluster[k] \in InputsOf[k] \cup {Absent}
  /\ gateways \in SUBSET Listeners
  /\ queue = EmptyQueue /\ registered = {} /\ signals = 0
  /\ cycle = Down
  /\ active = NoSnapshot /\ stopping = FALSE
  /\ changed = 0 /\ failures = 0 /\ restarts = 0 /\ lost = FALSE

----------------------------------------------------------------------------
(* The world: edits of route objects and Gateways, and wall time.            *)
Edit(k, input) ==
  /\ changed < MaxChanges /\ cluster[k] # input
  /\ cluster' = [cluster EXCEPT ![k] = input] /\ changed' = changed + 1
  /\ UNCHANGED <<reconcilerVars, batcherVars, gateways, loopVars, active, failures, restarts, lost>>

EditGateway(l) ==
  /\ changed < MaxChanges
  /\ gateways' = IF l \in gateways THEN gateways \ {l} ELSE gateways \cup {l}
  /\ changed' = changed + 1
  /\ UNCHANGED <<reconcilerVars, batcherVars, cluster, loopVars, active, failures, restarts, lost>>

IdleRunsOut(n) ==
  /\ n \in DOMAIN queue.items
  /\ queue.items[n].batch # NoBatch /\ ~queue.items[n].idle
  /\ queue' = IdleTimeout(queue, n)
  /\ UNCHANGED <<reconcilerVars, batcherVars, worldVars, cycle, signals, registered,
                 stopping, active, failures, restarts, lost>>

----------------------------------------------------------------------------
(* Start-up: the reconciler is rebuilt from Vrata; if that fails the         *)
(* controller goes on with empty books.                                      *)
Start(answer) ==
  /\ cycle.at = "down"
  /\ cycle' = [cycle EXCEPT !.at = "idle", !.first = TRUE]
  /\ IF answer = "ok"
     THEN routeDestMap' = InitMap /\ refCount' = Init_refCount(InitMap)
     ELSE UNCHANGED <<refCount, routeDestMap>>
  /\ failures' = IF answer = "ok" THEN failures ELSE failures + 1
  /\ failures' + restarts <= MaxFaults
  /\ UNCHANGED <<store, job, batcherVars, worldVars, queue, registered, signals, active,
                 stopping, restarts, lost>>

\* The loop waits while it makes a job's calls, signals its changes or flushes.
Free == job = NoJob /\ signals = 0 /\ holder # "loop"

\* A call fails, or changes the store and its answer is lost; once ctx is done
\* every call fails.
Failing ==
  \/ ~stopping /\ failures + restarts < MaxFaults /\ failures' = failures + 1
  \/ stopping /\ UNCHANGED failures

\* Phase 1 and the head of the queue. Nothing of this leaves the process. The
\* cache lists the HTTPRoutes and then the SuperHTTPRoutes, each in any order.
Listed(super) == {k \in Keys : cluster[k] # Absent /\ (k \in Supers) = super}

Observed(order) ==
  LET visited[n \in 0..Len(order)] ==
        IF n = 0 THEN queue
        ELSE LET k == order[n] IN
             Observe(visited[n - 1], k, [batch |-> cluster[k].batch, size |-> cluster[k].size])
  IN  visited[Len(order)]

CycleWith(q, desired) ==
  LET head == Head(q.items)
      isBatch == head.batch # NoBatch
      waiting == q.items # << >> /\ isBatch /\ ~IsReady(head)
      rejected == q.items # << >> /\ isBatch /\ IsReady(head) /\ IsIncomplete(head)
                  /\ RejectIncomplete
  IN  /\ registered' = {}
      /\ IF q.items = << >> \/ waiting \/ rejected
         THEN cycle' = Cycle("gateways", << >>, desired, waiting, FALSE)
         ELSE cycle' = Cycle("members", head.members, desired, FALSE, isBatch)
      /\ queue' = IF rejected THEN Pop(q) ELSE q
      /\ UNCHANGED <<reconcilerVars, batcherVars, worldVars, signals, active, stopping,
                     restarts, lost>>

BeginCycle ==
  /\ cycle.at = "idle" /\ Free
  /\ \E plain \in SetToSeqs(Listed(FALSE)), super \in SetToSeqs(Listed(TRUE)) :
       \E q \in {Observed(plain \o super)} : CycleWith(q, ToSet(plain \o super))
  /\ UNCHANGED failures

\* A list that fails is logged, and the cycle goes on as if there were nothing
\* of its kind.
ListFails ==
  /\ cycle.at = "idle" /\ Free /\ Failing
  /\ \E listed \in {{}, Listed(FALSE), Listed(TRUE)} :
       \E order \in SetToSeqs(listed) :
         \E q \in {Observed(order)} : CycleWith(q, listed)

\* A grant allows references of HTTPRoutes in some namespaces to Services in its own.
matchesGrant(grant, sourceNamespace) ==
  /\ [kind |-> "HTTPRoute", namespace |-> sourceNamespace] \in grant.from
  /\ "Service" \in grant.to

AllowedBackendRef(sourceNamespace, targetNamespace) ==
  \/ sourceNamespace = targetNamespace
  \/ \E g \in Grants : g.namespace = targetNamespace /\ matchesGrant(g, sourceNamespace)

Backends(input) == UNION {input.rules[i].backends : i \in DOMAIN input.rules}

Crosses(k, input) == \E d \in Backends(input) : NamespaceOf[d] # NamespaceOf[k]

\* reconcileSingleRoute up to ApplyHTTPRoute: the object may be gone by now,
\* may name a backend no ReferenceGrant allows (or the grants could not be
\* listed; a SuperHTTPRoute needs none), or may overlap.
ReconcileMember ==
  /\ cycle.at = "members" /\ cycle.refs # << >> /\ Free
  /\ \E granted \in BOOLEAN : LET
         k == Head(cycle.refs)
         input == cluster[k]
         allowed == \/ k \in Supers
                    \/ \A d \in Backends(input) : AllowedBackendRef(NamespaceOf[k], NamespaceOf[d])
         check == Check(registered, k, input)
         looked == input # Absent /\ granted
         applies == looked /\ ~(check.overlaps /\ Rejecting)
     IN  /\ \/ granted = (input # Absent /\ allowed) /\ UNCHANGED failures
            \/ input # Absent /\ k \notin Supers /\ Crosses(k, input) /\ ~granted /\ Failing
         /\ cycle' = [cycle EXCEPT !.refs = Tail(@),
                                   !.desired = IF cycle.batch THEN @ \cup {k} ELSE @]
         /\ registered' = IF looked THEN check.registered ELSE registered
         /\ IF applies THEN BeginApply(k, input) ELSE UNCHANGED job
         /\ UNCHANGED <<store, refCount, routeDestMap, batcherVars, worldVars, queue, signals,
                        active, stopping, restarts, lost>>

----------------------------------------------------------------------------
(* Calls of the job in progress, and its return.                             *)
Call ==
  /\ ~stopping
  /\ Advance \/ ReconcilerCall("ok")
  /\ UNCHANGED <<batcherVars, worldVars, loopVars, active, failures, restarts, lost>>

FailingCall ==
  /\ Failing
  /\ CallFails \/ (~stopping /\ ReconcilerCall("lost"))
  /\ UNCHANGED <<batcherVars, worldVars, loopVars, active, restarts, lost>>

\* Mutant of JobReturns: a job's changes are not signalled.
JobReturnsSilently ==
  /\ Over
  /\ job' = NoJob /\ signals' = 0
  /\ lost' = (lost \/ (job.failed /\ job.changes > 0))
  /\ cycle' = [cycle EXCEPT !.desired = IF job.op = "apply" /\ ~job.failed /\ job.changes > 0
                                        THEN @ \cup {job.key} ELSE @]
  /\ UNCHANGED <<store, refCount, routeDestMap, batcherVars, worldVars, queue, registered,
                 stopping, active, failures, restarts>>

\* A job that failed reports none of the changes it made.
JobReturns ==
  /\ Over
  /\ job' = NoJob
  /\ signals' = IF job.failed THEN 0 ELSE job.changes
  /\ lost' = (lost \/ (job.failed /\ job.changes > 0))
  /\ cycle' = [cycle EXCEPT !.desired = IF job.op = "apply" /\ ~job.failed /\ job.changes > 0
                                        THEN @ \cup {job.key} ELSE @]
  /\ UNCHANGED <<store, refCount, routeDestMap, batcherVars, worldVars, queue, registered,
                 stopping, active, failures, restarts>>

SignalChange ==
  /\ signals > 0 /\ holder # "loop"
  /\ Signal
  /\ signals' = signals - 1
  /\ UNCHANGED <<reconcilerVars, worldVars, cycle, queue, registered, stopping, active,
                 failures, restarts, lost>>

\* The head item is done: a group is flushed, and the item leaves the queue
\* whatever became of its routes.
MembersDone ==
  /\ cycle.at = "members" /\ cycle.refs = << >> /\ Free
  /\ IF cycle.batch
     THEN Flush /\ cycle' = [cycle EXCEPT !.at = "flush"] /\ UNCHANGED queue
     ELSE /\ cycle' = [cycle EXCEPT !.at = "gateways"]
          /\ queue' = Pop(queue) /\ UNCHANGED batcherVars
  /\ UNCHANGED <<reconcilerVars, worldVars, signals, registered, stopping, active,
                 failures, restarts, lost>>

BatchFlushed ==
  /\ cycle.at = "flush" /\ Free
  /\ cycle' = [cycle EXCEPT !.at = "gateways"]
  /\ queue' = Pop(queue)
  /\ UNCHANGED <<reconcilerVars, batcherVars, worldVars, signals, registered, stopping,
                 active, failures, restarts, lost>>

----------------------------------------------------------------------------
(* syncAllGateways: missing listeners are created, orphaned ones deleted; a  *)
(* listener that exists is left as it is. A failing call skips its listener. *)
ListGateways ==
  /\ cycle.at = "gateways" /\ Free
  /\ \/ /\ cycle' = [cycle EXCEPT !.at = "create", !.todo = gateways, !.listed = gateways]
        /\ UNCHANGED failures
     \/ Failing /\ cycle' = [cycle EXCEPT !.at = "orphans"]
  /\ UNCHANGED <<reconcilerVars, batcherVars, worldVars, signals, queue, registered,
                 stopping, active, restarts, lost>>

ListenerCall(l, listeners) ==
  /\ l \in cycle.todo /\ Free
  /\ cycle' = [cycle EXCEPT !.todo = @ \ {l}]
  /\ \/ /\ ~stopping
        /\ store' = [store EXCEPT !.listeners = listeners]
        /\ signals' = IF store' = store THEN 0 ELSE 1
        /\ UNCHANGED <<failures, lost>>
     \/ Failing /\ UNCHANGED <<store, signals, lost>>
     \/ /\ ~stopping /\ Failing /\ listeners # store.listeners
        /\ store' = [store EXCEPT !.listeners = listeners]
        /\ lost' = TRUE /\ UNCHANGED signals
  /\ UNCHANGED <<refCount, routeDestMap, job, batcherVars, worldVars, queue, registered,
                 stopping, active, restarts>>

CreateListener(l) == cycle.at = "create" /\ ListenerCall(l, store.listeners \cup {l})

DeleteListener(l) == cycle.at = "orphans" /\ ListenerCall(l, store.listeners \ {l})

\* The Gateways are done with, and so are the orphans.
ListOrphans ==
  /\ cycle.at = "create" /\ cycle.todo = {} /\ Free
  /\ \/ /\ ~stopping /\ UNCHANGED failures
        /\ cycle' = [cycle EXCEPT !.at = "orphans", !.todo = store.listeners \ cycle.listed]
     \/ Failing /\ cycle' = [cycle EXCEPT !.at = "orphans"]
  /\ UNCHANGED <<reconcilerVars, batcherVars, worldVars, signals, queue, registered,
                 stopping, active, restarts, lost>>

\* gcOrphanedGroups, unless a batch blocks: the groups no object asks for. A
\* list that fails ends it.
ListGroups ==
  /\ cycle.at = "orphans" /\ cycle.todo = {} /\ Free
  /\ \/ /\ ~stopping /\ UNCHANGED failures
        /\ cycle' = [cycle EXCEPT !.at = "delete", !.todo =
             IF cycle.blocking THEN {}
             ELSE {k \in Keys : store.groups[k] # Absent} \ cycle.desired]
     \/ Failing /\ cycle' = [cycle EXCEPT !.at = "delete"]
  /\ UNCHANGED <<reconcilerVars, batcherVars, worldVars, signals, queue, registered,
                 stopping, active, restarts, lost>>

DeleteOrphan(k) ==
  /\ cycle.at = "delete" /\ k \in cycle.todo /\ Free
  /\ cycle' = [cycle EXCEPT !.todo = @ \ {k}]
  /\ BeginDelete(k)
  /\ UNCHANGED <<store, refCount, routeDestMap, batcherVars, worldVars, signals, queue,
                 registered, stopping, active, failures, restarts, lost>>

\* The first cycle is followed by a flush; once ctx is done the loop returns
\* and run flushes with a context of its own.
EndCycle ==
  /\ cycle.at = "delete" /\ cycle.todo = {} /\ Free
  /\ IF cycle.first THEN Flush ELSE UNCHANGED batcherVars
  /\ cycle' = [Down EXCEPT !.at = "idle", !.first = FALSE]
  /\ UNCHANGED <<reconcilerVars, worldVars, signals, queue, registered, stopping, active,
                 failures, restarts, lost>>

LoopReturns ==
  /\ cycle.at = "idle" /\ stopping /\ Free
  /\ Flush
  /\ cycle' = [cycle EXCEPT !.at = "final"]
  /\ UNCHANGED <<reconcilerVars, worldVars, signals, queue, registered, stopping, active,
                 failures, restarts, lost>>

----------------------------------------------------------------------------
(* The batcher's two calls, by the loop or by the timer's goroutine. All but *)
(* the last flush use ctx.                                                   *)
Allowed == ~stopping \/ (holder = "loop" /\ cycle.at = "final")

CreateSnapshot ==
  /\ Allowed /\ SnapshotCreated(store)
  /\ UNCHANGED <<reconcilerVars, worldVars, loopVars, active, failures, restarts, lost>>

ActivateSnapshot ==
  /\ Allowed /\ SnapshotActivated
  /\ active' = created
  /\ lost' = (lost /\ created # store)
  /\ UNCHANGED <<reconcilerVars, worldVars, loopVars, failures, restarts>>

FailingFlush ==
  /\ \/ ~Allowed /\ UNCHANGED failures
     \/ failures + restarts < MaxFaults /\ failures' = failures + 1
  /\ FlushFailed
  /\ active' \in {active} \cup (IF created = NoSnapshot \/ ~Allowed THEN {} ELSE {created})
  /\ UNCHANGED <<reconcilerVars, worldVars, loopVars, restarts, lost>>

Timer ==
  /\ TimerExpires \/ TimerCallback
  /\ UNCHANGED <<reconcilerVars, worldVars, loopVars, active, failures, restarts, lost>>

----------------------------------------------------------------------------
(* The end of the process, asked for or not.                                 *)
Terminate ==
  /\ cycle.at # "down" /\ ~stopping /\ failures + restarts < MaxFaults
  /\ stopping' = TRUE /\ restarts' = restarts + 1
  /\ UNCHANGED <<reconcilerVars, batcherVars, worldVars, cycle, signals, queue, registered,
                 active, failures, lost>>

\* What the process knew is gone; changes it had not published yet are in the
\* store all the same.
ProcessEnds ==
  /\ cycle' = Down /\ signals' = 0 /\ queue' = EmptyQueue /\ registered' = {}
  /\ stopping' = FALSE /\ job' = NoJob
  /\ refCount' = [d \in Dests |-> 0] /\ routeDestMap' = [r \in RouteIds |-> Absent]
  /\ pending' = 0 /\ timer' = FALSE /\ callbacks' = 0
  /\ holder' = "nobody" /\ created' = NoSnapshot
  /\ lost' = (active # store /\ (active # NoSnapshot \/ store # EmptyStore))
  /\ UNCHANGED <<store, worldVars, active, failures>>

Exit == cycle.at = "final" /\ Free /\ ProcessEnds /\ UNCHANGED restarts

Crash ==
  /\ cycle.at # "down" /\ failures + restarts < MaxFaults
  /\ restarts' = restarts + 1 /\ ProcessEnds

----------------------------------------------------------------------------
LoopStep ==
  \/ BeginCycle \/ ListFails \/ ReconcileMember \/ Call \/ FailingCall \/ JobReturns
  \/ SignalChange \/ MembersDone \/ BatchFlushed
  \/ ListGateways \/ ListOrphans
  \/ \E l \in Listeners : CreateListener(l) \/ DeleteListener(l)
  \/ ListGroups
  \/ \E k \in Keys : DeleteOrphan(k)
  \/ EndCycle \/ LoopReturns \/ Exit

Elapse == Timer \/ \E n \in DOMAIN queue.items : IdleRunsOut(n)

FlushStep == CreateSnapshot \/ ActivateSnapshot \/ FailingFlush

Next ==
  \/ \E k \in Keys : \E input \in InputsOf[k] \cup {Absent} : Edit(k, input)
  \/ \E l \in Listeners : EditGateway(l)
  \/ \E answer \in {"ok", "lost"} : Start(answer)
  \/ LoopStep \/ FlushStep \/ Elapse
  \/ Terminate \/ Crash

Spec == Init /\ [][Next]_vars

(* The process is started again and its loop goes on by its ticker; time     *)
(* passes, and the goroutine that flushes goes on with its calls.            *)
Fairness ==
  /\ WF_vars(LoopStep \/ \E answer \in {"ok", "lost"} : Start(answer))
  /\ WF_vars(FlushStep \/ Elapse)

FairSpec == Spec /\ Fairness

----------------------------------------------------------------------------
(* ApplyHTTPRoute writes referenced entities first and deletes them last,    *)
(* DeleteHTTPRoute deletes the group first: at every moment, also halfway    *)
(* through a job that failed or was cut off by a crash, groups name stored   *)
(* routes and routes name stored middlewares.                                *)
StoreClosed ==
  /\ \A k \in Keys : store.groups[k] # Absent => store.groups[k] \subseteq Stored
  /\ \A r \in Stored : store.routes[r].mws \subseteq store.mws

(* RefCount never counts fewer routes than routeDestMap lists for a          *)
(* destination, and a destination listed for a stored route is not deleted.  *)
DestinationsKept ==
  /\ \A d \in Dests : refCount[d] >= Cardinality({r \in RouteIds : d \in Tracked(r)})
  /\ \A r \in Stored : Tracked(r) \subseteq store.dests

Published == active = store \/ (active = NoSnapshot /\ store = EmptyStore)

Quiet == cycle.at = "idle" /\ Free /\ holder = "nobody" /\ ~timer /\ callbacks = 0

(* When the controller rests, the proxies' configuration is what it wrote to *)
(* the store, unless a failed call or a crash kept changes from being        *)
(* signalled, or a flush failed: Signal and flushLocked lose no change that  *)
(* is made while a snapshot is being created.                                *)
PublishedUnlessLost ==
  Quiet => Published \/ lost \/ (pending > 0 /\ (failures > 0 \/ stopping))

(* Every queued route leaves the queue, although a group at the head holds   *)
(* back all others until it is complete or idle.                             *)
QueueDrains == \A k \in Keys : []<>(k \notin QueuedRefs(queue))

(* What was written is published again and again, unless changes were lost   *)
(* or a flush failed, or the process is being stopped.                       *)
EventuallyPublished == []<>(Published \/ lost \/ stopping \/ (pending > 0 /\ failures > 0))

(* .agents/CONTROLLER_DECISIONS.md: "a destination is only deleted when no   *)
(* owned route references it anymore".                                       *)
DeletedUnreferenced ==
  [][\A d \in store.dests \ store'.dests :
       \A r \in Stored : d \notin store.routes[r].dests]_vars
=============================================================================
