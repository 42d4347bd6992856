------------------------------- MODULE Gateway -------------------------------
(***************************************************************************)
(* The control plane's embedded gateway                                    *)
(* (server/internal/gateway/gateway.go): an event loop that, on every      *)
(* store event, re-reads every bucket with one List call each, builds a    *)
(* routing table, swaps it in and reconciles the listeners.  Kubernetes    *)
(* informer goroutines (server/internal/k8s/watcher.go) call the same      *)
(* rebuild, unsynchronised, through OnChange.                              *)
(***************************************************************************)
EXTENDS ConfigStore

CONSTANTS
  Watchers,       \* informer goroutines of the k8s watcher; {} without k8s
  BadValues,      \* destination contents whose TLS settings do not load
  Dumps           \* dumps Raft may restore on this node; {} without Raft

Loop == "gateway"

ASSUME LoopAssumption == Loop \in Subscribers /\ Loop \notin Watchers

\* The order in which rebuild reads its inputs.
ReadOrder ==
  [listeners |-> 1, middlewares |-> 2, groups |-> 3, routes |-> 4,
   destinations |-> 5, endpoints |-> 6]

Sources == DOMAIN ReadOrder
Buckets == Sources \ {"endpoints"}

ASSUME DumpsAssumption == Dumps \subseteq Content
ASSUME BucketsAssumption == Buckets \subseteq Kinds

Rebuilders == {Loop} \cup Watchers

\* Values of step beside the reads, which are numbered by ReadOrder.
Unstarted == 0
Building == 7
Reconciling == 8
Idle == 9

VARIABLES
  step,           \* step[r]: the next step of rebuilder r
  got,            \* got[r][s]: what r's current or last rebuild read from s
  running,        \* what the router and the listener manager run now
  discovered,     \* the watcher's map of destination id to endpoints
  last,           \* history: who started the latest rebuild
  overlap,        \* history: the latest rebuild began while another one ran
  unannounced     \* history: since it began, an input changed and nobody was told

history == <<last, overlap, unannounced>>
gatewayVars == <<step, got, running, discovered, history>>
vars == <<storeVars, gatewayVars>>

Current(s) == IF s = "endpoints" THEN discovered ELSE data[s]

TypeOK ==
  /\ StoreTypeOK
  /\ step \in [Rebuilders -> 0..9]
  /\ got \in [Rebuilders -> [Sources -> Collection]]
  /\ running \in [Sources -> Collection]
  /\ discovered \in Collection
  /\ last \in Rebuilders
  /\ overlap \in BOOLEAN
  /\ unannounced \in BOOLEAN

Init ==
  /\ StoreInit
  /\ step = [r \in Rebuilders |-> IF r = Loop THEN Unstarted ELSE Idle]
  /\ got = [r \in Rebuilders |-> [s \in Sources |-> EmptyCollection]]
  /\ running = [s \in Sources |-> EmptyCollection]
  /\ discovered = EmptyCollection
  /\ last = Loop
  /\ overlap = FALSE
  /\ unannounced = FALSE

----------------------------------------------------------------------------
\* Rebuilder r enters rebuild, which takes no lock.
Begin(r) ==
  /\ step' = [step EXCEPT ![r] = 1]
  /\ last' = r
  /\ overlap' = (\E q \in Rebuilders \ {r} : step[q] \in 1..8)
  /\ unannounced' = FALSE

\* Run subscribes before its initial rebuild.
RunStart ==
  /\ step[Loop] = Unstarted
  /\ Subscribe(Loop)
  /\ Begin(Loop)
  /\ UNCHANGED <<got, running, discovered>>

\* Mutant of RunEvent: events of one resource do not start a rebuild.
RunEventSkips ==
  /\ step[Loop] = Idle
  /\ Receive(Loop)
  /\ IF Head(chan[Loop]) = "middlewares" THEN UNCHANGED <<step, history>>
                                         ELSE Begin(Loop)
  /\ UNCHANGED <<got, running, discovered>>

\* Run takes an event, of whatever resource, and starts a rebuild.
RunEvent ==
  /\ step[Loop] = Idle
  /\ Receive(Loop)
  /\ Begin(Loop)
  /\ UNCHANGED <<got, running, discovered>>

\* Mutant of Read: a source that was read before is not read again.
ReadCached(r, s) ==
  /\ step[r] = ReadOrder[s]
  /\ got' = [got EXCEPT ![r][s] = IF @ = EmptyCollection THEN Current(s) ELSE @]
  /\ step' = [step EXCEPT ![r] = @ + 1]
  /\ UNCHANGED <<storeVars, running, discovered, history>>

\* One List call, or the watcher's Endpoints().
Read(r, s) ==
  /\ step[r] = ReadOrder[s]
  /\ got' = [got EXCEPT ![r][s] = Current(s)]
  /\ step' = [step EXCEPT ![r] = @ + 1]
  /\ UNCHANGED <<storeVars, running, discovered, history>>

\* BuildTable fails only when a destination pool cannot be created.
CanBuild(c) == \A i \in Ids : c["destinations"][i] \notin BadValues

\* BuildTable and, unless it fails, SwapTable.
Swap(r) ==
  /\ step[r] = Building
  /\ IF CanBuild(got[r])
     THEN /\ running' = [s \in Sources |->
                           IF s = "listeners" THEN running[s] ELSE got[r][s]]
          /\ step' = [step EXCEPT ![r] = Reconciling]
     ELSE /\ step' = [step EXCEPT ![r] = Idle]
          /\ UNCHANGED running
  /\ UNCHANGED <<storeVars, got, discovered, history>>

\* ListenerManager.Reconcile with the listeners of the same rebuild.
Reconcile(r) ==
  /\ step[r] = Reconciling
  /\ running' = [running EXCEPT !["listeners"] = got[r]["listeners"]]
  /\ step' = [step EXCEPT ![r] = Idle]
  /\ UNCHANGED <<storeVars, got, discovered, history>>

\* onEvent: an informer stores the new endpoints, or that there are none, and
\* calls OnChange.
EndpointsChanged(g, i, v) ==
  /\ step[g] = Idle
  /\ writes < MaxWrites
  /\ writes' = writes + 1
  /\ discovered' = [discovered EXCEPT ![i] = v]
  /\ Begin(g)
  /\ UNCHANGED <<data, snapshots, active, issued, unpublished, subscribed,
                 chan, got, running>>

\* The endpoints of i are forgotten and OnChange is not called.
Forget(i) ==
  /\ discovered[i] # Absent
  /\ discovered' = [discovered EXCEPT ![i] = Absent]
  /\ unannounced' = TRUE
  /\ UNCHANGED <<storeVars, step, got, running, last, overlap>>

\* onEvent of an ExternalName Service whose name was cleared or type changed.
ExternalNameCleared(g, i) == step[g] = Idle /\ Forget(i)

\* The watcher's loop stops the watch of a destination that is no longer
\* there, or no longer discovered; module K8sWatcher says when.
WatchRemoved(i) == Forget(i)

RebuildStep(r) ==
  \/ \E s \in Sources : Read(r, s)
  \/ Swap(r)
  \/ Reconcile(r)

StoreStep ==
  /\ \E w \in Writers : EntityWrite(w) \/ SnapshotWrite(w) \/ publish(w)
  /\ UNCHANGED gatewayVars

\* Raft installs a leader's dump on this node.
RestoreStep ==
  /\ \E c \in Dumps : Restore(c, snapshots)
  /\ unannounced' = TRUE
  /\ UNCHANGED <<step, got, running, discovered, last, overlap>>

WatcherStep ==
  \E g \in Watchers, i \in Ids :
    \/ \E v \in Values \cup {Absent} : EndpointsChanged(g, i, v)
    \/ ExternalNameCleared(g, i)
    \/ WatchRemoved(i)

Next ==
  \/ StoreStep
  \/ RestoreStep
  \/ RunStart
  \/ RunEvent
  \/ \E r \in Rebuilders : RebuildStep(r)
  \/ WatcherStep

\* The Go scheduler runs every goroutine that can run; clients owe nothing.
Fairness ==
  /\ WF_vars(RunStart)
  /\ WF_vars(RunEvent)
  /\ \A r \in Rebuilders : WF_vars(RebuildStep(r))
  /\ \A w \in Writers : WF_vars(publish(w) /\ UNCHANGED gatewayVars)

Spec == Init /\ [][Next]_vars
FairSpec == Spec /\ Fairness
----------------------------------------------------------------------------
AllIdle == \A r \in Rebuilders : step[r] = Idle

\* Nothing is left to do: no rebuild runs, no event waits or is to come.
Quiescent == AllIdle /\ chan[Loop] = << >> /\ AllPublished

\* What runs is what the store and the watcher hold.
UpToDate == \A s \in Sources : running[s] = Current(s)

(* "Gateway ... keeps the proxy config up to date" (gateway.go): although  *)
(* publish drops events, the five buckets are read one by one and a build  *)
(* may fail, a gateway at rest runs the current configuration, unless the  *)
(* current configuration is one that cannot be built.                      *)
QuiescentUpToDate == Quiescent => (CanBuild(data) => UpToDate)

(* The same with informer goroutines and Restore in play, as long as the   *)
(* latest rebuild began alone and no input has changed since without an    *)
(* event or a call of OnChange: a rebuild that lost a race, a Restore and  *)
(* endpoints the watcher forgets are the only ways to go stale, and the    *)
(* next rebuild that runs alone mends them.                                *)
SerialUpToDate == ~overlap /\ ~unannounced => QuiescentUpToDate

(* After the last write the loop works off its channel and comes to rest   *)
(* with the current configuration, with the same exceptions.               *)
EventuallyUpToDate ==
  <>[](overlap \/ unannounced \/ (CanBuild(data) => UpToDate))
=============================================================================
