-------------------------- MODULE K8sWatcherProofs --------------------------
(***************************************************************************)
(* K8sWatcher for every set of destinations, Services and changes: watches *)
(* are owned and those the store asks for, and the endpoint map and the    *)
(* gateway follow the cluster.  Leaves that need no arithmetic are left to *)
(* Zenon.                                                                  *)
(***************************************************************************)
EXTENDS K8sWatcher, ConfigStoreProofs, FiniteSetTheorems

----------------------------------------------------------------------------
(* The inductive invariant.                                                *)

\* Run has a reconcile to do that it has not begun, or a dropped event has
\* taken it away.
Pending ==
  \/ missed
  \/ \E w \in Writers : unpublished[w] = "destinations"
  \/ \E n \in 1 .. Len(chan[Watcher]) : chan[Watcher][n] = "destinations"

Matches(ds) ==
  \A i \in Ids : /\ cancels[i] # 0 => isEDS(ds[i])
                 /\ Watchable(ds, i) /\ i \notin failed => cancels[i] # 0

\* What reconcile has listed is the store's until another event is on its way.
Reconciled ==
  /\ run \in {"list", "apply", "loop"} => Watcher \in subscribed
  /\ run = "apply" => Pending \/ desired = data["destinations"]
  /\ run = "loop" => Pending \/ Matches(data["destinations"])

\* The endpoints a watch ends up with when it sees no more.
Wanted(w) ==
  IF w.kind = "slices" THEN buildEndpoints(w.port, w.view) ELSE externalEndpoints(w.port, w.view)

\* A watch record w that runs has brought what it saw to the handler, to the
\* lock, or to the endpoint map.
Informed(w) ==
  /\ w.queue # << >> => w.queue[Len(w.queue)] = w.view
  /\ ~w.cancelled /\ w.queue = << >> =>
       IF w.pc = "lock" THEN w.eps = Wanted(w)
       ELSE w.dest \in late \/ endpoints[w.dest] = Wanted(w)

AllInformed == \A x \in DOMAIN watch : Informed(watch[x])

\* Endpoints without a watch were written by a handler that came late.
Forgotten == \A i \in Ids : cancels[i] = 0 => i \in late \/ endpoints[i] = {}

\* The gateway has the endpoint map, or will have.
Installed(i) ==
  \/ installed[i] = endpoints[i]
  \/ i \in silent
  \/ \E y \in DOMAIN watch : watch[y].dest = i /\ watch[y].pc = "notify"

Rebuilt ==
  IF run = "stopped" THEN \A i \in Ids : cancels[i] = 0 ELSE \A i \in Ids : Installed(i)

IInv ==
  TypeOK /\ WatchesOwned /\ Reconciled /\ AllInformed /\ Forgotten /\ Rebuilt

----------------------------------------------------------------------------
(* Steps of the store, the cluster and the gateway.                        *)

\* The invariant with the part of it that looks at the store replaced: steps
\* of the store leave watches, endpoints and the gateway alone.
LEMMA WatchesKept ==
  ASSUME IInv, run' = "stopped" <=> run = "stopped",
         UNCHANGED <<watch, cancels, endpoints, installed, late, silent>>
  PROVE  WatchesOwned' /\ AllInformed' /\ Forgotten' /\ Rebuilt'
<1>1. WatchesOwned'
  BY Zenon DEF IInv, WatchesOwned, Live
<1>2. AllInformed'
  BY Zenon DEF IInv, AllInformed, Informed, Wanted
<1>3. Forgotten' /\ Rebuilt'
  BY Zenon DEF IInv, Forgotten, Rebuilt, Installed
<1> QED BY Zenon, <1>1, <1>2, <1>3

\* A write of a destination is on its way to Run; other writes leave what
\* reconcile lists as it is.
LEMMA WriteStep ==
  ASSUME IInv, NEW w \in Writers, Write(w)
  PROVE  IInv'
<1>1. AnyWrite(w) /\ UNCHANGED <<world, run, desired, watch, cancels, endpoints, installed, ghosts>>
  BY Zenon DEF Write, AnyWrite
<1>2. StoreTypeOK' /\ UNCHANGED <<subscribed, chan>>
  BY Zenon, <1>1, WriteFact DEF IInv, TypeOK
<1>3. TypeOK'
  BY Zenon, <1>1, <1>2 DEF IInv, TypeOK, world, ghosts
<1>4. WatchesOwned' /\ AllInformed' /\ Forgotten' /\ Rebuilt'
  BY Zenon, <1>1, WatchesKept DEF ghosts
<1>5. \/ unpublished'[w] = "destinations"
      \/ data'["destinations"] = data["destinations"]
         /\ \A v \in Writers : unpublished[v] = "destinations" => unpublished'[v] = "destinations"
  <2>1. data \in Content /\ unpublished \in [Writers -> Events \cup {Absent}]
    BY Zenon DEF IInv, TypeOK, StoreTypeOK
  <2>2. PICK k \in Kinds, i \in Ids :
          Commit(w, k) /\ \E v : data' = [data EXCEPT ![k][i] = v]
    BY Zenon DEF Write, EntityWrite, Save, Delete
  <2>3. unpublished'[w] = k /\ \A v \in Writers : unpublished[v] # Absent => unpublished'[v] = unpublished[v]
    BY Zenon, <2>1, <2>2 DEF Commit
  <2>4. k # "destinations" => data'["destinations"] = data["destinations"]
    BY Zenon, <2>1, <2>2, WatcherAssumption DEF Content
  <2>5. "destinations" # Absent
    BY Zenon, WatcherAssumption, AbsentAssumption
  <2> QED BY Zenon, <2>3, <2>4, <2>5
<1>6. Reconciled'
  <2>1. CASE unpublished'[w] = "destinations"
    BY Zenon, <1>1, <1>2, <2>1 DEF IInv, Reconciled, Pending
  <2>2. CASE /\ data'["destinations"] = data["destinations"]
             /\ \A v \in Writers : unpublished[v] = "destinations" => unpublished'[v] = "destinations"
    <3>1. Pending => Pending'
      BY Zenon, <1>1, <1>2, <2>2 DEF Pending, ghosts
    <3> QED BY Zenon, <1>1, <1>2, <2>2, <3>1 DEF IInv, Reconciled, Matches, Watchable, ghosts
  <2> QED BY Zenon, <1>5, <2>1, <2>2
<1> QED BY Zenon, <1>3, <1>4, <1>6 DEF IInv

\* publish: the event of a destination is in Run's channel afterwards, or it
\* was dropped and no other is there.
LEMMA PublishStep ==
  ASSUME IInv, NEW w \in Writers, Publish(w)
  PROVE  IInv'
<1>1. /\ publish(w)
      /\ UNCHANGED <<world, run, desired, watch, cancels, endpoints, installed, failed, late, silent>>
  BY Zenon DEF Publish
<1>2. StoreTypeOK' /\ UNCHANGED <<data, subscribed>>
  BY Zenon, <1>1, PublishFact DEF IInv, TypeOK
<1>3. missed' \in BOOLEAN
  BY Zenon DEF Publish
<1>4. TypeOK'
  BY Zenon, <1>1, <1>2, <1>3 DEF IInv, TypeOK, world
<1>5. WatchesOwned' /\ AllInformed' /\ Forgotten' /\ Rebuilt'
  BY Zenon, <1>1, WatchesKept
<1>6. ASSUME Pending, Watcher \in subscribed PROVE Pending'
  <2>1. /\ unpublished \in [Writers -> Events \cup {Absent}] /\ chan[Watcher] \in Seq(Events)
        /\ unpublished[w] \in Events /\ chan'[Watcher] = Offer(chan[Watcher], unpublished[w])
    BY Zenon, <1>1, <1>6, WatcherAssumption DEF publish, IInv, TypeOK, StoreTypeOK
  <2>2. CASE missed
    BY Zenon, <2>2 DEF Publish, Pending
  <2>3. CASE unpublished[w] = "destinations"
    <3>1. missed' \/ "destinations" \in Range(chan'[Watcher])
      BY Zenon, <1>6, <2>3 DEF Publish
    <3>2. chan'[Watcher] \in Seq(Events)
      BY Zenon, <1>2, WatcherAssumption DEF StoreTypeOK
    <3>3. DOMAIN chan'[Watcher] = 1 .. Len(chan'[Watcher])
      BY <3>2
    <3> QED BY Zenon, <3>1, <3>3 DEF Range, Pending
  <2>4. CASE unpublished[w] # "destinations" /\ \E v \in Writers : unpublished[v] = "destinations"
    <3>1. PICK v \in Writers : unpublished[v] = "destinations"
      BY Zenon, <2>4
    <3>2. unpublished'[v] = "destinations"
      BY Zenon, <1>1, <2>1, <2>4, <3>1 DEF publish
    <3> QED BY Zenon, <3>2 DEF Pending
  <2>5. ASSUME NEW n \in 1 .. Len(chan[Watcher]), chan[Watcher][n] = "destinations"
        PROVE  Pending'
    <3>1. n \in 1 .. Len(chan'[Watcher]) /\ chan'[Watcher][n] = "destinations"
      BY <2>1, <2>5 DEF Offer
    <3> QED BY Zenon, <3>1 DEF Pending
  <2> QED BY Zenon, <1>6, <2>2, <2>3, <2>4, <2>5 DEF Pending
<1>7. Reconciled'
  BY Zenon, <1>1, <1>2, <1>6 DEF IInv, Reconciled, Matches, Watchable
<1> QED BY Zenon, <1>4, <1>5, <1>7 DEF IInv

\* Services change: no watch has noticed.
LEMMA ClusterStep ==
  ASSUME IInv, NEW s \in Services, NEW o \in Objects \union {NoObject}, ClusterChange(s, o)
  PROVE  IInv'
<1>1. UNCHANGED <<storeVars, run, desired, watch, cancels, endpoints, installed, ghosts>>
  BY Zenon DEF ClusterChange
<1>2. cluster' \in [Services -> Seen]
  BY Zenon DEF ClusterChange, IInv, TypeOK, Seen
<1>3. TypeOK'
  BY Zenon, <1>1, <1>2 DEF IInv, TypeOK, StoreTypeOK, storeVars, ghosts
<1>4. WatchesOwned' /\ AllInformed' /\ Forgotten' /\ Rebuilt'
  BY Zenon, <1>1, WatchesKept DEF ghosts
<1>5. Reconciled'
  BY Zenon, <1>1 DEF IInv, Reconciled, Pending, Matches, Watchable, storeVars, ghosts
<1> QED BY Zenon, <1>3, <1>4, <1>5 DEF IInv

\* A rebuild installs the endpoint map.
LEMMA RebuildStep ==
  ASSUME IInv, GatewayRebuild
  PROVE  IInv'
<1>1. /\ UNCHANGED <<storeVars, world, run, desired, watch, cancels, endpoints, failed, missed, late>>
      /\ installed' = endpoints /\ silent' = {}
  BY Zenon DEF GatewayRebuild
<1>2. TypeOK'
  BY Zenon, <1>1 DEF IInv, TypeOK, StoreTypeOK, storeVars, world
<1>3. WatchesOwned' /\ AllInformed' /\ Forgotten'
  BY Zenon, <1>1 DEF IInv, WatchesOwned, Live, AllInformed, Informed, Wanted, Forgotten
<1>4. Rebuilt'
  BY Zenon, <1>1 DEF IInv, Rebuilt, Installed
<1>5. Reconciled'
  BY Zenon, <1>1 DEF IInv, Reconciled, Pending, Matches, Watchable, storeVars
<1> QED BY Zenon, <1>2, <1>3, <1>4, <1>5 DEF IInv

----------------------------------------------------------------------------
(* Steps of Run.                                                           *)

\* Run subscribes, and reconciles without waiting for an event.
LEMMA RunStartStep ==
  ASSUME IInv, RunStart
  PROVE  IInv'
<1>1. /\ run = "subscribe" /\ run' = "list" /\ Subscribe(Watcher)
      /\ UNCHANGED <<world, desired, watch, cancels, endpoints, installed, ghosts>>
  BY Zenon DEF RunStart
<1>2. StoreTypeOK' /\ UNCHANGED <<data, unpublished>> /\ Watcher \in subscribed'
  BY Zenon, <1>1, ChannelFact, WatcherAssumption DEF IInv, TypeOK, Subscribe
<1>3. TypeOK'
  BY Zenon, <1>1, <1>2 DEF IInv, TypeOK, world, ghosts
<1>4. WatchesOwned' /\ AllInformed' /\ Forgotten' /\ Rebuilt'
  BY Zenon, <1>1, WatchesKept DEF ghosts
<1>5. Reconciled'
  BY Zenon, <1>1, <1>2 DEF Reconciled
<1> QED BY Zenon, <1>3, <1>4, <1>5 DEF IInv

\* An event that is not about destinations leaves those that are behind it.
LEMMA RunEventStep ==
  ASSUME IInv, RunEvent
  PROVE  IInv'
<1>1. /\ run = "loop" /\ Receive(Watcher)
      /\ run' = IF Head(chan[Watcher]) = "destinations" THEN "list" ELSE "loop"
      /\ UNCHANGED <<world, desired, watch, cancels, endpoints, installed, ghosts>>
  BY Zenon DEF RunEvent
<1>2. StoreTypeOK' /\ UNCHANGED <<data, unpublished, subscribed>>
  BY Zenon, <1>1, ChannelFact, WatcherAssumption DEF IInv, TypeOK, Receive
<1>3. TypeOK'
  BY Zenon, <1>1, <1>2 DEF IInv, TypeOK, world, ghosts
<1>4. WatchesOwned' /\ AllInformed' /\ Forgotten' /\ Rebuilt'
  BY Zenon, <1>1, WatchesKept DEF ghosts
<1>5. ASSUME Pending, Head(chan[Watcher]) # "destinations" PROVE Pending'
  <2>1. /\ chan[Watcher] \in Seq(Events) /\ chan[Watcher] # << >>
        /\ chan'[Watcher] = Tail(chan[Watcher])
    BY Zenon, <1>1, WatcherAssumption DEF Receive, IInv, TypeOK, StoreTypeOK
  <2>2. ASSUME NEW n \in 1 .. Len(chan[Watcher]), chan[Watcher][n] = "destinations"
        PROVE  Pending'
    <3>1. n - 1 \in 1 .. Len(chan'[Watcher]) /\ chan'[Watcher][n - 1] = "destinations"
      BY <1>5, <2>1, <2>2
    <3> QED BY Zenon, <3>1 DEF Pending
  <2> QED BY Zenon, <1>1, <1>2, <1>5, <2>2 DEF Pending, ghosts
<1>6. Reconciled'
  BY Zenon, <1>1, <1>2, <1>5 DEF IInv, Reconciled, Matches, Watchable, ghosts
<1> QED BY Zenon, <1>3, <1>4, <1>6 DEF IInv

\* reconcile lists what the store holds.
LEMMA ListStep ==
  ASSUME IInv, List
  PROVE  IInv'
<1>1. /\ run = "list" /\ run' = "apply" /\ desired' = data["destinations"] /\ missed' = FALSE
      /\ UNCHANGED <<storeVars, world, watch, cancels, endpoints, installed, failed, late, silent>>
  BY Zenon DEF List
<1>2. desired' \in Collection
  BY Zenon, <1>1, WatcherAssumption DEF IInv, TypeOK, StoreTypeOK, Content
<1>3. TypeOK'
  BY Zenon, <1>1, <1>2 DEF IInv, TypeOK, StoreTypeOK, storeVars, world
<1>4. WatchesOwned' /\ AllInformed' /\ Forgotten' /\ Rebuilt'
  BY Zenon, <1>1, WatchesKept
<1>5. Reconciled'
  BY Zenon, <1>1 DEF IInv, Reconciled, storeVars
<1> QED BY Zenon, <1>3, <1>4, <1>5 DEF IInv

----------------------------------------------------------------------------
(* Steps of a watch.                                                       *)

\* Endpoints built from what an informer has seen are endpoints.
LEMMA BuiltType ==
  ASSUME NEW port \in {v.port : v \in Values}, NEW o \in Seen
  PROVE  buildEndpoints(port, o) \in EndpointSets /\ externalEndpoints(port, o) \in EndpointSets
<1>1. CASE o = NoObject
  BY Zenon, <1>1 DEF buildEndpoints, externalEndpoints, EndpointSets
<1>2. CASE o # NoObject
  <2>1. o \in Objects
    BY Zenon, <1>2 DEF Seen
  <2> DEFINE addresses == UNION {u.ready : u \in Objects}
             ports == {v.port : v \in Values} \union {u.port : u \in Objects}
  <2>2. o.ready \subseteq addresses /\ port \in ports /\ o.port \in ports
    BY Zenon, <2>1
  <2>3. \A q \in ports : {<<a, q>> : a \in o.ready} \subseteq addresses \X ports
    BY <2>2
  <2>4. \A q \in ports : {<<a, q>> : a \in o.ready} \in EndpointSets
    BY Zenon, <2>3 DEF EndpointSets
  <2>5. externalEndpoints(port, o) \in EndpointSets
    <3>1. {} \in EndpointSets
      BY Zenon DEF EndpointSets
    <3> QED BY Zenon, <2>2, <2>4, <3>1 DEF externalEndpoints
  <2>6. buildEndpoints(port, o) \in EndpointSets
    <3>1. (IF o.port # 0 THEN o.port ELSE port) \in ports
      BY Zenon, <2>2
    <3>2. buildEndpoints(port, o) = {<<a, IF o.port # 0 THEN o.port ELSE port>> : a \in o.ready}
      BY Zenon, <1>2 DEF buildEndpoints
    <3> HIDE DEF ports
    <3> QED BY Zenon, <2>4, <3>1, <3>2
  <2> QED BY Zenon, <2>5, <2>6
<1> QED BY Zenon, <1>1, <1>2

\* Append ends a sequence with what it appends.
LEMMA AppendLast ==
  ASSUME NEW S, NEW q \in Seq(S), NEW e \in S
  PROVE  Append(q, e) \in Seq(S) /\ Append(q, e) # << >> /\ Append(q, e)[Len(Append(q, e))] = e
OBVIOUS

\* Head and Tail take a sequence apart; its last element is that of its tail,
\* or its head.
LEMMA TailLast ==
  ASSUME NEW S, NEW q \in Seq(S), q # << >>
  PROVE  /\ Head(q) \in S /\ Tail(q) \in Seq(S)
         /\ Tail(q) = << >> => Head(q) = q[Len(q)]
         /\ Tail(q) # << >> => Tail(q)[Len(Tail(q))] = q[Len(q)]
<1>1. Head(q) \in S /\ Tail(q) \in Seq(S) /\ Len(Tail(q)) = Len(q) - 1 /\ Len(q) \in Nat \ {0}
  OBVIOUS
<1>2. Tail(q) = << >> => Head(q) = q[Len(q)]
  <2>1. Tail(q) = << >> => Len(q) = 1
    BY <1>1
  <2> QED BY <2>1
<1>3. Tail(q) # << >> => Tail(q)[Len(Tail(q))] = q[Len(q)]
  BY <1>1
<1> QED BY Zenon, <1>1, <1>2, <1>3

\* A watch that changes and keeps its destination and whether it runs is
\* owned as before.
LEMMA WatchUpdate ==
  ASSUME TypeOK, WatchesOwned, NEW x \in DOMAIN watch, NEW r \in Watches,
         r.dest = watch[x].dest, r.cancelled = watch[x].cancelled,
         watch' = [watch EXCEPT ![x] = r], cancels' = cancels
  PROVE  /\ watch' \in Seq(Watches) /\ cancels' \in [Ids -> 0 .. Len(watch')]
         /\ DOMAIN watch' = DOMAIN watch /\ watch'[x] = r
         /\ \A y \in DOMAIN watch : y # x => watch'[y] = watch[y]
         /\ WatchesOwned'
<1>1. watch \in Seq(Watches) /\ cancels \in [Ids -> 0 .. Len(watch)]
  BY Zenon DEF TypeOK
<1>2. watch' \in Seq(Watches) /\ Len(watch') = Len(watch)
  BY <1>1
<1>3. /\ DOMAIN watch' = DOMAIN watch /\ watch'[x] = r
      /\ \A y \in DOMAIN watch : y # x => watch'[y] = watch[y]
  BY Zenon
<1>4. \A y \in DOMAIN watch : watch'[y].dest = watch[y].dest /\ watch'[y].cancelled = watch[y].cancelled
  BY Zenon, <1>3
<1>5. \A i \in Ids : cancels[i] # 0 => cancels[i] \in DOMAIN watch
  BY <1>1
<1>6. WatchesOwned'
  <2>1. \A y \in DOMAIN watch' : ~watch'[y].cancelled <=> cancels'[watch'[y].dest] = y
    BY <1>3, <1>4 DEF WatchesOwned, Live
  <2>2. \A i \in Ids : cancels'[i] # 0 => watch'[cancels'[i]].dest = i
    BY Zenon, <1>4, <1>5 DEF WatchesOwned
  <2> QED BY Zenon, <2>1, <2>2 DEF WatchesOwned, Live
<1> QED BY Zenon, <1>1, <1>2, <1>3, <1>6

\* What reconcile has done does not depend on what watches do.
LEMMA ReconciledKept ==
  ASSUME IInv, UNCHANGED <<storeVars, run, desired, cancels, failed, missed>>
  PROVE  Reconciled'
BY Zenon DEF IInv, Reconciled, Pending, Matches, Watchable, storeVars

\* What is known of the watch that takes a step.
LEMMA WatchFacts ==
  ASSUME IInv, NEW x \in DOMAIN watch
  PROVE  watch[x] \in Watches /\ Informed(watch[x])
<1>1. watch \in Seq(Watches)
  BY Zenon DEF IInv, TypeOK
<1> QED BY <1>1 DEF IInv, AllInformed

\* The informer sees a change: an event for the handler.
LEMMA ObserveStep ==
  ASSUME IInv, NEW x \in DOMAIN watch, Observe(x)
  PROVE  IInv'
<1> DEFINE w == watch[x]
           object == See(w.kind, cluster[w.svc])
           r == [w EXCEPT !.view = object, !.queue = Append(@, object)]
<1>1. /\ watch' = [watch EXCEPT ![x].view = object, ![x].queue = Append(@, object)]
      /\ UNCHANGED <<storeVars, world, run, desired, cancels, endpoints, installed, ghosts>>
  BY Zenon DEF Observe
<1>2. w \in Watches /\ cluster \in [Services -> Seen]
  BY Zenon, WatchFacts DEF IInv, TypeOK
<1>3. object \in Seen
  <2>1. w.svc \in Services
    BY Zenon, <1>2 DEF Watches
  <2> QED BY Zenon, <1>2, <2>1 DEF See, Seen
<1> HIDE DEF object
<1>4. /\ r \in Watches /\ r.dest = w.dest /\ r.cancelled = w.cancelled /\ r.pc = w.pc
      /\ r.view = object /\ r.queue = Append(w.queue, object) /\ w.queue \in Seq(Seen)
  <2>1. w.queue \in Seq(Seen)
    BY Zenon, <1>2 DEF Watches
  <2>2. Append(w.queue, object) \in Seq(Seen)
    BY Zenon, <1>3, <2>1, AppendLast
  <2> QED BY Zenon, <1>2, <1>3, <2>1, <2>2 DEF Watches
<1>5. watch' = [watch EXCEPT ![x] = r]
  BY Zenon, <1>1, <1>2
<1> HIDE DEF r
<1>6. /\ watch' \in Seq(Watches) /\ cancels' \in [Ids -> 0 .. Len(watch')]
      /\ DOMAIN watch' = DOMAIN watch /\ watch'[x] = r
      /\ \A y \in DOMAIN watch : y # x => watch'[y] = watch[y]
      /\ WatchesOwned'
  BY Zenon, <1>1, <1>4, <1>5, WatchUpdate DEF IInv
<1>7. TypeOK'
  BY Zenon, <1>1, <1>6 DEF IInv, TypeOK, StoreTypeOK, storeVars, world, ghosts
<1>8. AllInformed'
  <2>1. r.queue # << >> /\ r.queue[Len(r.queue)] = r.view
    <3>1. Append(w.queue, object) # << >> /\ Append(w.queue, object)[Len(Append(w.queue, object))] = object
      BY Zenon, <1>3, <1>4, AppendLast
    <3> QED BY Zenon, <1>4, <3>1
  <2>2. Informed(watch[x])'
    BY Zenon, <1>6, <2>1 DEF Informed
  <2>3. ASSUME NEW y \in DOMAIN watch, y # x PROVE Informed(watch[y])'
    BY Zenon, <1>1, <1>6, <2>3, WatchFacts DEF Informed, Wanted, ghosts
  <2> QED BY Zenon, <1>6, <2>2, <2>3 DEF AllInformed
<1>9. Forgotten' /\ Rebuilt'
  <2>1. \A y \in DOMAIN watch : watch'[y].dest = watch[y].dest /\ watch'[y].pc = watch[y].pc
    BY Zenon, <1>4, <1>6
  <2>2. \A i \in Ids : Installed(i) => Installed(i)'
    BY Zenon, <1>1, <1>6, <2>1 DEF Installed, ghosts
  <2> QED BY Zenon, <1>1, <2>2 DEF IInv, Forgotten, Rebuilt, ghosts
<1>10. Reconciled'
  BY Zenon, <1>1, ReconciledKept DEF ghosts
<1> QED BY Zenon, <1>6, <1>7, <1>8, <1>9, <1>10 DEF IInv

\* The handler is called.  With its last event taken, it has what the watch
\* has seen, whether it looks at the informer's store or at the event.
LEMMA OnEventStep ==
  ASSUME IInv, NEW x \in DOMAIN watch, OnEvent(x)
  PROVE  IInv'
<1> DEFINE w == watch[x]
           object == Head(w.queue)
           eps == IF w.kind = "slices" THEN buildEndpoints(w.port, w.view)
                  ELSE externalEndpoints(w.port, object)
           quiet == w.kind = "external" /\ object # NoObject /\ externalEndpoints(w.port, object) = {}
           r == [w EXCEPT !.queue = Tail(@), !.pc = "lock", !.eps = eps, !.quiet = quiet]
<1>1. /\ w.pc = "idle" /\ w.queue # << >>
      /\ watch' = [watch EXCEPT ![x].queue = Tail(@), ![x].pc = "lock", ![x].eps = eps, ![x].quiet = quiet]
      /\ UNCHANGED <<storeVars, world, run, desired, cancels, endpoints, installed, ghosts>>
  BY Zenon DEF OnEvent
<1>2. w \in Watches /\ Informed(w)
  BY Zenon, WatchFacts
<1>3. /\ w.queue \in Seq(Seen) /\ w.port \in {v.port : v \in Values} /\ w.view \in Seen
      /\ w.kind \in {"slices", "external"}
  BY Zenon, <1>2 DEF Watches
<1>4. object \in Seen /\ Tail(w.queue) \in Seq(Seen) /\ (Tail(w.queue) = << >> => object = w.queue[Len(w.queue)])
  BY Zenon, <1>1, <1>3, TailLast
<1>5. eps \in EndpointSets /\ quiet \in BOOLEAN
  BY Zenon, <1>3, <1>4, BuiltType
<1>6. Tail(w.queue) = << >> => eps = Wanted(w)
  BY Zenon, <1>1, <1>2, <1>4 DEF Informed, Wanted
<1> HIDE DEF object, eps, quiet
<1>7. /\ r \in Watches /\ r.dest = w.dest /\ r.cancelled = w.cancelled /\ r.pc = "lock"
      /\ r.view = w.view /\ r.kind = w.kind /\ r.port = w.port /\ r.queue = Tail(w.queue) /\ r.eps = eps
  BY Zenon, <1>2, <1>4, <1>5 DEF Watches
<1>8. watch' = [watch EXCEPT ![x] = r]
  BY Zenon, <1>1, <1>2
<1> HIDE DEF r
<1>9. /\ watch' \in Seq(Watches) /\ cancels' \in [Ids -> 0 .. Len(watch')]
      /\ DOMAIN watch' = DOMAIN watch /\ watch'[x] = r
      /\ \A y \in DOMAIN watch : y # x => watch'[y] = watch[y]
      /\ WatchesOwned'
  BY Zenon, <1>1, <1>7, <1>8, WatchUpdate DEF IInv
<1>10. TypeOK'
  BY Zenon, <1>1, <1>9 DEF IInv, TypeOK, StoreTypeOK, storeVars, world, ghosts
<1>11. AllInformed'
  <2>1. r.queue # << >> => r.queue[Len(r.queue)] = r.view
    <3>1. Tail(w.queue) # << >> => Tail(w.queue)[Len(Tail(w.queue))] = w.queue[Len(w.queue)]
      BY Zenon, <1>1, <1>3, TailLast
    <3> QED BY Zenon, <1>1, <1>2, <1>7, <3>1 DEF Informed
  <2>2. Informed(watch[x])'
    <3>1. r.queue = << >> => r.eps = Wanted(r)
      BY Zenon, <1>6, <1>7 DEF Wanted
    <3> QED BY Zenon, <1>7, <1>9, <2>1, <3>1 DEF Informed, Wanted
  <2>3. ASSUME NEW y \in DOMAIN watch, y # x PROVE Informed(watch[y])'
    BY Zenon, <1>1, <1>9, <2>3, WatchFacts DEF Informed, Wanted, ghosts
  <2> QED BY Zenon, <1>9, <2>2, <2>3 DEF AllInformed
<1>12. Forgotten' /\ Rebuilt'
  <2>1. \A y \in DOMAIN watch : watch[y].pc = "notify" => watch'[y].dest = watch[y].dest /\ watch'[y].pc = "notify"
    <3>1. w.pc # "notify"
      BY <1>1
    <3> QED BY Zenon, <1>9, <3>1
  <2>2. \A i \in Ids : Installed(i) => Installed(i)'
    BY Zenon, <1>1, <1>9, <2>1 DEF Installed, ghosts
  <2> QED BY Zenon, <1>1, <2>2 DEF IInv, Forgotten, Rebuilt, ghosts
<1>13. Reconciled'
  BY Zenon, <1>1, ReconciledKept DEF ghosts
<1> QED BY Zenon, <1>9, <1>10, <1>11, <1>12, <1>13 DEF IInv

\* The handler writes the endpoint map.  One whose watch is cancelled may
\* write over the endpoints of the watch that runs.
LEMMA WriteEndpointsStep ==
  ASSUME IInv, NEW x \in DOMAIN watch, WriteEndpoints(x)
  PROVE  IInv'
<1> DEFINE w == watch[x]
           pc == IF w.quiet THEN "idle" ELSE "notify"
           r == [w EXCEPT !.pc = pc]
<1>1. /\ w.pc = "lock" /\ watch' = [watch EXCEPT ![x].pc = pc]
      /\ endpoints' = [endpoints EXCEPT ![w.dest] = w.eps]
      /\ late' = IF w.cancelled THEN late \union {w.dest} ELSE late \ {w.dest}
      /\ silent' = IF w.quiet THEN silent \union {w.dest} ELSE silent
      /\ UNCHANGED <<storeVars, world, run, desired, cancels, installed, failed, missed>>
  BY Zenon DEF WriteEndpoints
<1>2. w \in Watches /\ Informed(w)
  BY Zenon, WatchFacts
<1>3. w.dest \in Ids /\ w.eps \in EndpointSets
  BY Zenon, <1>2 DEF Watches
<1>4. /\ r \in Watches /\ r.dest = w.dest /\ r.cancelled = w.cancelled /\ (~r.cancelled => ~w.cancelled) /\ r.pc = pc /\ r.pc # "lock"
      /\ r.view = w.view /\ r.kind = w.kind /\ r.port = w.port /\ r.queue = w.queue
      /\ (w.quiet \/ r.pc = "notify")
  BY Zenon, <1>2 DEF Watches
<1>5. watch' = [watch EXCEPT ![x] = r]
  BY Zenon, <1>1, <1>2
<1> HIDE DEF r
<1>6. /\ watch' \in Seq(Watches) /\ cancels' \in [Ids -> 0 .. Len(watch')]
      /\ DOMAIN watch' = DOMAIN watch /\ watch'[x] = r
      /\ \A y \in DOMAIN watch : y # x => watch'[y] = watch[y]
      /\ WatchesOwned'
  BY Zenon, <1>1, <1>4, <1>5, WatchUpdate DEF IInv
<1>7. /\ endpoints \in [Ids -> EndpointSets] /\ late \subseteq Ids /\ silent \subseteq Ids
      /\ WatchesOwned
  BY Zenon DEF IInv, TypeOK
<1>8. /\ endpoints'[w.dest] = w.eps /\ endpoints' \in [Ids -> EndpointSets]
      /\ \A i \in Ids \ {w.dest} : /\ endpoints'[i] = endpoints[i]
                                   /\ i \in late => i \in late' 
                                   /\ i \in silent => i \in silent'
  BY Zenon, <1>1, <1>3, <1>7
<1>9. TypeOK'
  <2>1. late' \subseteq Ids /\ silent' \subseteq Ids
    BY Zenon, <1>1, <1>3, <1>7
  <2> QED BY Zenon, <1>1, <1>6, <1>8, <2>1 DEF IInv, TypeOK, StoreTypeOK, storeVars, world
<1>10. Informed(watch[x])'
  <2>1. Wanted(watch[x])' = Wanted(w)
    BY Zenon, <1>4, <1>6 DEF Wanted
  <2>2. w.queue # << >> => w.queue[Len(w.queue)] = w.view
    BY Zenon, <1>2 DEF Informed
  <2>3. ~w.cancelled /\ w.queue = << >> => w.eps = Wanted(w)
    BY Zenon, <1>1, <1>2 DEF Informed
  <2> QED BY Zenon, <1>4, <1>6, <1>8, <2>1, <2>2, <2>3 DEF Informed
<1>11. ASSUME NEW y \in DOMAIN watch, y # x PROVE Informed(watch[y])'
  <2>1. watch[y] \in Watches /\ Informed(watch[y]) /\ watch'[y] = watch[y]
    BY Zenon, <1>6, <1>11, WatchFacts
  <2>2. watch[y].dest \in Ids
    BY Zenon, <2>1 DEF Watches
  <2>3. CASE watch[y].dest = w.dest
    <3>1. ~watch[y].cancelled => w.cancelled
      BY Zenon, <1>7, <1>11, <2>3 DEF WatchesOwned, Live
    <3>2. ~watch[y].cancelled => watch[y].dest \in late'
      BY Zenon, <1>1, <2>3, <3>1
    <3> QED BY Zenon, <2>1, <3>2 DEF Informed, Wanted
  <2>4. CASE watch[y].dest # w.dest
    BY Zenon, <1>8, <2>1, <2>2, <2>4 DEF Informed, Wanted
  <2> QED BY Zenon, <2>3, <2>4
<1>12. AllInformed'
  BY Zenon, <1>6, <1>10, <1>11 DEF AllInformed
<1>13. Forgotten'
  <2>1. cancels[w.dest] = 0 => w.dest \in late'
    <3>1. x # 0
      BY DEF IInv, TypeOK
    <3>2. cancels[w.dest] = 0 => w.cancelled
      BY Zenon, <1>7, <3>1 DEF WatchesOwned, Live
    <3> QED BY Zenon, <1>1, <3>2
  <2> QED BY Zenon, <1>1, <1>3, <1>8, <2>1 DEF IInv, Forgotten
<1>14. Rebuilt'
  <2>1. ASSUME NEW i \in Ids, i = w.dest PROVE Installed(i)'
    BY Zenon, <1>1, <1>4, <1>6, <2>1 DEF Installed
  <2>2. ASSUME NEW i \in Ids, i # w.dest, Installed(i) PROVE Installed(i)'
    BY Zenon, <1>1, <1>6, <1>8, <2>2 DEF Installed
  <2> QED BY Zenon, <1>1, <2>1, <2>2 DEF IInv, Rebuilt
<1>15. Reconciled'
  BY Zenon, <1>1, ReconciledKept
<1> QED BY Zenon, <1>6, <1>9, <1>12, <1>13, <1>14, <1>15 DEF IInv

\* OnChange rebuilds the gateway with the endpoint map.
LEMMA NotifyStep ==
  ASSUME IInv, NEW x \in DOMAIN watch, notifyChange(x)
  PROVE  IInv'
<1> DEFINE w == watch[x]
           r == [w EXCEPT !.pc = "idle"]
<1>1. /\ w.pc = "notify" /\ watch' = [watch EXCEPT ![x].pc = "idle"]
      /\ installed' = endpoints /\ silent' = {}
      /\ UNCHANGED <<storeVars, world, run, desired, cancels, endpoints, failed, missed, late>>
  BY Zenon DEF notifyChange
<1>2. w \in Watches /\ Informed(w)
  BY Zenon, WatchFacts
<1>3. /\ r \in Watches /\ r.dest = w.dest /\ r.cancelled = w.cancelled /\ (~r.cancelled => ~w.cancelled)
      /\ r.pc # "lock" /\ w.pc # "lock"
      /\ r.view = w.view /\ r.kind = w.kind /\ r.port = w.port /\ r.queue = w.queue
  BY Zenon, <1>1, <1>2 DEF Watches
<1>4. watch' = [watch EXCEPT ![x] = r]
  BY Zenon, <1>1, <1>2
<1> HIDE DEF r
<1>5. /\ watch' \in Seq(Watches) /\ cancels' \in [Ids -> 0 .. Len(watch')]
      /\ DOMAIN watch' = DOMAIN watch /\ watch'[x] = r
      /\ \A y \in DOMAIN watch : y # x => watch'[y] = watch[y]
      /\ WatchesOwned'
  BY Zenon, <1>1, <1>3, <1>4, WatchUpdate DEF IInv
<1>6. TypeOK'
  BY Zenon, <1>1, <1>5 DEF IInv, TypeOK, StoreTypeOK, storeVars, world
<1>7. AllInformed'
  <2>1. Informed(watch[x])'
    <3>1. Wanted(watch[x])' = Wanted(w)
      BY Zenon, <1>3, <1>5 DEF Wanted
    <3>2. w.queue # << >> => w.queue[Len(w.queue)] = w.view
      BY Zenon, <1>2 DEF Informed
    <3>3. ~w.cancelled /\ w.queue = << >> => w.dest \in late \/ endpoints[w.dest] = Wanted(w)
      BY Zenon, <1>2, <1>3 DEF Informed
    <3>4. ~r.cancelled /\ r.queue = << >> => r.dest \in late' \/ endpoints'[r.dest] = Wanted(w)
      BY Zenon, <1>1, <1>3, <3>3
    <3> QED BY Zenon, <1>3, <1>5, <3>1, <3>2, <3>4 DEF Informed
  <2>2. ASSUME NEW y \in DOMAIN watch, y # x PROVE Informed(watch[y])'
    BY Zenon, <1>1, <1>5, <2>2, WatchFacts DEF Informed, Wanted
  <2> QED BY Zenon, <1>5, <2>1, <2>2 DEF AllInformed
<1>8. Forgotten' /\ Rebuilt'
  BY Zenon, <1>1 DEF IInv, Forgotten, Rebuilt, Installed
<1>9. Reconciled'
  BY Zenon, <1>1, ReconciledKept
<1> QED BY Zenon, <1>5, <1>6, <1>7, <1>8, <1>9 DEF IInv

----------------------------------------------------------------------------
(* Steps that start and cancel watches.                                    *)

\* A cancelled watch is otherwise the watch it was.
LEMMA CancelledFact ==
  ASSUME NEW w \in Watches, NEW removed
  PROVE  /\ Cancelled(w, removed) \in Watches
         /\ ~Cancelled(w, removed).cancelled <=> ~w.cancelled /\ w.dest \notin removed
         /\ Cancelled(w, removed).dest = w.dest /\ Cancelled(w, removed).pc = w.pc
         /\ Cancelled(w, removed).queue = w.queue /\ Cancelled(w, removed).eps = w.eps
         /\ Cancelled(w, removed).view = w.view /\ Wanted(Cancelled(w, removed)) = Wanted(w)
<1> DEFINE c == Cancelled(w, removed)
<1>1. /\ c \in Watches /\ (~c.cancelled <=> ~w.cancelled /\ w.dest \notin removed)
      /\ c.dest = w.dest /\ c.pc = w.pc /\ c.queue = w.queue /\ c.eps = w.eps
      /\ c.view = w.view /\ c.kind = w.kind /\ c.port = w.port
  BY Zenon DEF Cancelled, Watches
<1>2. Wanted(c) = Wanted(w)
  BY Zenon, <1>1 DEF Wanted
<1> QED BY Zenon, <1>1, <1>2

\* stopAll cancels every watch and forgets the endpoints of each.
LEMMA StopAllStep ==
  ASSUME IInv, stopAll
  PROVE  IInv'
<1>1. /\ run' = "stopped" /\ Unsubscribe(Watcher)
      /\ watch' = [x \in DOMAIN watch |-> Cancelled(watch[x], Ids)]
      /\ endpoints' = [i \in Ids |-> IF cancels[i] # 0 THEN {} ELSE endpoints[i]]
      /\ cancels' = [i \in Ids |-> 0]
      /\ UNCHANGED <<world, desired, installed, ghosts>>
  BY Zenon DEF stopAll
<1>2. /\ watch \in Seq(Watches) /\ cancels \in [Ids -> 0 .. Len(watch)]
      /\ endpoints \in [Ids -> EndpointSets] /\ StoreTypeOK
  BY Zenon DEF IInv, TypeOK
<1>3. StoreTypeOK'
  BY Zenon, <1>1, <1>2, ChannelFact, WatcherAssumption
<1>4. \A x \in DOMAIN watch : watch[x] \in Watches /\ Cancelled(watch[x], Ids) \in Watches
                              /\ watch[x].dest \in Ids
  <2>1. \A x \in DOMAIN watch : watch[x] \in Watches
    BY <1>2
  <2>2. \A w \in Watches : w.dest \in Ids
    BY Zenon DEF Watches
  <2> QED BY Zenon, <2>1, <2>2, CancelledFact
<1>5. watch' \in Seq(Watches) /\ DOMAIN watch' = DOMAIN watch
  <2>1. DOMAIN watch' = DOMAIN watch /\ \A x \in DOMAIN watch : watch'[x] \in Watches
    BY Zenon, <1>1, <1>4
  <2>2. DOMAIN watch = 1 .. Len(watch) /\ Len(watch) \in Nat
    BY <1>2
  <2>3. watch' = [x \in 1 .. Len(watch) |-> watch'[x]]
    BY Zenon, <1>1, <2>1, <2>2
  <2> QED BY <2>1, <2>2, <2>3
<1>6. cancels' \in [Ids -> 0 .. Len(watch')] /\ \A i \in Ids : cancels'[i] = 0
  BY <1>1, <1>5
<1>7. endpoints' \in [Ids -> EndpointSets]
  <2>1. {} \in EndpointSets
    BY Zenon DEF EndpointSets
  <2> QED BY Zenon, <1>1, <1>2, <2>1
<1>8. TypeOK'
  BY Zenon, <1>1, <1>3, <1>5, <1>6, <1>7 DEF IInv, TypeOK, world, ghosts
<1>9. \A x \in DOMAIN watch' :
        /\ watch[x] \in Watches /\ watch'[x] = Cancelled(watch[x], Ids) /\ watch'[x].cancelled
        /\ watch'[x].dest \in Ids /\ x # 0
  <2>1. ASSUME NEW x \in DOMAIN watch
        PROVE  watch'[x] = Cancelled(watch[x], Ids) /\ watch'[x].cancelled /\ watch'[x].dest \in Ids
    BY Zenon, <1>1, <1>4, CancelledFact
  <2>2. \A x \in DOMAIN watch : x # 0
    BY <1>2
  <2> QED BY Zenon, <1>4, <1>5, <2>1, <2>2
<1>10. WatchesOwned'
  BY Zenon, <1>6, <1>9 DEF WatchesOwned, Live
<1>11. AllInformed'
  <2>1. ASSUME NEW x \in DOMAIN watch' PROVE Informed(watch[x])'
    <3>1. Informed(watch[x])
      BY Zenon, <1>5, WatchFacts
    <3>2. watch[x] \in Watches /\ watch'[x] = Cancelled(watch[x], Ids)
      BY Zenon, <1>9
    <3>3. Cancelled(watch[x], Ids).queue = watch[x].queue /\ Cancelled(watch[x], Ids).view = watch[x].view
      BY Zenon, <3>2, CancelledFact
    <3> QED BY Zenon, <1>9, <3>1, <3>2, <3>3 DEF Informed
  <2> QED BY Zenon, <2>1 DEF AllInformed
<1>12. Forgotten'
  BY Zenon, <1>1 DEF IInv, Forgotten, ghosts
<1>13. Rebuilt' /\ Reconciled'
  BY Zenon, <1>1, <1>6 DEF Rebuilt, Reconciled
<1> QED BY Zenon, <1>8, <1>10, <1>11, <1>12, <1>13 DEF IInv

\* The watch that reconcile starts for a destination has seen nothing.
LEMMA StartedFact ==
  ASSUME desired \in Collection, NEW i \in Ids, Watchable(desired, i)
  PROVE  /\ Started(i) \in Watches /\ Started(i).dest = i /\ ~Started(i).cancelled
         /\ Started(i).queue = << >> /\ Started(i).pc = "idle" /\ Wanted(Started(i)) = {}
<1>1. desired[i] \in Values
  BY Zenon DEF Collection, Watchable, isEDS
<1>2. desired[i].host \in Services
  BY Zenon, <1>1, ValuesAssumption DEF Watchable
<1>3. {} \in EndpointSets /\ NoObject \in Seen
  BY Zenon DEF EndpointSets, Seen
<1>4. << >> \in Seq(Seen)
  OBVIOUS
<1>5. Started(i) \in Watches
  BY Zenon, <1>1, <1>2, <1>3, <1>4 DEF Started, Watches
<1>6. /\ Started(i).dest = i /\ ~Started(i).cancelled /\ Started(i).queue = << >>
      /\ Started(i).pc = "idle" /\ Started(i).view = NoObject
  BY Zenon DEF Started
<1>7. Wanted(Started(i)) = {}
  BY Zenon, <1>6 DEF Wanted, buildEndpoints, externalEndpoints
<1> QED BY Zenon, <1>5, <1>6, <1>7

\* reconcile under its lock: the watches of removed destinations are
\* cancelled, those started are live and owned, and both maps agree with what
\* was listed.
LEMMA ApplyStep ==
  ASSUME IInv, NEW unread \in SUBSET Ids, Apply(unread)
  PROVE  IInv'
<1> DEFINE removed == {i \in Ids : cancels[i] # 0 /\ ~isEDS(desired[i])}
           new == {i \in Ids : cancels[i] = 0 /\ Watchable(desired, i)}
           found == {i \in new : cluster[desired[i].host] # NoObject} \ unread
           n == Len(watch)
           c == Cardinality(found)
<1>1. /\ run = "apply" /\ run' = "loop"
      /\ endpoints' = [i \in Ids |-> IF i \in removed THEN {} ELSE endpoints[i]]
      /\ failed' = new \ found /\ late' = late \ removed
      /\ silent' = silent \union {i \in removed : endpoints[i] # {}}
      /\ UNCHANGED <<storeVars, world, desired, installed, missed>>
  BY Zenon DEF Apply
<1>2. PICK order \in Bijection(found, 1 .. c) :
        /\ watch' = [x \in 1 .. n + c |->
                       IF x > n THEN Started(CHOOSE i \in found : order[i] = x - n)
                       ELSE Cancelled(watch[x], removed)]
        /\ cancels' = [i \in Ids |-> IF i \in removed THEN 0
                                     ELSE IF i \in found THEN n + order[i] ELSE cancels[i]]
  BY Zenon DEF Apply
<1>3. /\ watch \in Seq(Watches) /\ cancels \in [Ids -> 0 .. n] /\ desired \in Collection
      /\ endpoints \in [Ids -> EndpointSets] /\ WatchesOwned
  BY Zenon DEF IInv, TypeOK
<1>4. n \in Nat /\ DOMAIN watch = 1 .. n /\ \A x \in 1 .. n : watch[x] \in Watches
  BY <1>3
<1>5. c \in Nat
  <2>1. found \in SUBSET Ids
    BY Zenon
  <2> QED BY Zenon, <2>1, IdsAssumption, FS_Subset, FS_CardinalityType
<1>6. /\ found \subseteq Ids /\ found \cap removed = {}
      /\ \A i \in found : cancels[i] = 0 /\ Watchable(desired, i)
      /\ \A i \in Ids : i \in new => i \in found \/ i \in failed'
  BY Zenon, <1>1
<1>7. \A i \in found : /\ Started(i) \in Watches /\ Started(i).dest = i /\ ~Started(i).cancelled
                       /\ Started(i).queue = << >> /\ Started(i).pc = "idle" /\ Wanted(Started(i)) = {}
  BY Zenon, <1>3, <1>6, StartedFact
<1>8. /\ \A i \in removed : cancels[i] # 0 /\ ~isEDS(desired[i]) /\ i \in Ids
      /\ \A i \in Ids \ removed : cancels[i] # 0 => isEDS(desired[i])
      /\ \A i \in Ids : cancels[i] = 0 /\ Watchable(desired, i) => i \in new
  BY Zenon
<1>9. /\ order \in [found -> 1 .. c]
      /\ \A i, j \in found : order[i] = order[j] => i = j
      /\ \A k \in 1 .. c : \E i \in found : order[i] = k
  BY Zenon, <1>2 DEF Bijection, Injection, Surjection, IsInjective
<1> HIDE DEF removed, new, found, n, c
<1>10. /\ DOMAIN watch' = 1 .. n + c
       /\ \A x \in 1 .. n : x \in DOMAIN watch' /\ watch'[x] = Cancelled(watch[x], removed)
  BY <1>2, <1>4, <1>5
<1>11. /\ \A i \in Ids \ found : cancels'[i] = IF i \in removed THEN 0 ELSE cancels[i]
       /\ \A i \in found : cancels'[i] = n + order[i]
       /\ DOMAIN cancels' = Ids
  BY Zenon, <1>2, <1>6
<1>12. ASSUME NEW x \in DOMAIN watch', x \notin 1 .. n
       PROVE  \E i \in found : watch'[x] = Started(i) /\ cancels'[i] = x
  <2>1. x \in 1 .. n + c /\ x > n /\ x - n \in 1 .. c
    BY <1>4, <1>5, <1>10, <1>12
  <2> DEFINE i == CHOOSE j \in found : order[j] = x - n
  <2>2. i \in found /\ order[i] = x - n
    BY Zenon, <1>9, <2>1
  <2>3. watch'[x] = Started(i)
    BY Zenon, <1>2, <2>1
  <2>4. cancels'[i] = x
    <3> HIDE DEF i
    <3> QED BY <1>4, <1>11, <2>1, <2>2
  <2> QED BY Zenon, <2>2, <2>3, <2>4
<1>13. ASSUME NEW i \in found
       PROVE  cancels'[i] \in DOMAIN watch' /\ cancels'[i] \notin 1 .. n /\ cancels'[i] # 0
  BY <1>4, <1>5, <1>9, <1>10, <1>11
<1>14. \A i \in found : watch'[cancels'[i]] = Started(i)
  <2>1. ASSUME NEW i \in found PROVE watch'[cancels'[i]] = Started(i)
    <3>1. PICK j \in found : watch'[cancels'[i]] = Started(j) /\ cancels'[j] = cancels'[i]
      BY Zenon, <1>12, <1>13
    <3>2. order[i] = order[j]
      BY <1>4, <1>9, <1>11, <3>1
    <3> QED BY Zenon, <1>9, <3>1, <3>2
  <2> QED BY Zenon, <2>1
<1>15. watch' \in Seq(Watches) /\ Len(watch') = n + c
  <2>1. \A x \in DOMAIN watch' : watch'[x] \in Watches
    <3>1. ASSUME NEW x \in 1 .. n PROVE watch'[x] \in Watches
      BY <1>4, <1>10, CancelledFact
    <3>2. ASSUME NEW x \in DOMAIN watch', x \notin 1 .. n PROVE watch'[x] \in Watches
      BY Zenon, <1>7, <1>12, <3>2
    <3> QED BY Zenon, <3>1, <3>2
  <2>2. watch' = [x \in 1 .. n + c |-> watch'[x]] /\ n + c \in Nat
    BY <1>2, <1>4, <1>5
  <2> QED BY <1>10, <2>1, <2>2
<1>16. cancels' \in [Ids -> 0 .. Len(watch')]
  <2>1. \A i \in Ids : cancels'[i] \in 0 .. n + c
    <3>1. ASSUME NEW i \in found PROVE cancels'[i] \in 0 .. n + c
      BY <1>4, <1>5, <1>9, <1>11
    <3>2. ASSUME NEW i \in Ids, i \notin found PROVE cancels'[i] \in 0 .. n + c
      <4>1. cancels'[i] = 0 \/ cancels'[i] \in 0 .. n
        BY Zenon, <1>3, <1>11, <3>2
      <4> QED BY <1>4, <1>5, <4>1
    <3> QED BY Zenon, <3>1, <3>2
  <2> QED BY Zenon, <1>2, <1>15, <2>1
<1>17. TypeOK'
  <2>1. endpoints' \in [Ids -> EndpointSets]
    <3>1. {} \in EndpointSets
      BY Zenon DEF EndpointSets
    <3> QED BY Zenon, <1>1, <1>3, <3>1
  <2>2. failed' \subseteq Ids /\ late' \subseteq Ids /\ silent' \subseteq Ids
    BY Zenon, <1>1, <1>8 DEF IInv, TypeOK, new
  <2> QED BY Zenon, <1>1, <1>15, <1>16, <2>1, <2>2 DEF IInv, TypeOK, StoreTypeOK, storeVars, world
<1>18. ASSUME NEW x \in 1 .. n
       PROVE  /\ watch[x] \in Watches /\ watch[x].dest \in Ids /\ x # 0 /\ x \in DOMAIN watch
              /\ watch'[x].dest = watch[x].dest /\ watch'[x].pc = watch[x].pc
              /\ watch'[x].queue = watch[x].queue /\ watch'[x].eps = watch[x].eps
              /\ watch'[x].view = watch[x].view /\ Wanted(watch[x])' = Wanted(watch[x])
              /\ ~watch'[x].cancelled <=> ~watch[x].cancelled /\ watch[x].dest \notin removed
  <2>1. watch[x] \in Watches /\ x # 0 /\ x \in DOMAIN watch
    BY <1>4
  <2>2. watch[x].dest \in Ids
    BY Zenon, <2>1 DEF Watches
  <2>3. Wanted(watch[x])' = Wanted(Cancelled(watch[x], removed))
    BY Zenon, <1>10 DEF Wanted
  <2> DEFINE k == Cancelled(watch[x], removed)
  <2>4. /\ k.dest = watch[x].dest /\ k.pc = watch[x].pc /\ k.queue = watch[x].queue
        /\ k.eps = watch[x].eps /\ k.view = watch[x].view /\ Wanted(k) = Wanted(watch[x])
        /\ ~k.cancelled <=> ~watch[x].cancelled /\ watch[x].dest \notin removed
    BY <2>1, CancelledFact
  <2>5. watch'[x] = k
    BY Zenon, <1>10
  <2> HIDE DEF k
  <2>6. ~watch'[x].cancelled <=> ~watch[x].cancelled /\ watch[x].dest \notin removed
    BY Zenon, <2>4, <2>5
  <2>7. Wanted(watch[x])' = Wanted(watch[x])
    BY Zenon, <2>3, <2>4 DEF k
  <2> QED BY Zenon, <2>1, <2>2, <2>4, <2>5, <2>6, <2>7
<1>19. WatchesOwned'
  <2>1. ASSUME NEW x \in 1 .. n PROVE ~watch'[x].cancelled <=> cancels'[watch'[x].dest] = x
    <3> DEFINE d == watch[x].dest
    <3>1. d \in Ids /\ x # 0 /\ (~watch[x].cancelled <=> cancels[d] = x)
      BY Zenon, <1>3, <1>18 DEF WatchesOwned, Live
    <3>2. watch'[x].dest = d /\ (~watch'[x].cancelled <=> ~watch[x].cancelled /\ d \notin removed)
      BY Zenon, <1>18
    <3>3. d \in removed => cancels'[d] = 0
      BY Zenon, <1>6, <1>11, <3>1
    <3>4. d \in found => cancels'[d] # x /\ cancels[d] = 0 /\ d \notin removed
      BY Zenon, <1>6, <1>13
    <3>5. d \notin removed /\ d \notin found => cancels'[d] = cancels[d]
      BY Zenon, <1>11, <3>1
    <3> HIDE DEF d
    <3> QED BY Zenon, <3>1, <3>2, <3>3, <3>4, <3>5
  <2>2. ASSUME NEW x \in DOMAIN watch', x \notin 1 .. n
        PROVE  ~watch'[x].cancelled <=> cancels'[watch'[x].dest] = x
    <3>1. PICK i \in found : watch'[x] = Started(i) /\ cancels'[i] = x
      BY Zenon, <1>12, <2>2
    <3>2. Started(i).dest = i /\ ~Started(i).cancelled
      BY Zenon, <1>7
    <3> QED BY Zenon, <3>1, <3>2
  <2>3. ASSUME NEW i \in Ids, cancels'[i] # 0 PROVE watch'[cancels'[i]].dest = i
    <3>1. CASE i \in found
      BY Zenon, <1>7, <1>14, <3>1
    <3>2. CASE i \notin found
      <4>1. cancels'[i] = cancels[i] /\ cancels[i] # 0
        BY Zenon, <1>11, <2>3, <3>2
      <4>2. cancels[i] \in 1 .. n
        BY <1>3, <1>4, <4>1
      <4> QED BY Zenon, <1>3, <1>18, <4>1, <4>2 DEF WatchesOwned
    <3> QED BY Zenon, <3>1, <3>2
  <2> QED BY Zenon, <2>1, <2>2, <2>3 DEF WatchesOwned, Live
<1>20. /\ \A i \in Ids : i \notin removed => endpoints'[i] = endpoints[i] /\ (i \in late => i \in late')
       /\ \A i \in removed : endpoints'[i] = {}
  BY Zenon, <1>1, <1>8
<1>21. AllInformed'
  <2>1. ASSUME NEW x \in 1 .. n PROVE Informed(watch[x])'
    <3>1. Informed(watch[x])
      BY Zenon, <1>18, WatchFacts
    <3> QED BY Zenon, <1>18, <1>20, <3>1 DEF Informed
  <2>2. ASSUME NEW x \in DOMAIN watch', x \notin 1 .. n PROVE Informed(watch[x])'
    <3>1. PICK i \in found : watch'[x] = Started(i)
      BY Zenon, <1>12, <2>2
    <3>2. i \in late \/ endpoints[i] = {}
      BY Zenon, <1>6 DEF IInv, Forgotten
    <3>3. i \in late' \/ endpoints'[i] = {}
      BY Zenon, <1>6, <1>20, <3>2
    <3>4. Wanted(watch[x])' = {}
      BY Zenon, <1>7, <3>1 DEF Wanted
    <3>5. watch'[x].queue = << >> /\ watch'[x].pc = "idle" /\ watch'[x].dest = i
      BY Zenon, <1>7, <3>1
    <3> QED BY Zenon, <3>3, <3>4, <3>5 DEF Informed
  <2> QED BY Zenon, <2>1, <2>2 DEF AllInformed
<1>22. Forgotten'
  BY Zenon, <1>11, <1>13, <1>20 DEF IInv, Forgotten
<1>23. Rebuilt'
  <2>1. ASSUME NEW i \in Ids PROVE Installed(i)'
    <3>1. Installed(i)
      BY Zenon, <1>1 DEF IInv, Rebuilt
    <3>2. i \in silent' \/ endpoints'[i] = endpoints[i]
      BY Zenon, <1>1, <1>20
    <3>3. i \in silent => i \in silent'
      BY Zenon, <1>1
    <3>4. \A y \in DOMAIN watch : /\ y \in DOMAIN watch'
                                  /\ watch'[y].dest = watch[y].dest /\ watch'[y].pc = watch[y].pc
      BY Zenon, <1>4, <1>10, <1>18
    <3> QED BY Zenon, <1>1, <3>1, <3>2, <3>3, <3>4 DEF Installed
  <2> QED BY Zenon, <1>1, <2>1 DEF Rebuilt
<1>24. Reconciled'
  <2>1. Watcher \in subscribed /\ (Pending \/ desired = data["destinations"])
    BY Zenon, <1>1 DEF IInv, Reconciled
  <2>2. ASSUME NEW i \in Ids
        PROVE  /\ cancels'[i] # 0 => isEDS(desired[i])
               /\ Watchable(desired, i) /\ i \notin failed' => cancels'[i] # 0
    <3>1. CASE i \in found
      BY Zenon, <1>6, <1>13, <3>1 DEF Watchable
    <3>2. CASE i \notin found
      BY Zenon, <1>6, <1>8, <1>11, <3>2 DEF Watchable
    <3> QED BY Zenon, <3>1, <3>2
  <2>3. Pending => Pending'
    BY Zenon, <1>1 DEF Pending, storeVars
  <2>4. desired = data["destinations"] => Matches(data["destinations"])'
    BY Zenon, <1>1, <2>2 DEF Matches, Watchable, storeVars
  <2> QED BY Zenon, <1>1, <2>1, <2>3, <2>4 DEF Reconciled, storeVars
<1> QED BY Zenon, <1>17, <1>19, <1>21, <1>22, <1>23, <1>24 DEF IInv

----------------------------------------------------------------------------
(* The theorems.                                                           *)

\* Init establishes the invariant: there is no watch and no endpoint.
LEMMA InitIInv ==
  ASSUME Init
  PROVE  IInv
<1>1. /\ StoreInit /\ cluster \in [Services -> Objects \union {NoObject}] /\ run = "subscribe"
      /\ desired = EmptyCollection /\ watch = << >> /\ cancels = [i \in Ids |-> 0]
      /\ endpoints = [i \in Ids |-> {}] /\ installed = [i \in Ids |-> {}]
      /\ failed = {} /\ missed = FALSE /\ late = {} /\ silent = {}
  BY Zenon DEF Init
<1>2. StoreTypeOK
  BY <1>1 DEF StoreInit, StoreTypeOK
<1>3. watch \in Seq(Watches) /\ cancels \in [Ids -> 0 .. Len(watch)] /\ DOMAIN watch = {}
  BY <1>1
<1>4. {} \in EndpointSets
  BY Zenon DEF EndpointSets
<1>5. endpoints \in [Ids -> EndpointSets] /\ installed \in [Ids -> EndpointSets]
  BY Zenon, <1>1, <1>4
<1>6. desired \in Collection
  BY Zenon, <1>1 DEF EmptyCollection, Collection
<1>7. TypeOK
  BY Zenon, <1>1, <1>2, <1>3, <1>5, <1>6 DEF TypeOK, Seen
<1>8. WatchesOwned /\ AllInformed
  BY Zenon, <1>1, <1>3 DEF WatchesOwned, AllInformed
<1>9. Forgotten /\ Rebuilt /\ Reconciled
  BY Zenon, <1>1 DEF Forgotten, Rebuilt, Installed, Reconciled
<1> QED BY Zenon, <1>7, <1>8, <1>9 DEF IInv

\* A step that changes nothing keeps the invariant.
LEMMA UnchangedIInv ==
  ASSUME IInv, UNCHANGED vars
  PROVE  IInv'
<1>1. UNCHANGED <<storeVars, cluster, run, desired, watch, cancels, endpoints, installed, ghosts>>
  BY Zenon DEF vars, watcherVars
<1>2. TypeOK'
  BY Zenon, <1>1 DEF IInv, TypeOK, StoreTypeOK, storeVars, ghosts
<1>3. WatchesOwned' /\ AllInformed' /\ Forgotten' /\ Rebuilt'
  BY Zenon, <1>1, WatchesKept DEF ghosts
<1>4. Reconciled'
  BY Zenon, <1>1, ReconciledKept DEF ghosts
<1> QED BY Zenon, <1>2, <1>3, <1>4 DEF IInv

\* Every step of the watcher, the store and the cluster keeps the invariant.
LEMMA StepIInv ==
  ASSUME IInv, [Next]_vars
  PROVE  IInv'
<1>1. CASE Progress
  <2>1. CASE \E w \in Writers : Publish(w)
    BY Zenon, <2>1, PublishStep
  <2>2. CASE RunStart \/ RunEvent \/ List
    BY Zenon, <2>2, RunStartStep, RunEventStep, ListStep
  <2>3. CASE \E unread \in SUBSET Ids : Apply(unread)
    BY Zenon, <2>3, ApplyStep
  <2>4. CASE \E x \in DOMAIN watch : Observe(x) \/ OnEvent(x) \/ WriteEndpoints(x) \/ notifyChange(x)
    BY Zenon, <2>4, ObserveStep, OnEventStep, WriteEndpointsStep, NotifyStep
  <2>5. CASE GatewayRebuild
    BY Zenon, <2>5, RebuildStep
  <2> QED BY Zenon, <1>1, <2>1, <2>2, <2>3, <2>4, <2>5 DEF Progress
<1>2. CASE \E w \in Writers : Write(w)
  BY Zenon, <1>2, WriteStep
<1>3. CASE \E s \in Services, o \in Objects \union {NoObject} : ClusterChange(s, o)
  BY Zenon, <1>3, ClusterStep
<1>4. CASE stopAll
  BY Zenon, <1>4, StopAllStep
<1>5. CASE UNCHANGED vars
  BY Zenon, <1>5, UnchangedIInv
<1> QED BY Zenon, <1>1, <1>2, <1>3, <1>4, <1>5 DEF Next

\* A watch's endpoints have the addresses the watch has seen.
LEMMA WantedAddresses ==
  ASSUME NEW w \in Watches
  PROVE  {ep[1] : ep \in Wanted(w)} =
           IF w.view = NoObject \/ (w.kind = "external" /\ w.view.type # "external") THEN {}
           ELSE w.view.ready
<1>1. w.kind \in {"slices", "external"}
  BY Zenon DEF Watches
<1>2. CASE w.view = NoObject
  BY Zenon, <1>2 DEF Wanted, buildEndpoints, externalEndpoints
<1>3. ASSUME NEW p, Wanted(w) = {<<a, p>> : a \in w.view.ready}
      PROVE  {ep[1] : ep \in Wanted(w)} = w.view.ready
  <2>1. \A a \in w.view.ready : <<a, p>>[1] = a
    BY Zenon
  <2>2. ASSUME NEW e \in {ep[1] : ep \in Wanted(w)} PROVE e \in w.view.ready
    BY Zenon, <1>3, <2>1, <2>2
  <2>3. ASSUME NEW e \in w.view.ready PROVE e \in {ep[1] : ep \in Wanted(w)}
    <3>1. <<e, p>> \in Wanted(w) /\ <<e, p>>[1] = e
      BY Zenon, <1>3, <2>1
    <3> QED BY Zenon, <3>1
  <2> QED BY Zenon, <2>2, <2>3
<1>4. CASE w.view # NoObject /\ w.kind = "slices"
  <2> DEFINE p == IF w.view.port # 0 THEN w.view.port ELSE w.port
  <2>1. Wanted(w) = {<<a, p>> : a \in w.view.ready}
    BY Zenon, <1>4 DEF Wanted, buildEndpoints
  <2>2. w.kind # "external"
    BY Zenon, <1>4
  <2> HIDE DEF p
  <2>3. {ep[1] : ep \in Wanted(w)} = w.view.ready
    BY Zenon, <1>3, <2>1
  <2> QED BY Zenon, <1>4, <2>2, <2>3
<1>5. CASE w.view # NoObject /\ w.kind = "external"
  <2>1. w.kind # "slices"
    BY Zenon, <1>5
  <2>2. CASE w.view.type # "external"
    BY Zenon, <1>5, <2>1, <2>2 DEF Wanted, externalEndpoints
  <2>3. CASE w.view.type = "external"
    <3>1. Wanted(w) = {<<a, w.port>> : a \in w.view.ready}
      BY Zenon, <1>5, <2>1, <2>3 DEF Wanted, externalEndpoints
    <3>2. {ep[1] : ep \in Wanted(w)} = w.view.ready
      BY Zenon, <1>3, <3>1
    <3> QED BY Zenon, <1>5, <2>3, <3>2
  <2> QED BY Zenon, <2>2, <2>3
<1> QED BY Zenon, <1>1, <1>2, <1>4, <1>5

\* The state of the watcher, its watches and the endpoint map has the types
\* watcher.go gives it.
THEOREM WatcherTypeCorrect == Spec => []TypeOK
<1>1. IInv => TypeOK
  BY Zenon DEF IInv
<1> QED BY <1>1, InitIInv, StepIInv, PTL DEF Spec

\* However reconciles, handlers and stopAll interleave, the watches that run
\* are those w.cancels can stop, one for a destination.
THEOREM WatcherWatchesOwned == Spec => []WatchesOwned
<1>1. IInv => WatchesOwned
  BY Zenon DEF IInv
<1> QED BY <1>1, InitIInv, StepIInv, PTL DEF Spec

\* At rest Run watches what the store asks for, unless the store dropped the
\* event that would have told it.
THEOREM WatcherWatchedAsStored == Spec => []WatchedAsStored
<1>1. ASSUME IInv PROVE WatchedAsStored
  <2>1. ASSUME run = "loop", chan[Watcher] = << >>, AllPublished, ~missed
        PROVE  Matches(data["destinations"])
    <3>1. ~Pending
      <4>1. \A n \in 1 .. Len(chan[Watcher]) : FALSE
        BY <2>1
      <4>2. \A w \in Writers : unpublished[w] # "destinations"
        <5>1. "destinations" # Absent
          BY Zenon, WatcherAssumption, AbsentAssumption
        <5> QED BY Zenon, <2>1, <5>1 DEF AllPublished
      <4> QED BY Zenon, <2>1, <4>1, <4>2 DEF Pending
    <3> QED BY Zenon, <1>1, <2>1, <3>1 DEF IInv, Reconciled
  <2> QED BY Zenon, <2>1 DEF WatchedAsStored, Matches
<1> QED BY <1>1, InitIInv, StepIInv, PTL DEF Spec

\* A watch that has caught up with the cluster has put its Service's addresses
\* into the endpoint map, and the gateway has them or was not told.
THEOREM WatcherFollowsCluster == Spec => []FollowsCluster
<1>1. ASSUME IInv PROVE FollowsCluster
  <2> DEFINE w(x) == watch[x]
             settled(x) == /\ w(x).queue = << >> /\ w(x).view = See(w(x).kind, cluster[w(x).svc])
                           /\ \A y \in DOMAIN watch : watch[y].dest = w(x).dest => watch[y].pc = "idle"
             ready(x) == IF w(x).view = NoObject \/ (w(x).kind = "external" /\ w(x).view.type # "external")
                         THEN {} ELSE w(x).view.ready
  <2>1. ASSUME NEW x \in DOMAIN watch, Live(x), settled(x), w(x).dest \notin late
        PROVE  /\ {ep[1] : ep \in endpoints[w(x).dest]} = ready(x)
               /\ installed[w(x).dest] = endpoints[w(x).dest] \/ w(x).dest \in silent
    <3>1. w(x) \in Watches /\ Informed(w(x))
      BY Zenon, <1>1, WatchFacts
    <3>2. w(x).dest \in Ids /\ w(x).pc # "lock" /\ x # 0
      <4>1. watch \in Seq(Watches)
        BY Zenon, <1>1 DEF IInv, TypeOK
      <4>2. x # 0
        BY <4>1
      <4>3. w(x).dest \in Ids
        BY Zenon, <3>1 DEF Watches
      <4>4. w(x).pc = "idle"
        BY Zenon, <2>1
      <4> QED BY Zenon, <4>2, <4>3, <4>4
    <3>3. endpoints[w(x).dest] = Wanted(w(x))
      BY Zenon, <2>1, <3>1, <3>2 DEF Informed, Live
    <3>4. {ep[1] : ep \in endpoints[w(x).dest]} = ready(x)
      BY Zenon, <3>1, <3>3, WantedAddresses
    <3>5. cancels[w(x).dest] # 0
      BY Zenon, <1>1, <2>1, <3>2 DEF IInv, WatchesOwned
    <3>6. Installed(w(x).dest)
      BY Zenon, <1>1, <3>2, <3>5 DEF IInv, Rebuilt
    <3>7. \A y \in DOMAIN watch : watch[y].dest = w(x).dest => watch[y].pc # "notify"
      BY Zenon, <2>1
    <3> QED BY Zenon, <3>4, <3>6, <3>7 DEF Installed
  <2> QED BY Zenon, <2>1 DEF FollowsCluster
<1> QED BY <1>1, InitIInv, StepIInv, PTL DEF Spec
=============================================================================
