------------------------------ MODULE K8sWatcher ------------------------------
(***************************************************************************)
(* The Kubernetes endpoint watcher (server/internal/k8s/watcher.go): Run   *)
(* follows the destinations of the store and keeps a watch for each that   *)
(* asks for discovery; a watch is an informer goroutine whose handlers     *)
(* write the endpoint map and call OnChange, which is Gateway.Rebuild.     *)
(*                                                                         *)
(* A rebuild is one step here: it installs the endpoint map (its own steps *)
(* are in module Gateway).  A destination is [eds, host, port] with a      *)
(* Service or NoHost for a host; a Service is [type, ready, port], where   *)
(* ready are the addresses of its slices, or its externalName, and port 0  *)
(* says that the slices name none.                                         *)
(***************************************************************************)
EXTENDS ConfigStore, Functions

CONSTANTS
  Services,       \* the Services of the cluster
  Objects,        \* what a Service may be
  NoHost,         \* a host that parseFQDN rejects
  NoObject,       \* no such Service, or no slices of it
  Watcher,        \* the watcher's subscription
  MaxChanges      \* bound: changes in the cluster

ASSUME WatcherAssumption == Subscribers = {Watcher} /\ "destinations" \in Kinds
ASSUME IdsAssumption == IsFiniteSet(Ids)
ASSUME ValuesAssumption == \A v \in Values : v.eds \in BOOLEAN /\ v.host \in Services \union {NoHost}
ASSUME ObjectsAssumption == NoObject \notin Objects

VARIABLES
  cluster,        \* Service -> object
  run,            \* where Run is
  desired,        \* the destinations reconcile has listed
  watch,          \* the watches started so far, with their informers
  cancels,        \* destination -> its watch, 0 for none
  endpoints,      \* destination -> endpoints; none is the same as nil
  installed,      \* the endpoints the gateway routes to
  due,            \* the gateway has an event to rebuild for
  changes,
  failed,         \* ghost: destinations whose Service could not be read
  missed,         \* ghost: a dropped event has left no other to reconcile for
  late,           \* ghost: destinations a cancelled watch wrote to last
  silent          \* ghost: destinations written without OnChange since a rebuild

world == <<cluster, changes>>
ghosts == <<failed, missed, late, silent>>
watcherVars == <<cluster, run, desired, watch, cancels, endpoints, installed, due, changes, ghosts>>
vars == <<storeVars, watcherVars>>

isEDS(d) == d # Absent /\ d.eds
Watchable(ds, i) == isEDS(ds[i]) /\ ds[i].host # NoHost

\* What an informer of a kind sees of a Service.
See(kind, object) ==
  IF kind = "slices" /\ object # NoObject /\ object.type = "external" THEN NoObject ELSE object

Init ==
  /\ StoreInit
  /\ cluster \in [Services -> Objects \union {NoObject}]
  /\ run = "subscribe" /\ desired = EmptyCollection
  /\ watch = << >> /\ cancels = [i \in Ids |-> 0]
  /\ endpoints = [i \in Ids |-> {}] /\ installed = [i \in Ids |-> {}]
  /\ due = FALSE /\ changes = 0
  /\ failed = {} /\ missed = FALSE /\ late = {} /\ silent = {}

----------------------------------------------------------------------------
Write(w) ==
  /\ EntityWrite(w)
  /\ due' = TRUE
  /\ UNCHANGED <<world, run, desired, watch, cancels, endpoints, installed, ghosts>>

Publish(w) ==
  /\ publish(w)
  /\ missed' = (missed \/ /\ Watcher \in subscribed /\ unpublished[w] = "destinations"
                          /\ "destinations" \notin Range(chan'[Watcher]))
  /\ UNCHANGED <<world, run, desired, watch, cancels, endpoints, installed, due, failed, late, silent>>

ClusterChange(s, o) ==
  /\ changes < MaxChanges /\ cluster[s] # o
  /\ cluster' = [cluster EXCEPT ![s] = o] /\ changes' = changes + 1
  /\ UNCHANGED <<storeVars, run, desired, watch, cancels, endpoints, installed, due, ghosts>>

\* The gateway rebuilds for events of the store.
GatewayRebuild ==
  /\ due /\ due' = FALSE
  /\ installed' = endpoints /\ silent' = {}
  /\ UNCHANGED <<storeVars, world, run, desired, watch, cancels, endpoints, failed, missed, late>>

----------------------------------------------------------------------------
RunStart ==
  /\ run = "subscribe" /\ run' = "list"
  /\ Subscribe(Watcher)
  /\ UNCHANGED <<world, desired, watch, cancels, endpoints, installed, due, ghosts>>

\* Mutant of RunEvent: nothing to reconcile once there is a watch.
RunEventOnce ==
  /\ run = "loop"
  /\ Receive(Watcher)
  /\ run' = IF Head(chan[Watcher]) = "destinations" /\ watch = << >> THEN "list" ELSE "loop"
  /\ UNCHANGED <<world, desired, watch, cancels, endpoints, installed, due, ghosts>>

RunEvent ==
  /\ run = "loop"
  /\ Receive(Watcher)
  /\ run' = IF Head(chan[Watcher]) = "destinations" THEN "list" ELSE "loop"
  /\ UNCHANGED <<world, desired, watch, cancels, endpoints, installed, due, ghosts>>

\* reconcile lists the destinations before it takes the lock.
List ==
  /\ run = "list" /\ run' = "apply"
  /\ desired' = data["destinations"]
  /\ missed' = FALSE
  /\ UNCHANGED <<storeVars, world, watch, cancels, endpoints, installed, due, failed, late, silent>>

Started(i) ==
  [dest |-> i, svc |-> desired[i].host, port |-> desired[i].port, cancelled |-> FALSE,
   kind |-> IF cluster[desired[i].host].type = "external" THEN "external" ELSE "slices",
   view |-> NoObject, queue |-> << >>, pc |-> "idle", eps |-> {}, quiet |-> FALSE]

\* Mutant of Cancelled: the entry goes without a call of cancel.
CancelledNot(w, removed) == w

Cancelled(w, removed) == [w EXCEPT !.cancelled = @ \/ w.dest \in removed]

\* reconcile under the lock: watches of removed destinations are cancelled and
\* their endpoints forgotten; a destination without a watch gets one if its
\* Service can be read, in any order.  A watch that exists is left as it is.
Apply(unread) ==
  /\ run = "apply" /\ run' = "loop"
  /\ LET removed == {i \in Ids : cancels[i] # 0 /\ ~isEDS(desired[i])}
         new == {i \in Ids : cancels[i] = 0 /\ Watchable(desired, i)}
         found == {i \in new : cluster[desired[i].host] # NoObject} \ unread
     IN /\ unread \subseteq new
        /\ \E order \in Bijection(found, 1 .. Cardinality(found)) :
             /\ watch' = [x \in 1 .. Len(watch) + Cardinality(found) |->
                            IF x > Len(watch) THEN Started(CHOOSE i \in found : order[i] = x - Len(watch))
                            ELSE Cancelled(watch[x], removed)]
             /\ cancels' = [i \in Ids |-> IF i \in removed THEN 0
                                          ELSE IF i \in found THEN Len(watch) + order[i]
                                          ELSE cancels[i]]
        /\ endpoints' = [i \in Ids |-> IF i \in removed THEN {} ELSE endpoints[i]]
        /\ failed' = new \ found /\ late' = late \ removed
        /\ silent' = silent \union {i \in removed : endpoints[i] # {}}
  /\ UNCHANGED <<storeVars, world, desired, installed, due, missed>>

\* Run's context is cancelled.
stopAll ==
  /\ run = "loop" /\ run' = "stopped"
  /\ watch' = [x \in DOMAIN watch |-> Cancelled(watch[x], Ids)]
  /\ endpoints' = [i \in Ids |-> IF cancels[i] # 0 THEN {} ELSE endpoints[i]]
  /\ cancels' = [i \in Ids |-> 0]
  /\ Unsubscribe(Watcher)
  /\ UNCHANGED <<world, desired, installed, due, ghosts>>

----------------------------------------------------------------------------
\* The informer lists and watches: it may miss intermediate states.
Observe(x) ==
  LET object == See(watch[x].kind, cluster[watch[x].svc])
  IN /\ ~watch[x].cancelled /\ watch[x].view # object
     /\ watch' = [watch EXCEPT ![x].view = object, ![x].queue = Append(@, object)]
     /\ UNCHANGED <<storeVars, world, run, desired, cancels, endpoints, installed, due, ghosts>>

buildEndpoints(destPort, object) ==
  IF object = NoObject THEN {}
  ELSE {<<a, IF object.port # 0 THEN object.port ELSE destPort>> : a \in object.ready}

externalEndpoints(destPort, object) ==
  IF object = NoObject \/ object.type # "external" THEN {} ELSE {<<a, destPort>> : a \in object.ready}

\* A handler of an informer is called: for slices it looks at the informer's
\* store as it is now, for a Service at the object of the event.
OnEvent(x) ==
  LET w == watch[x]
      object == Head(w.queue)
  IN /\ w.pc = "idle" /\ w.queue # << >> /\ ~w.cancelled
     /\ watch' = [watch EXCEPT
          ![x].queue = Tail(@), ![x].pc = "lock",
          ![x].eps = IF w.kind = "slices" THEN buildEndpoints(w.port, w.view)
                     ELSE externalEndpoints(w.port, object),
          ![x].quiet = w.kind = "external" /\ object # NoObject /\ externalEndpoints(w.port, object) = {}]
     /\ UNCHANGED <<storeVars, world, run, desired, cancels, endpoints, installed, due, ghosts>>

\* Mutant of WriteEndpoints: no handler notifies of an empty list.
WriteEndpointsQuiet(x) ==
  LET w == watch[x]
      quiet == w.eps = {}
  IN /\ w.pc = "lock"
     /\ endpoints' = [endpoints EXCEPT ![w.dest] = w.eps]
     /\ watch' = [watch EXCEPT ![x].pc = IF quiet THEN "idle" ELSE "notify"]
     /\ late' = IF w.cancelled THEN late \union {w.dest} ELSE late \ {w.dest}
     /\ silent' = IF w.quiet THEN silent \union {w.dest} ELSE silent
     /\ UNCHANGED <<storeVars, world, run, desired, cancels, installed, due, failed, missed>>

\* The handler gets the lock, perhaps after its watch was cancelled, and
\* unless the Service has stopped being an ExternalName goes on to OnChange.
WriteEndpoints(x) ==
  LET w == watch[x]
  IN /\ w.pc = "lock"
     /\ endpoints' = [endpoints EXCEPT ![w.dest] = w.eps]
     /\ watch' = [watch EXCEPT ![x].pc = IF w.quiet THEN "idle" ELSE "notify"]
     /\ late' = IF w.cancelled THEN late \union {w.dest} ELSE late \ {w.dest}
     /\ silent' = IF w.quiet THEN silent \union {w.dest} ELSE silent
     /\ UNCHANGED <<storeVars, world, run, desired, cancels, installed, due, failed, missed>>

\* Mutant of notifyChange: it holds the lock that Endpoints takes.
notifyChangeLocked(x) ==
  /\ watch[x].pc = "notify" /\ \A y \in DOMAIN watch : watch[y].pc # "notify"
  /\ watch' = [watch EXCEPT ![x].pc = "idle"]
  /\ installed' = endpoints /\ silent' = {}
  /\ UNCHANGED <<storeVars, world, run, desired, cancels, endpoints, due, failed, missed, late>>

notifyChange(x) ==
  /\ watch[x].pc = "notify"
  /\ watch' = [watch EXCEPT ![x].pc = "idle"]
  /\ installed' = endpoints /\ silent' = {}
  /\ UNCHANGED <<storeVars, world, run, desired, cancels, endpoints, due, failed, missed, late>>

----------------------------------------------------------------------------
Progress ==
  \/ \E w \in Writers : Publish(w)
  \/ RunStart \/ RunEvent \/ List \/ \E unread \in SUBSET Ids : Apply(unread)
  \/ \E x \in DOMAIN watch : Observe(x) \/ OnEvent(x) \/ WriteEndpoints(x) \/ notifyChange(x)
  \/ GatewayRebuild

Next ==
  \/ \E w \in Writers : Write(w)
  \/ \E s \in Services, o \in Objects \union {NoObject} : ClusterChange(s, o)
  \/ stopAll
  \/ Progress

\* Goroutines run on; each of the finitely many writes and changes causes
\* finitely many of these steps.
Fairness == WF_vars(Progress)
Spec == Init /\ [][Next]_vars /\ Fairness

----------------------------------------------------------------------------
Live(x) == ~watch[x].cancelled

Seen == Objects \union {NoObject}
EndpointSets ==
  SUBSET ((UNION {o.ready : o \in Objects}) \X ({v.port : v \in Values} \union {o.port : o \in Objects}))
Watches ==
  [dest : Ids, svc : Services, port : {v.port : v \in Values}, cancelled : BOOLEAN,
   kind : {"slices", "external"}, view : Seen, queue : Seq(Seen),
   pc : {"idle", "lock", "notify"}, eps : EndpointSets, quiet : BOOLEAN]

TypeOK ==
  /\ StoreTypeOK
  /\ cluster \in [Services -> Seen]
  /\ run \in {"subscribe", "list", "apply", "loop", "stopped"}
  /\ desired \in Collection
  /\ watch \in Seq(Watches)
  /\ cancels \in [Ids -> 0 .. Len(watch)]
  /\ endpoints \in [Ids -> EndpointSets] /\ installed \in [Ids -> EndpointSets]
  /\ failed \subseteq Ids /\ late \subseteq Ids /\ silent \subseteq Ids /\ missed \in BOOLEAN

\* The watches that run are those the map of cancel functions can stop, one
\* for a destination: no goroutine is left behind by reconcile or stopAll.
WatchesOwned ==
  /\ \A x \in DOMAIN watch : Live(x) <=> cancels[watch[x].dest] = x
  /\ \A i \in Ids : cancels[i] # 0 => watch[cancels[i]].dest = i

\* At rest there is a watch for exactly the destinations that ask for one and
\* whose Service could be read, unless the store dropped the event of a change
\* because other events had filled the channel.  A Service that could not be
\* read is not tried again before the next destination is written.
WatchedAsStored ==
  run = "loop" /\ chan[Watcher] = << >> /\ AllPublished /\ ~missed =>
    \A i \in Ids :
      /\ cancels[i] # 0 => isEDS(data["destinations"][i])
      /\ Watchable(data["destinations"], i) /\ i \notin failed => cancels[i] # 0

\* Once an informer and the handlers have caught up, the endpoint map has what
\* the watch's Service says, and the gateway routes to it.  Excepted are
\* a handler that was waiting for the lock while its watch was cancelled and
\* writes afterwards, and the two ways to empty the list without a rebuild: a
\* Service that stops being an ExternalName, and the end of an earlier watch.
FollowsCluster ==
  \A x \in DOMAIN watch :
    LET w == watch[x]
        settled == /\ w.queue = << >> /\ w.view = See(w.kind, cluster[w.svc])
                   /\ \A y \in DOMAIN watch : watch[y].dest = w.dest => watch[y].pc = "idle"
        ready == IF w.view = NoObject \/ (w.kind = "external" /\ w.view.type # "external") THEN {}
                 ELSE w.view.ready
    IN Live(x) /\ settled /\ w.dest \notin late =>
         /\ {ep[1] : ep \in endpoints[w.dest]} = ready
         /\ installed[w.dest] = endpoints[w.dest] \/ w.dest \in silent

\* Every watch catches up, and with it the gateway.
EventuallyDiscovered ==
  []<>(\A x \in DOMAIN watch : Live(x) => /\ watch[x].pc = "idle" /\ watch[x].queue = << >>
                                           /\ watch[x].view = See(watch[x].kind, cluster[watch[x].svc]))
=============================================================================
