------------------------------ MODULE Dataplane ------------------------------
(***************************************************************************)
(* The proxy under reload: the router's table and the resources of its     *)
(* middlewares (router.go, accesslog.go, extproc.go), the listeners        *)
(* (listener.go), the metrics collectors and the requests in flight.       *)
(*                                                                         *)
(* A reload swaps the table, runs the clean-ups of the old one, reconciles *)
(* the listeners under lm.mu, waiting for every server it stops, and hands *)
(* the collectors to the router.  A proxy reloads from one goroutine, its  *)
(* sync client's (client.go, applySnapshot); an embedded gateway from its  *)
(* loop and from the informers of the Kubernetes watcher (gateway.go,      *)
(* rebuild), and nothing keeps these reloads apart.  Each listener is a    *)
(* goroutine of its own that binds its port when it is scheduled.  The     *)
(* process may be told to stop at any time.                                *)
(***************************************************************************)
EXTENDS RouteTable, Integers, FiniteSets

CONSTANTS
  Configs,      \* the configurations, by name: [routes, groups, listeners]
  Ids,          \* listener ids
  Reloaders,    \* the goroutines that reload
  Requests, Messages,   \* Messages: what a request may ask, [path, host, method]
  MaxReloads    \* bound on reloads

Listeners == UNION {Range(Configs[c].listeners) : c \in DOMAIN Configs}

ASSUME ReloadersAssumption == "free" \notin Reloaders /\ "shutdown" \notin Reloaders
ASSUME RequestsAssumption == IsFiniteSet(Requests)
ASSUME ConfigsAssumption == \A c \in DOMAIN Configs : DOMAIN Configs[c].listeners \subseteq Ids
ASSUME ListenersAssumption ==
  \A l \in Listeners : l = [port |-> l.port, tls |-> l.tls, timeouts |-> l.timeouts, metrics |-> l.metrics]

VARIABLES
  history,      \* the names of the configurations applied so far
  reload,       \* reload[g]: where g is, the table it built, the collectors it read
  overlap,      \* history: the latest reload began while another one ran
  closed,       \* the <<generation, resource>> a clean-up has closed
  lm,           \* who holds lm.mu: "free", "shutdown" or a reloader
  applied,      \* the configuration the latest Reconcile was given
  work,         \* the rest of Reconcile: [remove, add, wait]
  servers,      \* lm.servers: id -> server, 0 is none
  server,       \* all servers ever started, see NewServer
  collectors,   \* Router.collectors
  gauge,        \* in-flight gauge of each server's collector
  process,      \* "running", "signalled", "stopping", "stopped", "exited"
  req           \* the requests

vars == <<history, reload, overlap, closed, lm, applied, work, servers, server,
          collectors, gauge, process, req>>
reloading == <<history, reload, overlap>>
listening == <<lm, applied, work, servers, server>>

gen == Len(history)
Tables == [c \in DOMAIN Configs |-> BuildTable(Configs[c].routes, Configs[c].groups)]
table(g) == IF g = 0 THEN << >> ELSE Tables[history[g]]
listeners == Configs[history[applied]].listeners
NoWork == [remove |-> {}, add |-> {}, wait |-> 0]
NewServer(id, l) == [id |-> id, conf |-> l, state |-> "starting", cancelled |-> FALSE]
NoReload == [pc |-> "idle", gen |-> 0, collectors |-> {}]
Idle == [pc |-> "idle", gen |-> 0, lines |-> 0, lost |-> FALSE, collectors |-> {}]

\* NewRouter stores an empty table; no listener runs yet.
Init ==
  /\ history = << >>
  /\ reload = [g \in Reloaders |-> NoReload] /\ overlap = FALSE
  /\ closed = {}
  /\ lm = "free" /\ applied = 0 /\ work = NoWork
  /\ servers = [id \in Ids |-> 0] /\ server = << >>
  /\ collectors = {} /\ gauge = << >>
  /\ process = "running"
  /\ req = [r \in Requests |-> Idle]

----------------------------------------------------------------------------
\* BuildTable and Swap: from here on requests meet the new table.
SwapTable(g, c) ==
  /\ reload[g].pc = "idle" /\ gen < MaxReloads
  /\ history' = Append(history, c)
  /\ reload' = [reload EXCEPT ![g].pc = "cleanup", ![g].gen = gen + 1]
  /\ overlap' = (\E h \in Reloaders \ {g} : reload[h].pc # "idle")
  /\ UNCHANGED <<closed, listening, collectors, gauge, process, req>>

\* The clean-ups of the old table, one after the other, with no regard to the
\* requests that still use it; the empty table has none.
Resources == {"log", "processor"}

\* Mutant of Cleanup: the clean-ups of the table just swapped in are run.
CleanupOfNew(g, res) ==
  /\ reload[g].pc = "cleanup" /\ <<reload[g].gen, res>> \notin closed
  /\ closed' = closed \union {<<reload[g].gen, res>>}
  /\ UNCHANGED <<reloading, listening, collectors, gauge, process, req>>

Cleanup(g, res) ==
  /\ reload[g].pc = "cleanup" /\ reload[g].gen > 1
  /\ <<reload[g].gen - 1, res>> \notin closed
  /\ closed' = closed \union {<<reload[g].gen - 1, res>>}
  /\ UNCHANGED <<reloading, listening, collectors, gauge, process, req>>

CleanupDone(g) ==
  /\ reload[g].pc = "cleanup"
  /\ reload[g].gen > 1 => \A res \in Resources : <<reload[g].gen - 1, res>> \in closed
  /\ reload' = [reload EXCEPT ![g].pc = "reconcile"]
  /\ UNCHANGED <<history, overlap, closed, listening, collectors, gauge, process, req>>

----------------------------------------------------------------------------
\* Reconcile takes lm.mu; what is not desired is stopped first.
BeginReconcile(g) ==
  /\ reload[g].pc = "reconcile" /\ lm = "free"
  /\ lm' = g /\ applied' = reload[g].gen
  /\ LET desired == DOMAIN Configs[history[reload[g].gen]].listeners
     IN work' = [remove |-> {id \in Ids : servers[id] # 0} \ desired, add |-> desired, wait |-> 0]
  /\ UNCHANGED <<reloading, closed, servers, server, collectors, gauge, process, req>>

\* cancel, and then <-done before the entry is deleted.
Stop(id) ==
  /\ server' = [server EXCEPT ![servers[id]].cancelled = TRUE]
  /\ work' = [work EXCEPT !.remove = @ \ {id}, !.wait = servers[id]]
  /\ servers' = [servers EXCEPT ![id] = 0]
  /\ UNCHANGED <<lm, applied, gauge>>

StopRemoved(id) ==
  /\ lm # "free" /\ work.wait = 0 /\ id \in work.remove
  /\ Stop(id)
  /\ UNCHANGED <<reloading, closed, collectors, process, req>>

\* sameListener: everything but the timeouts.
sameListener(a, b) == [a EXCEPT !.timeouts = b.timeouts] = b

\* startListener: a certificate that does not parse starts nothing.
startListener(id, l) ==
  /\ IF l.tls = "bad" THEN UNCHANGED <<server, servers, gauge>>
     ELSE /\ server' = Append(server, NewServer(id, l))
          /\ servers' = [servers EXCEPT ![id] = Len(server) + 1]
          /\ gauge' = Append(gauge, 0)
  /\ work' = [work EXCEPT !.add = @ \ {id}]
  /\ UNCHANGED <<lm, applied>>

AddOrUpdate(id) ==
  /\ lm \in Reloaders /\ work.wait = 0 /\ work.remove = {} /\ id \in work.add
  /\ LET l == listeners[id]
     IN CASE servers[id] # 0 /\ sameListener(server[servers[id]].conf, l) ->
               /\ work' = [work EXCEPT !.add = @ \ {id}]
               /\ UNCHANGED <<lm, applied, servers, server, gauge>>
          [] servers[id] # 0 /\ ~sameListener(server[servers[id]].conf, l) -> Stop(id)
          [] OTHER -> startListener(id, l)
  /\ UNCHANGED <<reloading, closed, collectors, process, req>>

\* Mutant of Waited: done is not waited for.
WaitedForNothing ==
  /\ work.wait # 0
  /\ work' = [work EXCEPT !.wait = 0]
  /\ UNCHANGED <<reloading, closed, lm, applied, servers, server, collectors, gauge, process, req>>

\* <-ms.done returns when the server's goroutine has.
Waited ==
  /\ work.wait # 0 /\ server[work.wait].state \in {"failed", "closed"}
  /\ work' = [work EXCEPT !.wait = 0]
  /\ UNCHANGED <<reloading, closed, lm, applied, servers, server, collectors, gauge,
                 process, req>>

\* Mutant of EndReconcile: lm.mu is not unlocked.
EndReconcileLocked(g) ==
  /\ lm = g /\ reload[g].pc = "reconcile" /\ work = NoWork
  /\ reload' = [reload EXCEPT ![g].pc = "metrics"]
  /\ UNCHANGED <<history, overlap, closed, listening, collectors, gauge, process, req>>

\* Reconcile returns.
EndReconcile(g) ==
  /\ lm = g /\ work = NoWork
  /\ lm' = "free"
  /\ reload' = [reload EXCEPT ![g].pc = "metrics"]
  /\ UNCHANGED <<history, overlap, closed, applied, work, servers, server, collectors,
                 gauge, process, req>>

\* MetricsCollectors reads them under lm.mu; the router is given them after.
MetricsCollectors(g) ==
  /\ reload[g].pc = "metrics" /\ lm = "free"
  /\ reload' = [reload EXCEPT ![g].pc = "set", ![g].collectors =
                  {servers[id] : id \in {i \in Ids : servers[i] # 0 /\ server[servers[i]].conf.metrics}}]
  /\ UNCHANGED <<history, overlap, closed, listening, collectors, gauge, process, req>>

SetMetricsCollectors(g) ==
  /\ reload[g].pc = "set"
  /\ collectors' = reload[g].collectors
  /\ reload' = [reload EXCEPT ![g] = NoReload]
  /\ UNCHANGED <<history, overlap, closed, listening, gauge, process, req>>

----------------------------------------------------------------------------
\* Mutant of Listen: the port of a server that was shut down stays bound.
ListenNoReuse(n) ==
  /\ server[n].state = "starting"
  /\ LET taken == \E k \in DOMAIN server : server[k].state \in {"listening", "closed"}
                                            /\ server[k].conf.port = server[n].conf.port
     IN server' = [server EXCEPT ![n].state = IF taken THEN "failed" ELSE "listening"]
  /\ UNCHANGED <<reloading, closed, lm, applied, work, servers, collectors, gauge, process, req>>

\* The goroutine of a server: net.Listen fails if the port is taken.
Listen(n) ==
  /\ server[n].state = "starting"
  /\ LET taken == \E k \in DOMAIN server : server[k].state = "listening"
                                            /\ server[k].conf.port = server[n].conf.port
     IN server' = [server EXCEPT ![n].state = IF taken THEN "failed" ELSE "listening"]
  /\ UNCHANGED <<reloading, closed, lm, applied, work, servers, collectors, gauge,
                 process, req>>

\* Shutdown closes the socket, Serve returns; connections are left to finish.
Close(n) ==
  /\ server[n].state = "listening" /\ server[n].cancelled
  /\ server' = [server EXCEPT ![n].state = "closed"]
  /\ UNCHANGED <<reloading, closed, lm, applied, work, servers, collectors, gauge,
                 process, req>>

\* SIGTERM: ListenerManager.Shutdown takes lm.mu, stops every server as above,
\* and main returns, with a reload under way or not.
Signal ==
  /\ process = "running"
  /\ process' = "signalled"
  /\ UNCHANGED <<reloading, closed, listening, collectors, gauge, req>>

BeginShutdown ==
  /\ process = "signalled" /\ lm = "free"
  /\ process' = "stopping" /\ lm' = "shutdown"
  /\ work' = [NoWork EXCEPT !.remove = {id \in Ids : servers[id] # 0}]
  /\ UNCHANGED <<reloading, closed, applied, servers, server, collectors, gauge, req>>

EndShutdown ==
  /\ lm = "shutdown" /\ work = NoWork
  /\ process' = "stopped" /\ lm' = "free"
  /\ UNCHANGED <<reloading, closed, applied, work, servers, server, collectors, gauge,
                 req>>

Exit ==
  /\ process = "stopped"
  /\ process' = "exited"
  /\ UNCHANGED <<reloading, closed, listening, collectors, gauge, req>>

----------------------------------------------------------------------------
\* A connection is accepted; the handler runs when it is scheduled.
Accept(r, n) ==
  /\ req[r].pc = "idle" /\ server[n].state = "listening"
  /\ req' = [req EXCEPT ![r].pc = "accepted"]
  /\ UNCHANGED <<reloading, closed, listening, collectors, gauge, process>>

\* Router.ServeHTTP loads the table once, and the collectors if a route matches.
Serve(r, m) ==
  /\ req[r].pc = "accepted"
  /\ LET found == FirstMatch(table(gen), m) # 0
         mcs == IF found THEN collectors ELSE {}
     IN /\ req' = [req EXCEPT ![r].pc = IF found THEN "matched" ELSE "done",
                              ![r].gen = gen, ![r].collectors = mcs]
        /\ gauge' = [n \in DOMAIN gauge |-> IF n \in mcs THEN gauge[n] + 1 ELSE gauge[n]]
  /\ UNCHANGED <<reloading, closed, listening, collectors, process>>

\* writeLine to a closed file writes nothing.
Logged(r) ==
  LET open == <<req[r].gen, "log">> \notin closed
  IN [req[r] EXCEPT !.lines = IF open THEN @ + 1 ELSE @, !.lost = @ \/ ~open]

LogRequest(r) ==
  /\ req[r].pc = "matched"
  /\ req' = [req EXCEPT ![r] = [Logged(r) EXCEPT !.pc = "logged"]]
  /\ UNCHANGED <<reloading, closed, listening, collectors, gauge, process>>

\* The external processor is asked over the table's connection; without an
\* answer the request goes on if allowOnError is set and ends here if not.
Process(r) ==
  /\ req[r].pc = "logged"
  /\ LET open == <<req[r].gen, "processor">> \notin closed
     IN \E pc \in IF open THEN {"upstream"} ELSE {"upstream", "answered"} :
          req' = [req EXCEPT ![r].pc = pc, ![r].lost = @ \/ ~open]
  /\ UNCHANGED <<reloading, closed, listening, collectors, gauge, process>>

Upstream(r) ==
  /\ req[r].pc = "upstream"
  /\ req' = [req EXCEPT ![r].pc = "answered"]
  /\ UNCHANGED <<reloading, closed, listening, collectors, gauge, process>>

\* Mutant of Finish: the router's collectors of now, not those of the request.
FinishCurrent(r) ==
  /\ req[r].pc = "answered"
  /\ req' = [req EXCEPT ![r] = [Logged(r) EXCEPT !.pc = "done"]]
  /\ gauge' = [n \in DOMAIN gauge |-> IF n \in collectors THEN gauge[n] - 1 ELSE gauge[n]]
  /\ UNCHANGED <<reloading, closed, listening, collectors, process>>

\* The way back: the access log's second line, and the gauges of the
\* collectors the request began with.
Finish(r) ==
  /\ req[r].pc = "answered"
  /\ req' = [req EXCEPT ![r] = [Logged(r) EXCEPT !.pc = "done"]]
  /\ gauge' = [n \in DOMAIN gauge |-> IF n \in req[r].collectors THEN gauge[n] - 1 ELSE gauge[n]]
  /\ UNCHANGED <<reloading, closed, listening, collectors, process>>

\* The copy of the upstream's body fails: ReverseProxy panics with
\* ErrAbortHandler and neither the line nor the gauges are written.
Abort(r) ==
  /\ req[r].pc = "upstream"
  /\ req' = [req EXCEPT ![r].pc = "aborted"]
  /\ UNCHANGED <<reloading, closed, listening, collectors, gauge, process>>

ReloadStep(g) ==
  \/ \E res \in Resources : Cleanup(g, res)
  \/ CleanupDone(g) \/ BeginReconcile(g) \/ EndReconcile(g)
  \/ MetricsCollectors(g) \/ SetMetricsCollectors(g)
ListenerStep ==
  \/ \E id \in Ids : StopRemoved(id) \/ AddOrUpdate(id)
  \/ Waited
  \/ \E n \in DOMAIN server : Listen(n) \/ Close(n)
ShutdownStep == BeginShutdown \/ EndShutdown \/ Exit
RequestStep(r) ==
  \/ \E m \in Messages : Serve(r, m)
  \/ LogRequest(r) \/ Process(r) \/ Upstream(r) \/ Finish(r) \/ Abort(r)

Next ==
  /\ process # "exited"
  /\ \/ \E g \in Reloaders : ReloadStep(g) \/ \E c \in DOMAIN Configs : SwapTable(g, c)
     \/ ListenerStep
     \/ Signal \/ ShutdownStep
     \/ \E r \in Requests, n \in DOMAIN server : Accept(r, n)
     \/ \E r \in Requests : RequestStep(r)

\* Every goroutine that can go on does; reloads, requests and signals are not owed.
Fairness ==
  WF_vars(process # "exited" /\ ((\E g \in Reloaders : ReloadStep(g)) \/ ListenerStep \/ ShutdownStep))

Spec == Init /\ [][Next]_vars /\ Fairness

----------------------------------------------------------------------------
Servers ==
  [id : Ids, conf : Listeners, state : {"starting", "listening", "failed", "closed"},
   cancelled : BOOLEAN]
ReloadRecords ==
  [pc : {"idle", "cleanup", "reconcile", "metrics", "set"}, gen : 0 .. gen,
   collectors : SUBSET DOMAIN server]
RequestRecords ==
  [pc : {"idle", "accepted", "matched", "logged", "upstream", "answered", "done", "aborted"},
   gen : 0 .. gen, lines : Nat, lost : BOOLEAN, collectors : SUBSET DOMAIN server]

TypeOK ==
  /\ history \in Seq(DOMAIN Configs)
  /\ reload \in [Reloaders -> ReloadRecords] /\ overlap \in BOOLEAN
  /\ closed \subseteq (1 .. gen) \X Resources
  /\ lm \in {"free", "shutdown"} \union Reloaders /\ applied \in 0 .. gen
  /\ work \in [remove : SUBSET Ids, add : SUBSET Ids, wait : 0 .. Len(server)]
  /\ servers \in [Ids -> 0 .. Len(server)]
  /\ server \in Seq(Servers)
  /\ collectors \subseteq DOMAIN server
  /\ gauge \in Seq(Int) /\ Len(gauge) = Len(server)
  /\ process \in {"running", "signalled", "stopping", "stopped", "exited"}
  /\ req \in [Requests -> RequestRecords]

\* A request whose table is still the router's finds the log file and the
\* connection of its middlewares open: SwapTable swaps first and cleans up after.
CurrentTableOpen ==
  \A r \in Requests : req[r].lost => req[r].gen < gen

\* What a route with a group is meant to match: the group's part of the path,
\* then the route's, on one of the hostnames and methods of either.
Meant(r, g, m) ==
  LET outer == IF g.kind = "prefix" THEN {g.text} ELSE Range(g.text)
      inner == IF r.kind = "regex" THEN Range(r.text)
               ELSE {IF r.kind = "none" THEN IF g = NoGroup THEN <<"/">> ELSE << >> ELSE r.text}
  IN /\ \E o \in outer, i \in inner :
          IF r.kind = "path" /\ g.kind = "prefix" THEN m.path = o \o i ELSE HasPrefix(m.path, o \o i)
     /\ g.hosts \union r.hosts \in {{}, {"*"}} \/ m.host \in g.hosts \union r.hosts
     /\ r.methods = {} \/ m.method \in r.methods

\* compileRoute writes the anchor, and the prefix of a group, in front of the
\* first top-level alternative of a regular expression only, unless both the
\* group and the route have one and are put in parentheses.
Escapes(r, g) ==
  \/ g.kind = "prefix" /\ r.kind = "regex" /\ Len(r.text) > 1
  \/ g.kind = "regex" /\ r.kind = "none" /\ Len(g.text) > 1

\* A compiled route matches what was meant, and nothing else unless it escapes.
EntryAsMeant(cr, m) ==
  /\ Meant(cr.route, cr.group, m) => match(cr, m)
  /\ match(cr, m) => Meant(cr.route, cr.group, m) \/ Escapes(cr.route, cr.group)

GoodTables ==
  {c \in DOMAIN Configs : \A m \in Messages, i \in DOMAIN Tables[c] : EntryAsMeant(Tables[c][i], m)}

\* In every table the router comes to have, each route matches the requests
\* that its group and the route together describe: the composed paths, anchors
\* and hostnames of compileRoute lose nothing and let nothing in.
ComposedAsMeant == \A g \in DOMAIN history : history[g] \in GoodTables

AllIdle == \A g \in Reloaders : reload[g].pc = "idle"

\* Nobody holds lm.mu after a first Reconcile, and Shutdown has not had it.
Released == lm = "free" /\ process \in {"running", "signalled"} /\ applied > 0

\* Whenever nobody reconciles, ListenerManager has a server for every listener
\* of the configuration that Reconcile was given last and that could be
\* started, with what sameListener compares as the configuration has it, and no
\* other; no server that was stopped or replaced is left to hold a port or to
\* bind one later, since Reconcile waits on done.  That configuration is the one
\* of the router's table once reloads have ended, unless the latest of them
\* began beside another: then listeners and routes may be of two configurations.
ListenersReconciled ==
  /\ Released =>
       /\ \A id \in Ids :
            IF id \in DOMAIN listeners /\ listeners[id].tls # "bad"
            THEN /\ servers[id] # 0
                 /\ LET l == server[servers[id]].conf
                    IN [l EXCEPT !.timeouts = 0] = [listeners[id] EXCEPT !.timeouts = 0]
            ELSE servers[id] = 0
       /\ \A n \in DOMAIN server :
            server[n].state \in {"starting", "listening"} => servers[server[n].id] = n
  /\ ~overlap /\ AllIdle => applied = gen

\* The in-flight gauge of a collector is the number of requests that began
\* with it and have not ended, across every change of the collectors; a
\* handler that panics leaves its unit behind.
GaugeExact ==
  \A n \in DOMAIN gauge :
    gauge[n] = Cardinality({r \in Requests :
                             /\ n \in req[r].collectors
                             /\ req[r].pc \in {"matched", "logged", "upstream", "answered", "aborted"}})

\* Reloads and shutdown do not block each other, or wait for ever for a server
\* that has not bound its port, over lm.mu: reloads end unless the process
\* exits, and after a signal it does.
LockReleased ==
  /\ []<>(AllIdle \/ process = "exited")
  /\ (process = "signalled") ~> (process = "exited")

\* A listener of the latest Reconcile whose certificate parses and whose port no
\* other listener has had comes to listen, unless Reconcile runs again or the
\* process is stopped.
EventuallyListening ==
  \A id \in Ids :
    LET wanted == /\ Released /\ process = "running"
                  /\ id \in DOMAIN listeners /\ listeners[id].tls # "bad"
                  /\ \A n \in DOMAIN server :
                       server[n].id # id => server[n].conf.port # listeners[id].port
    IN wanted ~> \/ lm # "free" \/ process # "running"
                 \/ servers[id] # 0 /\ server[servers[id]].state = "listening"
=============================================================================
