--------------------------- MODULE DataplaneProofs ---------------------------
(***************************************************************************)
(* Dataplane for every number of reloaders, reloads, listeners and         *)
(* requests: what a request finds of its table's resources, the servers    *)
(* that the listener manager has when nobody reconciles, and the in-flight *)
(* gauges.  Leaves that need no arithmetic are left to Zenon.              *)
(***************************************************************************)
EXTENDS Dataplane, FiniteSetTheorems, TLAPS

----------------------------------------------------------------------------
(* The inductive invariant.                                                *)

\* Clean-ups concern tables that were replaced, and a request that has none
\* yet has lost nothing and is in no gauge.
OldClosed == \A c \in closed : c[1] < gen
Unserved ==
  \A r \in Requests : req[r].pc \in {"idle", "accepted"} => ~req[r].lost /\ req[r].collectors = {}

\* The entries of lm.servers are the servers that run; a server without one
\* has ended or is waited for.
Owned ==
  /\ \A id \in Ids : servers[id] # 0 => server[servers[id]].id = id
  /\ \A id \in work.remove : servers[id] # 0
  /\ \A n \in DOMAIN server :
       /\ server[n].conf.tls # "bad"
       /\ \/ server[n].state \in {"failed", "closed"}
          \/ work.wait = n
          \/ servers[server[n].id] = n

\* lm.servers has for a listener what the configuration says.
Settled(id) ==
  IF id \in DOMAIN listeners /\ listeners[id].tls # "bad"
  THEN /\ servers[id] # 0
       /\ [server[servers[id]].conf EXCEPT !.timeouts = 0] = [listeners[id] EXCEPT !.timeouts = 0]
  ELSE servers[id] = 0

\* Who holds lm.mu, and how far Reconcile has come.
Reconciling ==
  /\ lm = "free" => work = NoWork
  /\ lm = "shutdown" => process = "stopping"
  /\ lm \in Reloaders =>
       /\ applied > 0 /\ work.add \subseteq DOMAIN listeners
       /\ \A id \in Ids : \/ id \in work.add
                          \/ id \in work.remove /\ id \notin DOMAIN listeners
                          \/ id \notin work.remove /\ Settled(id)
  /\ Released => \A id \in Ids : Settled(id)

\* A reload that runs has a table of its own, and holds lm.mu only to reconcile.
\* Unless the latest began beside another, whoever runs has the router's table,
\* and the listeners are of that table or will be.
Reloading ==
  /\ \A g \in Reloaders :
       /\ reload[g].pc # "idle" => reload[g].gen > 0
       /\ lm = g => reload[g].pc = "reconcile" /\ applied = reload[g].gen
  /\ ~overlap =>
       /\ \A g \in Reloaders : reload[g].pc # "idle" => reload[g].gen = gen
       /\ applied = gen \/ \E g \in Reloaders : reload[g].pc \in {"cleanup", "reconcile"}

IInv ==
  TypeOK /\ OldClosed /\ Unserved /\ CurrentTableOpen /\ Owned /\ Reconciling /\ Reloading
    /\ GaugeExact

----------------------------------------------------------------------------
(* What a step preserves by leaving variables alone.                       *)

\* A step that leaves the listeners alone leaves what is known of them.
LEMMA ListenersKept ==
  ASSUME IInv, UNCHANGED <<history, listening, process>>
  PROVE  Owned' /\ Reconciling'
<1>1. Owned'
  BY Zenon DEF IInv, Owned, listening
<1>2. \A id \in Ids : Settled(id) => Settled(id)'
  BY Zenon DEF Settled, listeners, listening
<1>3. Reconciling'
  BY Zenon, <1>2 DEF IInv, Reconciling, Released, listeners, listening
<1> QED BY Zenon, <1>1, <1>3

\* A step of the listener manager leaves what is known of the requests.
LEMMA RequestsKept ==
  ASSUME IInv, UNCHANGED <<history, closed, gauge, req>>
  PROVE  OldClosed' /\ Unserved' /\ CurrentTableOpen' /\ GaugeExact'
BY Zenon DEF IInv, OldClosed, Unserved, CurrentTableOpen, GaugeExact, gen

\* Changes of the listeners' servers that leave their number alone.
LEMMA RecordsKept ==
  ASSUME IInv, UNCHANGED <<history, req>>, DOMAIN server' = DOMAIN server
  PROVE  req' \in [Requests -> RequestRecords'] /\ ReloadRecords' = ReloadRecords
BY Zenon DEF IInv, TypeOK, RequestRecords, ReloadRecords, gen

\* A step that is no reloader's leaves what is known of the reloads.
LEMMA ReloadingKept ==
  ASSUME IInv, UNCHANGED <<reloading, applied>>, \A g \in Reloaders : lm' = g => lm = g
  PROVE  Reloading'
BY Zenon DEF IInv, Reloading, reloading, gen

\* A reload goes on.
LEMMA ReloadUpdate ==
  ASSUME IInv, NEW g \in Reloaders, NEW x \in ReloadRecords, reload' = [reload EXCEPT ![g] = x]
  PROVE  /\ reload' \in [Reloaders -> ReloadRecords] /\ reload[g] \in ReloadRecords
         /\ reload'[g] = x /\ \A h \in Reloaders : h # g => reload'[h] = reload[h]
BY Zenon DEF IInv, TypeOK

\* The configuration in force is one of Configs.
LEMMA ListenerFact ==
  ASSUME TypeOK, NEW n \in 0 .. gen, n > 0
  PROVE  /\ DOMAIN Configs[history[n]].listeners \subseteq Ids
         /\ \A id \in DOMAIN Configs[history[n]].listeners : Configs[history[n]].listeners[id] \in Listeners
<1> DEFINE ls == Configs[history[n]].listeners
<1>1. history[n] \in DOMAIN Configs
  BY DEF TypeOK, gen
<1>2. DOMAIN ls \subseteq Ids
  BY Zenon, <1>1, ConfigsAssumption
<1>3. \A id \in DOMAIN ls : ls[id] \in Listeners
  <2>1. \A id \in DOMAIN ls : ls[id] \in Range(ls)
    BY Zenon DEF Range
  <2>2. Range(ls) \in {Range(Configs[c].listeners) : c \in DOMAIN Configs}
    BY Zenon, <1>1
  <2> QED BY Zenon, <2>1, <2>2 DEF Listeners
<1> QED BY Zenon, <1>2, <1>3

\* The number of the current table counts the swaps.
LEMMA GenNat ==
  ASSUME TypeOK
  PROVE  gen \in Nat
BY DEF TypeOK, gen

----------------------------------------------------------------------------
(* Steps of a reload.                                                      *)

\* Swap: every table that has been cleaned up is older than the new one.
LEMMA SwapStep ==
  ASSUME IInv, NEW g \in Reloaders, NEW c \in DOMAIN Configs, SwapTable(g, c)
  PROVE  IInv'
<1> DEFINE x == [reload[g] EXCEPT !.pc = "cleanup", !.gen = gen + 1]
<1>1. /\ reload[g].pc = "idle" /\ history' = Append(history, c)
      /\ reload' = [reload EXCEPT ![g].pc = "cleanup", ![g].gen = gen + 1]
      /\ overlap' = (\E h \in Reloaders \ {g} : reload[h].pc # "idle")
      /\ UNCHANGED <<closed, listening, collectors, gauge, process, req>>
  BY Zenon DEF SwapTable
<1>2. history' \in Seq(DOMAIN Configs) /\ gen \in Nat /\ gen' = gen + 1
      /\ \A n \in 1 .. gen : history'[n] = history[n]
  BY <1>1 DEF IInv, TypeOK, gen
<1>3. closed' \subseteq (1 .. gen') \X Resources
  <2>1. (1 .. gen) \subseteq (1 .. gen')
    BY <1>2
  <2>2. closed \subseteq (1 .. gen) \X Resources
    BY Zenon DEF IInv, TypeOK
  <2>3. closed \subseteq (1 .. gen') \X Resources
    BY <2>1, <2>2
  <2> QED BY Zenon, <1>1, <2>3
<1>4. req' \in [Requests -> RequestRecords']
  <2>1. \A y \in RequestRecords : y \in RequestRecords'
    BY <1>1, <1>2 DEF RequestRecords, listening
  <2> QED BY Zenon, <1>1, <2>1 DEF IInv, TypeOK
<1>5. /\ reload' \in [Reloaders -> ReloadRecords'] /\ reload'[g].pc = "cleanup" /\ reload'[g].gen = gen'
      /\ \A h \in Reloaders : h # g => reload'[h] = reload[h]
  <2>1. reload \in [Reloaders -> ReloadRecords] /\ reload[g] \in ReloadRecords
    BY Zenon DEF IInv, TypeOK
  <2>2. \A y \in ReloadRecords : y \in ReloadRecords'
    BY <1>1, <1>2 DEF ReloadRecords, listening
  <2>3. reload[g] \in ReloadRecords' /\ gen + 1 \in 0 .. gen'
    BY <1>2, <2>1, <2>2
  <2>4. x \in ReloadRecords' /\ x.pc = "cleanup" /\ x.gen = gen' /\ reload' = [reload EXCEPT ![g] = x]
    BY Zenon, <1>1, <1>2, <2>1, <2>3 DEF ReloadRecords
  <2> HIDE DEF x
  <2> QED BY Zenon, <2>1, <2>2, <2>4
<1>6. applied \in 0 .. gen /\ applied \in 0 .. gen' /\ applied' = applied
  <2>1. applied \in 0 .. gen /\ applied' = applied
    BY Zenon, <1>1 DEF IInv, TypeOK, listening
  <2> QED BY <1>2, <2>1
<1>7. overlap' \in BOOLEAN
  BY Zenon, <1>1
<1>8. TypeOK'
  BY Zenon, <1>1, <1>2, <1>3, <1>4, <1>5, <1>6, <1>7 DEF IInv, TypeOK, listening
<1>9. OldClosed'
  <2>1. \A y \in closed : y[1] \in Nat /\ y[1] < gen
    BY DEF IInv, TypeOK, OldClosed
  <2> QED BY <1>1, <1>2, <2>1 DEF OldClosed
<1>10. CurrentTableOpen'
  <2>1. ASSUME NEW r \in Requests, req[r].lost PROVE req[r].gen < gen'
    <3>1. req[r].gen \in Nat
      BY DEF IInv, TypeOK, RequestRecords
    <3>2. req[r].gen < gen
      BY Zenon, <2>1 DEF IInv, CurrentTableOpen
    <3> QED BY <1>2, <3>1, <3>2
  <2> QED BY Zenon, <1>1, <2>1 DEF CurrentTableOpen
<1>11. Unserved' /\ GaugeExact' /\ Owned'
  BY Zenon, <1>1 DEF IInv, Unserved, GaugeExact, Owned, listening
<1>12. Reconciling'
  <2>1. applied > 0 => listeners' = listeners
    BY <1>2, <1>6 DEF listeners
  <2>2. applied > 0 => \A id \in Ids : Settled(id) => Settled(id)'
    BY Zenon, <1>1, <2>1 DEF Settled, listening
  <2> QED BY Zenon, <1>1, <1>6, <2>1, <2>2 DEF IInv, Reconciling, Released, listening
<1>13. Reloading'
  <2>1. gen' > 0 /\ lm # g
    BY <1>1, <1>2 DEF IInv, Reloading
  <2>2. ASSUME ~overlap', NEW h \in Reloaders, reload'[h].pc # "idle" PROVE reload'[h].gen = gen'
    BY Zenon, <1>1, <1>5, <2>2
  <2> QED BY Zenon, <1>1, <1>5, <1>6, <2>1, <2>2 DEF IInv, Reloading, listening
<1> QED BY Zenon, <1>8, <1>9, <1>10, <1>11, <1>12, <1>13 DEF IInv

\* A clean-up closes what belongs to a table before the reload's own.
LEMMA CleanupStep ==
  ASSUME IInv, NEW g \in Reloaders, NEW res \in Resources, Cleanup(g, res)
  PROVE  IInv'
<1> DEFINE n == reload[g].gen
<1>1. /\ n > 1 /\ closed' = closed \union {<<n - 1, res>>}
      /\ UNCHANGED <<reloading, listening, collectors, gauge, process, req>>
  BY Zenon DEF Cleanup
<1>2. gen \in Nat /\ n \in 0 .. gen
  <2>1. reload[g] \in ReloadRecords
    BY Zenon DEF IInv, TypeOK
  <2> QED BY Zenon, <2>1, GenNat DEF IInv, ReloadRecords
<1> HIDE DEF n
<1>3. n - 1 \in 1 .. gen /\ n - 1 < gen
  BY <1>1, <1>2
<1>4. gen' = gen /\ DOMAIN server' = DOMAIN server /\ history' = history
  BY Zenon, <1>1 DEF gen, listening, reloading
<1>5. TypeOK'
  <2>1. closed' \subseteq (1 .. gen) \X Resources
    <3>1. <<n - 1, res>> \in (1 .. gen) \X Resources
      BY Zenon, <1>3
    <3> QED BY Zenon, <1>1, <3>1 DEF IInv, TypeOK
  <2>2. req' \in [Requests -> RequestRecords'] /\ ReloadRecords' = ReloadRecords
    BY Zenon, <1>1, <1>4, RecordsKept
  <2> QED BY Zenon, <1>1, <1>4, <2>1, <2>2 DEF IInv, TypeOK, listening, reloading
<1>6. OldClosed'
  <2>1. <<n - 1, res>>[1] = n - 1
    BY Zenon
  <2> QED BY Zenon, <1>1, <1>3, <1>4, <2>1 DEF IInv, OldClosed
<1>7. Unserved' /\ GaugeExact' /\ CurrentTableOpen'
  BY Zenon, <1>1, <1>4 DEF IInv, Unserved, GaugeExact, CurrentTableOpen
<1>8. Owned' /\ Reconciling' /\ Reloading'
  BY Zenon, <1>1, <1>4, ListenersKept, ReloadingKept DEF listening
<1> QED BY Zenon, <1>5, <1>6, <1>7, <1>8 DEF IInv

\* The clean-up of the old table has ended; Reconcile is next.
LEMMA CleanupDoneStep ==
  ASSUME IInv, NEW g \in Reloaders, CleanupDone(g)
  PROVE  IInv'
<1> DEFINE x == [reload[g] EXCEPT !.pc = "reconcile"]
<1>1. /\ reload[g].pc = "cleanup" /\ reload' = [reload EXCEPT ![g] = x]
      /\ UNCHANGED <<history, overlap, closed, listening, collectors, gauge, process, req>>
  BY Zenon DEF CleanupDone
<1>2. x \in ReloadRecords /\ x.pc = "reconcile" /\ x.gen = reload[g].gen
  BY Zenon DEF IInv, TypeOK, ReloadRecords
<1> HIDE DEF x
<1>3. /\ reload' \in [Reloaders -> ReloadRecords]
      /\ reload'[g] = x /\ \A h \in Reloaders : h # g => reload'[h] = reload[h]
  BY Zenon, <1>1, <1>2, ReloadUpdate
<1>4. gen' = gen /\ DOMAIN server' = DOMAIN server
  BY Zenon, <1>1 DEF gen, listening
<1>5. TypeOK'
  <2>1. req' \in [Requests -> RequestRecords'] /\ ReloadRecords' = ReloadRecords
    BY Zenon, <1>1, <1>4, RecordsKept
  <2> QED BY Zenon, <1>1, <1>3, <1>4, <2>1 DEF IInv, TypeOK, listening
<1>6. OldClosed' /\ Unserved' /\ CurrentTableOpen' /\ GaugeExact'
  BY Zenon, <1>1, RequestsKept
<1>7. Owned' /\ Reconciling'
  BY Zenon, <1>1, ListenersKept
<1>8. Reloading'
  <2>1. lm # g /\ reload[g].gen > 0 /\ (~overlap => reload[g].gen = gen)
    BY <1>1 DEF IInv, Reloading
  <2>2. reload'[g].pc \in {"cleanup", "reconcile"}
    BY <1>2, <1>3
  <2> QED BY Zenon, <1>1, <1>2, <1>3, <1>4, <2>1, <2>2 DEF IInv, Reloading, listening
<1> QED BY Zenon, <1>5, <1>6, <1>7, <1>8 DEF IInv

----------------------------------------------------------------------------
(* Steps of the listener manager.                                          *)

\* Reconcile begins: what is not desired goes first, and the rest is to do.
LEMMA BeginReconcileStep ==
  ASSUME IInv, NEW g \in Reloaders, BeginReconcile(g)
  PROVE  IInv'
<1> DEFINE desired == DOMAIN Configs[history[reload[g].gen]].listeners
<1>1. /\ reload[g].pc = "reconcile" /\ lm = "free" /\ lm' = g /\ applied' = reload[g].gen
      /\ work' = [remove |-> {id \in Ids : servers[id] # 0} \ desired, add |-> desired, wait |-> 0]
      /\ UNCHANGED <<history, reload, overlap, closed, servers, server, collectors, gauge, process, req>>
  BY Zenon DEF BeginReconcile, reloading
<1>2. gen' = gen /\ DOMAIN server' = DOMAIN server /\ DOMAIN listeners' = desired
  BY Zenon, <1>1 DEF gen, listeners
<1>3. reload[g].gen \in 0 .. gen /\ reload[g].gen > 0
  <2>1. reload[g] \in ReloadRecords /\ reload[g].pc # "idle"
    BY <1>1 DEF IInv, TypeOK
  <2> QED BY Zenon, <2>1 DEF IInv, Reloading, ReloadRecords
<1>4. desired \subseteq Ids
  BY Zenon, <1>3, ListenerFact DEF IInv
<1> HIDE DEF desired
<1>5. /\ work'.remove = {id \in Ids : servers[id] # 0} \ desired
      /\ work'.add = desired /\ work'.wait = 0
  BY Zenon, <1>1
<1>6. TypeOK'
  <2>1. work' \in [remove : SUBSET Ids, add : SUBSET Ids, wait : 0 .. Len(server')]
    <3>1. Len(server) \in Nat
      BY DEF IInv, TypeOK
    <3>2. 0 \in 0 .. Len(server)
      BY <3>1
    <3> QED BY Zenon, <1>1, <1>4, <3>2
  <2>2. req' \in [Requests -> RequestRecords'] /\ ReloadRecords' = ReloadRecords
    BY Zenon, <1>1, <1>2, RecordsKept
  <2> QED BY Zenon, <1>1, <1>2, <1>3, <2>1, <2>2 DEF IInv, TypeOK
<1>7. OldClosed' /\ Unserved' /\ CurrentTableOpen' /\ GaugeExact'
  BY Zenon, <1>1, RequestsKept
<1>8. Owned'
  <2>1. work.wait = 0
    BY <1>1 DEF IInv, Reconciling, NoWork
  <2> QED BY Zenon, <1>1, <1>5, <2>1 DEF IInv, Owned
<1>9. lm' # "free" /\ lm' # "shutdown"
  BY Zenon, <1>1, ReloadersAssumption
<1>10. Reconciling'
  <2>1. ASSUME NEW id \in Ids, id \notin work'.add, id \notin work'.remove PROVE Settled(id)'
    BY Zenon, <1>1, <1>2, <1>5, <2>1 DEF Settled
  <2>2. \A id \in work'.remove : id \notin DOMAIN listeners'
    BY Zenon, <1>2, <1>5
  <2>3. work'.add \subseteq DOMAIN listeners' /\ applied' > 0 /\ ~Released'
    BY Zenon, <1>1, <1>2, <1>3, <1>5, <1>9 DEF Released
  <2> QED BY Zenon, <1>9, <2>1, <2>2, <2>3 DEF Reconciling
<1>11. Reloading'
  <2>1. reload[g].pc # "idle" /\ (~overlap => reload[g].gen = gen)
    BY <1>1 DEF IInv, Reloading
  <2> QED BY Zenon, <1>1, <1>2, <2>1 DEF IInv, Reloading
<1> QED BY Zenon, <1>6, <1>7, <1>8, <1>10, <1>11 DEF IInv

\* A server that changes keeps its id and configuration.
LEMMA ServerUpdate ==
  ASSUME TypeOK, NEW n \in DOMAIN server, NEW x \in Servers,
         server' = [server EXCEPT ![n] = x], x.id = server[n].id, x.conf = server[n].conf
  PROVE  /\ server' \in Seq(Servers) /\ DOMAIN server' = DOMAIN server /\ Len(server') = Len(server)
         /\ server'[n] = x /\ \A k \in DOMAIN server : k # n => server'[k] = server[k]
         /\ \A k \in DOMAIN server : server'[k].id = server[k].id /\ server'[k].conf = server[k].conf
<1>1. server' \in Seq(Servers) /\ DOMAIN server' = DOMAIN server /\ Len(server') = Len(server)
  BY DEF TypeOK
<1>2. server'[n] = x /\ \A k \in DOMAIN server : k # n => server'[k] = server[k]
  BY Zenon
<1> QED BY Zenon, <1>1, <1>2

\* Listeners stay settled while their servers keep their configurations.
LEMMA SettledKept ==
  ASSUME TypeOK, TypeOK', UNCHANGED <<history, applied>>, NEW id \in Ids, Settled(id), servers'[id] = servers[id],
         \A k \in DOMAIN server : server'[k].conf = server[k].conf
  PROVE  Settled(id)'
<1>1. servers[id] # 0 => servers[id] \in DOMAIN server
  BY DEF TypeOK
<1>2. listeners' = listeners
  BY Zenon DEF listeners
<1> QED BY Zenon, <1>1, <1>2 DEF Settled

\* cancel: the entry is gone, and its server is the one that is waited for.
LEMMA StopFact ==
  ASSUME IInv, NEW id \in Ids, servers[id] # 0, work.wait = 0, Stop(id),
         UNCHANGED <<reloading, closed, collectors, process, req>>
  PROVE  /\ TypeOK' /\ Owned' /\ OldClosed' /\ Unserved' /\ CurrentTableOpen' /\ GaugeExact'
         /\ servers'[id] = 0 /\ UNCHANGED <<lm, applied, listeners>> /\ Reloading'
         /\ work'.add = work.add /\ work'.remove = work.remove \ {id}
         /\ \A i \in Ids : i # id /\ Settled(i) => Settled(i)'
<1> DEFINE n == servers[id]
           x == [server[n] EXCEPT !.cancelled = TRUE]
<1>1. /\ server' = [server EXCEPT ![n].cancelled = TRUE]
      /\ work' = [work EXCEPT !.remove = @ \ {id}, !.wait = n]
      /\ servers' = [servers EXCEPT ![id] = 0] /\ UNCHANGED <<lm, applied, gauge>>
      /\ UNCHANGED <<history, reload, overlap>>
  BY Zenon DEF Stop, reloading
<1>2. /\ server \in Seq(Servers) /\ servers \in [Ids -> 0 .. Len(server)]
      /\ work \in [remove : SUBSET Ids, add : SUBSET Ids, wait : 0 .. Len(server)]
  BY Zenon DEF IInv, TypeOK
<1>3. n \in DOMAIN server /\ n \in 0 .. Len(server)
  BY <1>2
<1> HIDE DEF n
<1>4. server[n] \in Servers
  BY <1>2, <1>3
<1>5. /\ x \in Servers /\ x.id = server[n].id /\ x.conf = server[n].conf
      /\ server' = [server EXCEPT ![n] = x]
  BY Zenon, <1>1, <1>3, <1>4 DEF Servers
<1> HIDE DEF x
<1>6. /\ server' \in Seq(Servers) /\ DOMAIN server' = DOMAIN server /\ Len(server') = Len(server)
      /\ server'[n] = x /\ \A k \in DOMAIN server : k # n => server'[k] = server[k]
      /\ \A k \in DOMAIN server : server'[k].id = server[k].id /\ server'[k].conf = server[k].conf
  BY Zenon, <1>3, <1>5, ServerUpdate DEF IInv
<1>7. /\ work' \in [remove : SUBSET Ids, add : SUBSET Ids, wait : 0 .. Len(server')]
      /\ work'.add = work.add /\ work'.remove = work.remove \ {id} /\ work'.wait = n
  BY Zenon, <1>1, <1>2, <1>3, <1>6
<1>8. /\ servers' \in [Ids -> 0 .. Len(server')] /\ servers'[id] = 0
      /\ \A i \in Ids : i # id => servers'[i] = servers[i]
  BY <1>1, <1>2, <1>6
<1>9. TypeOK'
  <2>1. req' \in [Requests -> RequestRecords'] /\ ReloadRecords' = ReloadRecords
    BY Zenon, <1>1, <1>6, RecordsKept
  <2> QED BY Zenon, <1>1, <1>6, <1>7, <1>8, <2>1 DEF IInv, TypeOK, gen
<1>10. OldClosed' /\ Unserved' /\ CurrentTableOpen' /\ GaugeExact'
  BY Zenon, <1>1, RequestsKept
<1>11. Owned'
  <2>1. ASSUME NEW i \in Ids, servers'[i] # 0 PROVE server'[servers'[i]].id = i
    <3>1. servers'[i] = servers[i] /\ servers[i] # 0
      BY Zenon, <1>8, <2>1
    <3>2. servers[i] \in DOMAIN server
      BY <1>2, <3>1
    <3> QED BY Zenon, <1>6, <3>1, <3>2 DEF IInv, Owned
  <2>2. ASSUME NEW i \in work'.remove PROVE servers'[i] # 0
    BY Zenon, <1>2, <1>7, <1>8, <2>2 DEF IInv, Owned
  <2>3. ASSUME NEW k \in DOMAIN server'
        PROVE  /\ server'[k].conf.tls # "bad"
               /\ \/ server'[k].state \in {"failed", "closed"}
                  \/ work'.wait = k
                  \/ servers'[server'[k].id] = k
    <3>1. server[k].conf.tls # "bad" /\ server'[k].conf = server[k].conf
      BY Zenon, <1>6 DEF IInv, Owned
    <3>2. CASE k = n
      BY Zenon, <1>7, <3>1, <3>2
    <3>3. CASE k # n
      <4>1. server'[k] = server[k] /\ server[k].id \in Ids
        <5>1. server'[k] = server[k] /\ k \in DOMAIN server
          BY Zenon, <1>6, <3>3
        <5>2. server[k] \in Servers
          BY <1>2, <5>1
        <5>3. server[k].id \in Ids
          BY Zenon, <5>2 DEF Servers
        <5> QED BY Zenon, <5>1, <5>3
      <4>2. k # 0
        BY <1>2, <1>6
      <4>3. server[k].state \in {"failed", "closed"} \/ servers[server[k].id] = k
        BY Zenon, <1>6, <4>2 DEF IInv, Owned
      <4>4. servers[server[k].id] = k => server[k].id # id
        BY Zenon, <3>3 DEF n
      <4> QED BY Zenon, <1>8, <3>1, <4>1, <4>3, <4>4
    <3> QED BY Zenon, <3>2, <3>3
  <2> QED BY Zenon, <2>1, <2>2, <2>3 DEF Owned
<1>12. \A i \in Ids : i # id /\ Settled(i) => Settled(i)'
  BY Zenon, <1>1, <1>6, <1>8, <1>9, SettledKept DEF IInv
<1>13. Reloading' /\ listeners' = listeners
  BY Zenon, <1>1, ReloadingKept DEF listeners
<1> QED BY Zenon, <1>1, <1>7, <1>8, <1>9, <1>10, <1>11, <1>12, <1>13

\* A server of a listener that the configuration has no more is stopped, or
\* any at all when the process shuts down.
LEMMA StopRemovedStep ==
  ASSUME IInv, NEW id \in Ids, StopRemoved(id)
  PROVE  IInv'
<1>1. /\ lm # "free" /\ work.wait = 0 /\ id \in work.remove /\ Stop(id)
      /\ UNCHANGED <<reloading, closed, collectors, process, req>>
  BY Zenon DEF StopRemoved
<1>2. servers[id] # 0
  BY Zenon, <1>1 DEF IInv, Owned
<1>3. /\ TypeOK' /\ Owned' /\ OldClosed' /\ Unserved' /\ CurrentTableOpen' /\ GaugeExact'
      /\ servers'[id] = 0 /\ UNCHANGED <<lm, applied, listeners>> /\ Reloading'
      /\ work'.add = work.add /\ work'.remove = work.remove \ {id}
      /\ \A i \in Ids : i # id /\ Settled(i) => Settled(i)'
  BY Zenon, <1>1, <1>2, StopFact
<1>4. CASE lm \in Reloaders
  <2>1. /\ applied > 0 /\ work.add \subseteq DOMAIN listeners
        /\ \A i \in Ids : \/ i \in work.add
                          \/ i \in work.remove /\ i \notin DOMAIN listeners
                          \/ i \notin work.remove /\ Settled(i)
    BY Zenon, <1>4 DEF IInv, Reconciling
  <2>2. id \notin DOMAIN listeners => Settled(id)'
    BY Zenon, <1>3 DEF Settled
  <2>3. ASSUME NEW i \in Ids
        PROVE  \/ i \in work'.add
               \/ i \in work'.remove /\ i \notin DOMAIN listeners
               \/ i \notin work'.remove /\ Settled(i)'
    BY Zenon, <1>1, <1>3, <2>1, <2>2
  <2>4. lm' # "free" /\ lm' # "shutdown" /\ ~Released'
    BY Zenon, <1>1, <1>3, <1>4, ReloadersAssumption DEF Released
  <2>5. Reconciling'
    BY Zenon, <1>3, <2>1, <2>3, <2>4 DEF Reconciling
  <2> QED BY Zenon, <1>3, <2>5 DEF IInv
<1>5. CASE lm = "shutdown"
  <2>1. process' = "stopping"
    BY Zenon, <1>1, <1>5 DEF IInv, Reconciling
  <2>2. lm' \notin Reloaders /\ lm' # "free" /\ ~Released'
    BY Zenon, <1>1, <1>3, <1>5, ReloadersAssumption DEF Released
  <2>3. Reconciling'
    BY Zenon, <2>1, <2>2 DEF Reconciling
  <2> QED BY Zenon, <1>3, <2>3 DEF IInv
<1> QED BY Zenon, <1>1, <1>4, <1>5 DEF IInv, TypeOK

\* A server that waits to be scheduled is started for a listener without one.
LEMMA StartFact ==
  ASSUME IInv, NEW id \in Ids, servers[id] = 0, work.wait = 0, work.remove = {},
         NEW l \in Listeners, l.tls # "bad", startListener(id, l),
         UNCHANGED <<reloading, closed, collectors, process, req>>
  PROVE  /\ TypeOK' /\ Owned' /\ OldClosed' /\ Unserved' /\ CurrentTableOpen' /\ GaugeExact'
         /\ servers'[id] # 0 /\ server'[servers'[id]].conf = l
         /\ UNCHANGED <<lm, applied, listeners>> /\ Reloading'
         /\ work'.add = work.add \ {id} /\ work'.remove = work.remove
         /\ \A i \in Ids : i # id /\ Settled(i) => Settled(i)'
<1> DEFINE m == Len(server) + 1
           s == NewServer(id, l)
<1>1. /\ server' = Append(server, s) /\ servers' = [servers EXCEPT ![id] = m]
      /\ gauge' = Append(gauge, 0) /\ work' = [work EXCEPT !.add = @ \ {id}]
      /\ UNCHANGED <<lm, applied>> /\ UNCHANGED <<history, reload, overlap>>
  BY Zenon DEF startListener, reloading
<1>2. /\ server \in Seq(Servers) /\ servers \in [Ids -> 0 .. Len(server)]
      /\ work \in [remove : SUBSET Ids, add : SUBSET Ids, wait : 0 .. Len(server)]
      /\ gauge \in Seq(Int) /\ Len(gauge) = Len(server)
  BY Zenon DEF IInv, TypeOK
<1>3. s \in Servers /\ s.id = id /\ s.conf = l
  BY Zenon DEF NewServer, Servers
<1> HIDE DEF s
<1>4. /\ server' \in Seq(Servers) /\ Len(server') = m /\ m \in Nat \ {0} /\ Len(server) \in Nat
      /\ DOMAIN server' = DOMAIN server \union {m} /\ m \notin DOMAIN server
      /\ DOMAIN server = 1 .. Len(server)
      /\ server'[m] = s /\ \A k \in DOMAIN server : server'[k] = server[k]
  BY <1>1, <1>2, <1>3
<1>5. /\ gauge' \in Seq(Int) /\ Len(gauge') = m /\ DOMAIN gauge' = DOMAIN gauge \union {m}
      /\ DOMAIN gauge = DOMAIN server
      /\ gauge'[m] = 0 /\ \A k \in DOMAIN gauge : gauge'[k] = gauge[k]
  BY <1>1, <1>2
<1> HIDE DEF m
<1>6. /\ servers'[id] = m /\ \A i \in Ids : i # id => servers'[i] = servers[i]
  BY Zenon, <1>1, <1>2
<1>7. servers' \in [Ids -> 0 .. Len(server')]
  <2>1. m \in 0 .. Len(server') /\ \A k \in 0 .. Len(server) : k \in 0 .. Len(server')
    BY <1>4 DEF m
  <2> QED BY Zenon, <1>1, <1>2, <2>1
<1>8. /\ work' \in [remove : SUBSET Ids, add : SUBSET Ids, wait : 0 .. Len(server')]
      /\ work'.add = work.add \ {id} /\ work'.remove = work.remove /\ work'.wait = work.wait
  <2>1. \A k \in 0 .. Len(server) : k \in 0 .. Len(server')
    BY <1>4 DEF m
  <2> QED BY Zenon, <1>1, <1>2, <2>1
<1>9. TypeOK'
  <2>1. /\ \A x \in RequestRecords : x \in RequestRecords'
        /\ \A x \in ReloadRecords : x \in ReloadRecords'
    <3>1. gen' = gen /\ DOMAIN server \subseteq DOMAIN server'
      BY Zenon, <1>1, <1>4 DEF gen
    <3> QED BY <3>1 DEF RequestRecords, ReloadRecords
  <2>2. req' \in [Requests -> RequestRecords'] /\ reload' \in [Reloaders -> ReloadRecords']
    BY Zenon, <1>1, <2>1 DEF IInv, TypeOK
  <2>3. collectors' \subseteq DOMAIN server'
    BY Zenon, <1>4 DEF IInv, TypeOK
  <2> QED BY Zenon, <1>1, <1>4, <1>5, <1>7, <1>8, <2>2, <2>3 DEF IInv, TypeOK, gen
<1>10. OldClosed' /\ Unserved' /\ CurrentTableOpen'
  BY Zenon, <1>1 DEF IInv, OldClosed, Unserved, CurrentTableOpen, gen
<1>11. GaugeExact'
  <2> DEFINE set(n) == {r \in Requests : /\ n \in req[r].collectors
                                         /\ req[r].pc \in {"matched", "logged", "upstream", "answered",
                                                           "aborted"}}
  <2>1. set(m) = {}
    <3>1. \A r \in Requests : req[r].collectors \subseteq DOMAIN server
      BY Zenon DEF IInv, TypeOK, RequestRecords
    <3> QED BY Zenon, <1>4, <3>1
  <2>2. gauge'[m] = Cardinality(set(m))
    BY Zenon, <1>5, <2>1, FS_EmptySet
  <2>3. \A n \in DOMAIN gauge : gauge'[n] = Cardinality(set(n))
    BY Zenon, <1>5 DEF IInv, GaugeExact
  <2>4. \A n \in DOMAIN gauge' : gauge'[n] = Cardinality(set(n))
    BY Zenon, <1>5, <2>2, <2>3
  <2> QED BY Zenon, <2>4 DEF GaugeExact
<1>12. Owned'
  <2>1. ASSUME NEW i \in Ids, servers'[i] # 0 PROVE server'[servers'[i]].id = i
    <3>1. CASE i = id
      BY Zenon, <1>3, <1>4, <1>6, <3>1
    <3>2. CASE i # id
      <4>1. servers'[i] = servers[i] /\ servers[i] # 0
        BY Zenon, <1>6, <2>1, <3>2
      <4>2. servers[i] \in DOMAIN server
        BY <1>2, <4>1
      <4> QED BY Zenon, <1>4, <4>1, <4>2 DEF IInv, Owned
    <3> QED BY Zenon, <3>1, <3>2
  <2>2. \A i \in work'.remove : servers'[i] # 0
    BY Zenon, <1>8
  <2>3. ASSUME NEW k \in DOMAIN server'
        PROVE  /\ server'[k].conf.tls # "bad"
               /\ \/ server'[k].state \in {"failed", "closed"}
                  \/ work'.wait = k
                  \/ servers'[server'[k].id] = k
    <3>1. CASE k = m
      BY Zenon, <1>3, <1>4, <1>6, <3>1
    <3>2. CASE k \in DOMAIN server
      <4>1. server'[k] = server[k] /\ k # 0
        BY <1>4, <3>2
      <4>2. server[k].id \in Ids
        <5>1. server[k] \in Servers
          BY <1>2, <3>2
        <5> QED BY <5>1 DEF Servers
      <4>3. /\ server[k].conf.tls # "bad"
            /\ server[k].state \in {"failed", "closed"} \/ servers[server[k].id] = k
        BY Zenon, <3>2, <4>1 DEF IInv, Owned
      <4>4. servers[server[k].id] = k => server[k].id # id
        BY Zenon, <4>1
      <4> QED BY Zenon, <1>6, <4>1, <4>2, <4>3, <4>4
    <3> QED BY Zenon, <1>4, <3>1, <3>2
  <2> QED BY Zenon, <2>1, <2>2, <2>3 DEF Owned
<1>13. \A i \in Ids : i # id /\ Settled(i) => Settled(i)'
  BY Zenon, <1>1, <1>4, <1>6, <1>9, SettledKept DEF IInv
<1>14. servers'[id] # 0 /\ server'[servers'[id]].conf = l
  BY Zenon, <1>3, <1>4, <1>6
<1>15. Reloading' /\ listeners' = listeners
  BY Zenon, <1>1, ReloadingKept DEF listeners
<1> QED BY Zenon, <1>1, <1>8, <1>9, <1>10, <1>11, <1>12, <1>13, <1>14, <1>15

\* What sameListener does not compare are the timeouts.
LEMMA SameFact ==
  ASSUME NEW a \in Listeners, NEW b \in Listeners, sameListener(a, b)
  PROVE  a.tls = b.tls /\ [a EXCEPT !.timeouts = 0] = [b EXCEPT !.timeouts = 0]
<1>1. /\ a = [port |-> a.port, tls |-> a.tls, timeouts |-> a.timeouts, metrics |-> a.metrics]
      /\ b = [port |-> b.port, tls |-> b.tls, timeouts |-> b.timeouts, metrics |-> b.metrics]
  BY Zenon, ListenersAssumption
<1>2. a.port = b.port /\ a.tls = b.tls /\ a.metrics = b.metrics
  BY <1>1 DEF sameListener
<1> QED BY Zenon, <1>1, <1>2

\* Reconcile comes to a listener of the configuration: it is left, started, or
\* stopped to be started afterwards.
LEMMA AddOrUpdateStep ==
  ASSUME IInv, NEW id \in Ids, AddOrUpdate(id)
  PROVE  IInv'
<1> DEFINE l == listeners[id]
<1>1. /\ lm \in Reloaders /\ work.wait = 0 /\ work.remove = {} /\ id \in work.add
      /\ UNCHANGED <<reloading, closed, collectors, process, req>>
  BY Zenon DEF AddOrUpdate
<1>2. /\ applied > 0 /\ work.add \subseteq DOMAIN listeners
      /\ \A i \in Ids : i \in work.add \/ Settled(i)
  BY Zenon, <1>1 DEF IInv, Reconciling
<1>3. lm # "free" /\ lm # "shutdown"
  BY Zenon, <1>1, ReloadersAssumption
<1>4. l \in Listeners /\ id \in DOMAIN listeners
  BY Zenon, <1>1, <1>2, ListenerFact DEF IInv, TypeOK, listeners
<1>5. gen' = gen /\ UNCHANGED <<history, reload, overlap>>
  BY Zenon, <1>1 DEF gen, reloading
<1>6. SUFFICES /\ TypeOK' /\ Owned' /\ OldClosed' /\ Unserved' /\ CurrentTableOpen' /\ GaugeExact'
               /\ UNCHANGED <<lm, applied, listeners>>
               /\ work'.add \subseteq work.add /\ work'.remove = {}
               /\ \A i \in Ids : i \in work'.add \/ Settled(i)'
  <2>1. Reconciling'
    <3>1. work'.add \subseteq DOMAIN listeners'
      BY Zenon, <1>2, <1>6
    <3>2. \A i \in Ids : \/ i \in work'.add
                         \/ i \in work'.remove /\ i \notin DOMAIN listeners'
                         \/ i \notin work'.remove /\ Settled(i)'
      BY Zenon, <1>6
    <3>3. lm' # "free" /\ lm' # "shutdown" /\ applied' > 0 /\ ~Released'
      BY Zenon, <1>2, <1>3, <1>6 DEF Released
    <3> QED BY Zenon, <3>1, <3>2, <3>3 DEF Reconciling
  <2>2. Reloading'
    BY Zenon, <1>1, <1>6, ReloadingKept
  <2> QED BY Zenon, <1>6, <2>1, <2>2 DEF IInv
<1>7. CASE servers[id] # 0 /\ sameListener(server[servers[id]].conf, l)
  <2>1. /\ work' = [work EXCEPT !.add = @ \ {id}] /\ UNCHANGED <<lm, applied, servers, server, gauge>>
        /\ listeners' = listeners
    BY Zenon, <1>5, <1>7 DEF AddOrUpdate, listeners
  <2>2. /\ work' \in [remove : SUBSET Ids, add : SUBSET Ids, wait : 0 .. Len(server')]
        /\ work'.add = work.add \ {id} /\ work'.remove = work.remove /\ work'.wait = work.wait
    BY Zenon, <2>1 DEF IInv, TypeOK
  <2>3. TypeOK'
    <3>1. req' \in [Requests -> RequestRecords'] /\ ReloadRecords' = ReloadRecords
      BY Zenon, <1>1, <1>5, <2>1, RecordsKept
    <3> QED BY Zenon, <1>1, <1>5, <2>1, <2>2, <3>1 DEF IInv, TypeOK
  <2>4. OldClosed' /\ Unserved' /\ CurrentTableOpen' /\ GaugeExact'
    BY Zenon, <1>1, <1>5, <2>1, RequestsKept
  <2>5. Owned'
    BY Zenon, <2>1, <2>2 DEF IInv, Owned
  <2>6. Settled(id)
    <3>1. servers[id] \in DOMAIN server
      BY <1>7 DEF IInv, TypeOK
    <3>2. server[servers[id]].conf \in Listeners
      <4>1. server[servers[id]] \in Servers
        BY <3>1 DEF IInv, TypeOK
      <4> QED BY Zenon, <4>1 DEF Servers
    <3>3. server[servers[id]].conf.tls # "bad"
      BY Zenon, <3>1 DEF IInv, Owned
    <3>4. /\ server[servers[id]].conf.tls = l.tls
          /\ [server[servers[id]].conf EXCEPT !.timeouts = 0] = [l EXCEPT !.timeouts = 0]
      BY Zenon, <1>4, <1>7, <3>2, SameFact
    <3> QED BY Zenon, <1>4, <1>7, <3>3, <3>4 DEF Settled
  <2>7. \A i \in Ids : i \in work'.add \/ Settled(i)'
    BY Zenon, <1>1, <1>2, <1>5, <2>1, <2>2, <2>6 DEF Settled
  <2> QED BY Zenon, <1>1, <2>1, <2>2, <2>3, <2>4, <2>5, <2>7
<1>8. CASE servers[id] # 0 /\ ~sameListener(server[servers[id]].conf, l)
  <2>1. Stop(id)
    BY Zenon, <1>8 DEF AddOrUpdate
  <2>2. /\ TypeOK' /\ Owned' /\ OldClosed' /\ Unserved' /\ CurrentTableOpen' /\ GaugeExact'
        /\ UNCHANGED <<lm, applied, listeners>>
        /\ work'.add = work.add /\ work'.remove = work.remove \ {id}
        /\ \A i \in Ids : i # id /\ Settled(i) => Settled(i)'
    BY Zenon, <1>1, <1>8, <2>1, StopFact
  <2> QED BY Zenon, <1>1, <1>2, <2>2
<1>9. CASE servers[id] = 0 /\ l.tls # "bad"
  <2>1. startListener(id, l)
    BY Zenon, <1>9 DEF AddOrUpdate
  <2>2. /\ TypeOK' /\ Owned' /\ OldClosed' /\ Unserved' /\ CurrentTableOpen' /\ GaugeExact'
        /\ servers'[id] # 0 /\ server'[servers'[id]].conf = l
        /\ UNCHANGED <<lm, applied, listeners>>
        /\ work'.add = work.add \ {id} /\ work'.remove = work.remove
        /\ \A i \in Ids : i # id /\ Settled(i) => Settled(i)'
    BY Zenon, <1>1, <1>4, <1>9, <2>1, StartFact
  <2>3. Settled(id)'
    BY Zenon, <1>4, <1>5, <1>9, <2>2 DEF Settled
  <2> QED BY Zenon, <1>1, <1>2, <2>2, <2>3
<1>10. CASE servers[id] = 0 /\ l.tls = "bad"
  <2>1. /\ work' = [work EXCEPT !.add = @ \ {id}] /\ UNCHANGED <<lm, applied, servers, server, gauge>>
        /\ listeners' = listeners
    <3>1. startListener(id, l)
      BY Zenon, <1>10 DEF AddOrUpdate
    <3> QED BY Zenon, <1>5, <1>10, <3>1 DEF startListener, listeners
  <2>2. /\ work' \in [remove : SUBSET Ids, add : SUBSET Ids, wait : 0 .. Len(server')]
        /\ work'.add = work.add \ {id} /\ work'.remove = work.remove /\ work'.wait = work.wait
    BY Zenon, <2>1 DEF IInv, TypeOK
  <2>3. TypeOK'
    <3>1. req' \in [Requests -> RequestRecords'] /\ ReloadRecords' = ReloadRecords
      BY Zenon, <1>1, <1>5, <2>1, RecordsKept
    <3> QED BY Zenon, <1>1, <1>5, <2>1, <2>2, <3>1 DEF IInv, TypeOK
  <2>4. OldClosed' /\ Unserved' /\ CurrentTableOpen' /\ GaugeExact'
    BY Zenon, <1>1, <1>5, <2>1, RequestsKept
  <2>5. Owned'
    BY Zenon, <2>1, <2>2 DEF IInv, Owned
  <2>6. \A i \in Ids : i \in work'.add \/ Settled(i)'
    BY Zenon, <1>1, <1>2, <1>5, <1>10, <2>1, <2>2 DEF Settled
  <2> QED BY Zenon, <1>1, <2>1, <2>2, <2>3, <2>4, <2>5, <2>6
<1> QED BY Zenon, <1>7, <1>8, <1>9, <1>10

\* <-done: the server that was waited for has ended.
LEMMA WaitedStep ==
  ASSUME IInv, Waited
  PROVE  IInv'
<1>1. /\ work.wait # 0 /\ server[work.wait].state \in {"failed", "closed"}
      /\ work' = [work EXCEPT !.wait = 0]
      /\ UNCHANGED <<history, reload, overlap, closed, lm, applied, servers, server, collectors, gauge>>
      /\ UNCHANGED <<process, req>>
  BY Zenon DEF Waited, reloading
<1>2. gen' = gen /\ listeners' = listeners
  BY Zenon, <1>1 DEF gen, listeners
<1>3. /\ work' \in [remove : SUBSET Ids, add : SUBSET Ids, wait : 0 .. Len(server')]
      /\ work'.add = work.add /\ work'.remove = work.remove /\ work'.wait = 0
  <2>1. work \in [remove : SUBSET Ids, add : SUBSET Ids, wait : 0 .. Len(server')]
    BY Zenon, <1>1 DEF IInv, TypeOK
  <2>2. 0 \in 0 .. Len(server')
    BY <1>1 DEF IInv, TypeOK
  <2> QED BY Zenon, <1>1, <2>1, <2>2
<1>4. TypeOK'
  <2>1. req' \in [Requests -> RequestRecords'] /\ ReloadRecords' = ReloadRecords
    BY Zenon, <1>1, RecordsKept
  <2> QED BY Zenon, <1>1, <1>2, <1>3, <2>1 DEF IInv, TypeOK
<1>5. OldClosed' /\ Unserved' /\ CurrentTableOpen' /\ GaugeExact'
  BY Zenon, <1>1, RequestsKept
<1>6. Owned'
  BY Zenon, <1>1, <1>3 DEF IInv, Owned
<1>7. Reconciling'
  <2>1. lm # "free"
    BY <1>1 DEF IInv, Reconciling, NoWork
  <2>2. \A i \in Ids : Settled(i) => Settled(i)'
    BY Zenon, <1>1, <1>2 DEF Settled
  <2> QED BY Zenon, <1>1, <1>2, <1>3, <2>1, <2>2 DEF IInv, Reconciling, Released
<1>8. Reloading'
  BY Zenon, <1>1, ReloadingKept DEF reloading
<1> QED BY Zenon, <1>4, <1>5, <1>6, <1>7, <1>8 DEF IInv

\* Reconcile returns with nothing left to do.
LEMMA EndReconcileStep ==
  ASSUME IInv, NEW g \in Reloaders, EndReconcile(g)
  PROVE  IInv'
<1> DEFINE x == [reload[g] EXCEPT !.pc = "metrics"]
<1>1. /\ lm = g /\ work = NoWork /\ lm' = "free" /\ reload' = [reload EXCEPT ![g] = x]
      /\ UNCHANGED <<history, overlap, closed, applied, work, servers, server, collectors, gauge>>
      /\ UNCHANGED <<process, req>>
  BY Zenon DEF EndReconcile
<1>2. x \in ReloadRecords /\ x.pc = "metrics" /\ x.gen = reload[g].gen
  BY Zenon DEF IInv, TypeOK, ReloadRecords
<1> HIDE DEF x
<1>3. /\ reload' \in [Reloaders -> ReloadRecords]
      /\ reload'[g] = x /\ \A h \in Reloaders : h # g => reload'[h] = reload[h]
  BY Zenon, <1>1, <1>2, ReloadUpdate
<1>4. gen' = gen /\ listeners' = listeners
  BY Zenon, <1>1 DEF gen, listeners
<1>5. TypeOK'
  <2>1. req' \in [Requests -> RequestRecords'] /\ ReloadRecords' = ReloadRecords
    BY Zenon, <1>1, RecordsKept
  <2> QED BY Zenon, <1>1, <1>3, <1>4, <2>1 DEF IInv, TypeOK
<1>6. OldClosed' /\ Unserved' /\ CurrentTableOpen' /\ GaugeExact'
  BY Zenon, <1>1, RequestsKept
<1>7. Owned'
  BY Zenon, <1>1 DEF IInv, Owned
<1>8. \A h \in Reloaders : lm' # h
  BY Zenon, <1>1, ReloadersAssumption
<1>9. Reconciling'
  <2>1. work.add = {} /\ work.remove = {}
    BY Zenon, <1>1 DEF NoWork
  <2>2. \A i \in Ids : Settled(i)
    BY Zenon, <1>1, <2>1 DEF IInv, Reconciling
  <2>3. lm' # "shutdown"
    BY Zenon, <1>1
  <2>4. \A i \in Ids : Settled(i)'
    BY Zenon, <1>1, <1>4, <2>2 DEF Settled
  <2> QED BY Zenon, <1>1, <1>8, <2>3, <2>4 DEF Reconciling
<1>10. Reloading'
  <2>1. reload[g].pc # "idle" /\ applied = reload[g].gen
    BY <1>1 DEF IInv, Reloading
  <2>2. ~overlap => applied = gen
    BY Zenon, <2>1 DEF IInv, Reloading
  <2> QED BY Zenon, <1>1, <1>2, <1>3, <1>4, <1>8, <2>1, <2>2 DEF IInv, Reloading
<1> QED BY Zenon, <1>5, <1>6, <1>7, <1>9, <1>10 DEF IInv

\* A reload past Reconcile goes on or ends.
LEMMA ReconciledStep ==
  ASSUME IInv, NEW g \in Reloaders, NEW x \in ReloadRecords, reload[g].pc \in {"metrics", "set"},
         reload' = [reload EXCEPT ![g] = x], x.pc \in {"set", "idle"},
         x.pc # "idle" => x.gen = reload[g].gen, collectors' \subseteq DOMAIN server,
         UNCHANGED <<history, overlap, closed, listening, gauge, process, req>>
  PROVE  IInv'
<1>1. /\ reload' \in [Reloaders -> ReloadRecords]
      /\ reload'[g] = x /\ \A h \in Reloaders : h # g => reload'[h] = reload[h]
  BY Zenon, ReloadUpdate
<1>2. gen' = gen /\ server' = server /\ lm' = lm /\ applied' = applied
  BY Zenon DEF gen, listening
<1>3. TypeOK'
  <2>1. req' \in [Requests -> RequestRecords'] /\ ReloadRecords' = ReloadRecords
    BY Zenon, <1>2, RecordsKept
  <2> QED BY Zenon, <1>1, <1>2, <2>1 DEF IInv, TypeOK, listening
<1>4. OldClosed' /\ Unserved' /\ CurrentTableOpen' /\ GaugeExact'
  BY Zenon, RequestsKept
<1>5. Owned' /\ Reconciling'
  BY Zenon, ListenersKept
<1>6. Reloading'
  <2>1. reload[g].pc # "idle" /\ reload[g].pc \notin {"cleanup", "reconcile"} /\ reload[g].pc # "reconcile"
    BY Zenon
  <2>2. lm # g /\ reload[g].gen > 0
    BY Zenon, <2>1 DEF IInv, Reloading
  <2> QED BY Zenon, <1>1, <1>2, <2>1, <2>2 DEF IInv, Reloading
<1> QED BY Zenon, <1>3, <1>4, <1>5, <1>6 DEF IInv

\* The collectors of the servers there are are read, and the router is given
\* what was read.
LEMMA MetricsSteps ==
  ASSUME IInv, NEW g \in Reloaders, MetricsCollectors(g) \/ SetMetricsCollectors(g)
  PROVE  IInv'
<1>1. reload[g] \in ReloadRecords
  BY Zenon DEF IInv, TypeOK
<1>2. CASE MetricsCollectors(g)
  <2> DEFINE mcs == {servers[id] : id \in {i \in Ids : servers[i] # 0 /\ server[servers[i]].conf.metrics}}
             x == [reload[g] EXCEPT !.pc = "set", !.collectors = mcs]
  <2>1. /\ reload[g].pc = "metrics" /\ reload' = [reload EXCEPT ![g] = x]
        /\ UNCHANGED <<history, overlap, closed, listening, collectors, gauge, process, req>>
    BY Zenon, <1>2 DEF MetricsCollectors
  <2>2. mcs \subseteq DOMAIN server
    <3>1. \A i \in Ids : servers[i] # 0 => servers[i] \in DOMAIN server
      BY DEF IInv, TypeOK
    <3> QED BY Zenon, <3>1
  <2> HIDE DEF mcs
  <2>3. x \in ReloadRecords /\ x.pc = "set" /\ x.gen = reload[g].gen
    BY Zenon, <1>1, <2>2 DEF ReloadRecords
  <2> HIDE DEF x
  <2>4. collectors' \subseteq DOMAIN server
    BY Zenon, <2>1 DEF IInv, TypeOK
  <2> QED BY Zenon, <2>1, <2>3, <2>4, ReconciledStep
<1>3. CASE SetMetricsCollectors(g)
  <2>1. /\ reload[g].pc = "set" /\ reload' = [reload EXCEPT ![g] = NoReload]
        /\ collectors' = reload[g].collectors
        /\ UNCHANGED <<history, overlap, closed, listening, gauge, process, req>>
    BY Zenon, <1>3 DEF SetMetricsCollectors
  <2>2. NoReload \in ReloadRecords /\ NoReload.pc = "idle"
    <3>1. 0 \in 0 .. gen
      BY GenNat DEF IInv
    <3> QED BY Zenon, <3>1 DEF NoReload, ReloadRecords
  <2>3. collectors' \subseteq DOMAIN server
    BY Zenon, <1>1, <2>1 DEF ReloadRecords
  <2> QED BY Zenon, <2>1, <2>2, <2>3, ReconciledStep
<1> QED BY Zenon, <1>2, <1>3

\* The goroutine of a server binds its port, fails to, or ends.
LEMMA ServerStateStep ==
  ASSUME IInv, NEW n \in DOMAIN server, NEW st \in {"listening", "failed", "closed"},
         server[n].state \notin {"failed", "closed"}, server' = [server EXCEPT ![n].state = st],
         UNCHANGED <<reloading, closed, lm, applied, work, servers, collectors, gauge, process, req>>
  PROVE  IInv'
<1> DEFINE x == [server[n] EXCEPT !.state = st]
<1>1. server \in Seq(Servers)
  BY Zenon DEF IInv, TypeOK
<1>2. server[n] \in Servers
  BY <1>1
<1>3. /\ x \in Servers /\ x.id = server[n].id /\ x.conf = server[n].conf
      /\ server' = [server EXCEPT ![n] = x]
  BY Zenon, <1>2 DEF Servers
<1> HIDE DEF x
<1>4. /\ server' \in Seq(Servers) /\ DOMAIN server' = DOMAIN server /\ Len(server') = Len(server)
      /\ \A k \in DOMAIN server : k # n => server'[k] = server[k]
      /\ \A k \in DOMAIN server : server'[k].id = server[k].id /\ server'[k].conf = server[k].conf
  BY Zenon, <1>3, ServerUpdate DEF IInv
<1>5. gen' = gen /\ listeners' = listeners /\ UNCHANGED <<history, reload, overlap>>
  BY Zenon DEF gen, listeners, reloading
<1>6. TypeOK'
  <2>1. req' \in [Requests -> RequestRecords'] /\ ReloadRecords' = ReloadRecords
    BY Zenon, <1>4, <1>5, RecordsKept
  <2> QED BY Zenon, <1>4, <1>5, <2>1 DEF IInv, TypeOK
<1>7. OldClosed' /\ Unserved' /\ CurrentTableOpen' /\ GaugeExact'
  BY Zenon, <1>5, RequestsKept
<1>8. Owned'
  <2>1. ASSUME NEW i \in Ids, servers'[i] # 0 PROVE server'[servers'[i]].id = i
    <3>1. servers[i] \in DOMAIN server
      BY <2>1 DEF IInv, TypeOK
    <3> QED BY Zenon, <1>4, <2>1, <3>1 DEF IInv, Owned
  <2>2. ASSUME NEW k \in DOMAIN server'
        PROVE  /\ server'[k].conf.tls # "bad"
               /\ \/ server'[k].state \in {"failed", "closed"}
                  \/ work'.wait = k
                  \/ servers'[server'[k].id] = k
    BY Zenon, <1>4 DEF IInv, Owned
  <2> QED BY Zenon, <2>1, <2>2 DEF IInv, Owned
<1>9. Reconciling'
  <2>1. \A i \in Ids : Settled(i) => Settled(i)'
    BY Zenon, <1>4, <1>5, <1>6, SettledKept DEF IInv
  <2> QED BY Zenon, <1>5, <2>1 DEF IInv, Reconciling, Released
<1>10. Reloading'
  BY Zenon, ReloadingKept
<1> QED BY Zenon, <1>6, <1>7, <1>8, <1>9, <1>10 DEF IInv

\* ListenAndServe and the end of its goroutine are such steps.
LEMMA ListenCloseStep ==
  ASSUME IInv, NEW n \in DOMAIN server, Listen(n) \/ Close(n)
  PROVE  IInv'
<1>1. CASE Listen(n)
  <2>1. PICK st \in {"listening", "failed"} : server' = [server EXCEPT ![n].state = st]
    BY Zenon, <1>1 DEF Listen
  <2>2. server[n].state \notin {"failed", "closed"}
    BY Zenon, <1>1 DEF Listen
  <2> QED BY Zenon, <1>1, <2>1, <2>2, ServerStateStep DEF Listen
<1>2. CASE Close(n)
  <2>1. server[n].state \notin {"failed", "closed"}
    BY Zenon, <1>2 DEF Close
  <2> QED BY Zenon, <1>2, <2>1, ServerStateStep DEF Close
<1> QED BY Zenon, <1>1, <1>2

\* The process is told to stop; Shutdown takes lm.mu and stops every server.
LEMMA ShutdownSteps ==
  ASSUME IInv, Signal \/ BeginShutdown \/ EndShutdown \/ Exit
  PROVE  IInv'
<1>1. /\ UNCHANGED <<history, reload, overlap, closed, applied, servers, server, collectors, gauge, req>>
      /\ lm' \in {"free", "shutdown"} \union Reloaders
      /\ process' \in {"running", "signalled", "stopping", "stopped", "exited"}
  BY Zenon DEF Signal, BeginShutdown, EndShutdown, Exit, listening, reloading, IInv, TypeOK
<1>2. gen' = gen /\ listeners' = listeners
  BY Zenon, <1>1 DEF gen, listeners
<1>3. \A i \in Ids : Settled(i) => Settled(i)'
  BY Zenon, <1>1, <1>2 DEF Settled
<1>4. OldClosed' /\ Unserved' /\ CurrentTableOpen' /\ GaugeExact'
  BY Zenon, <1>1, RequestsKept
<1>5. req' \in [Requests -> RequestRecords'] /\ ReloadRecords' = ReloadRecords
  BY Zenon, <1>1, RecordsKept
<1>6. CASE BeginShutdown
  <2>1. /\ lm = "free" /\ process' = "stopping" /\ lm' = "shutdown"
        /\ work' = [NoWork EXCEPT !.remove = {id \in Ids : servers[id] # 0}]
    BY Zenon, <1>6 DEF BeginShutdown
  <2>2. work'.remove = {id \in Ids : servers[id] # 0} /\ work'.add = {} /\ work'.wait = 0 /\ work.wait = 0
    BY <2>1 DEF IInv, Reconciling, NoWork
  <2>3. work' \in [remove : SUBSET Ids, add : SUBSET Ids, wait : 0 .. Len(server')]
    <3>1. 0 \in 0 .. Len(server')
      BY <1>1 DEF IInv, TypeOK
    <3> QED BY Zenon, <2>1, <3>1 DEF NoWork
  <2>4. TypeOK'
    BY Zenon, <1>1, <1>2, <1>5, <2>3 DEF IInv, TypeOK
  <2>5. Owned'
    BY Zenon, <1>1, <2>2 DEF IInv, Owned
  <2>6. lm' # "free" /\ lm' \notin Reloaders /\ ~Released'
    BY Zenon, <2>1, ReloadersAssumption DEF Released
  <2>7. Reconciling'
    BY Zenon, <2>1, <2>6 DEF Reconciling
  <2>8. Reloading'
    BY Zenon, <1>1, <2>6, ReloadingKept DEF reloading
  <2> QED BY Zenon, <1>4, <2>4, <2>5, <2>7, <2>8 DEF IInv
<1>7. CASE Signal \/ EndShutdown \/ Exit
  <2>1. work' = work
    BY Zenon, <1>7 DEF Signal, EndShutdown, Exit, listening
  <2>2. TypeOK' /\ Owned'
    BY Zenon, <1>1, <1>2, <1>5, <2>1 DEF IInv, TypeOK, Owned
  <2>3. Reconciling'
    <3>1. CASE Signal
      <4>1. process = "running" /\ process' = "signalled" /\ lm' = lm
        BY Zenon, <3>1 DEF Signal, listening
      <4>2. lm # "shutdown" /\ process \in {"running", "signalled"}
        BY Zenon, <4>1 DEF IInv, Reconciling
      <4>3. Released' => Released
        BY Zenon, <1>1, <4>1, <4>2 DEF Released
      <4> QED BY Zenon, <1>1, <1>2, <1>3, <2>1, <4>1, <4>2, <4>3 DEF IInv, Reconciling
    <3>2. CASE EndShutdown
      <4>1. work = NoWork /\ process' = "stopped" /\ lm' = "free"
        BY Zenon, <3>2 DEF EndShutdown
      <4>2. lm' # "shutdown" /\ lm' \notin Reloaders /\ ~Released'
        BY Zenon, <4>1, ReloadersAssumption DEF Released
      <4> QED BY Zenon, <2>1, <4>1, <4>2 DEF Reconciling
    <3>3. CASE Exit
      <4>1. process = "stopped" /\ process' = "exited" /\ lm' = lm
        BY Zenon, <3>3 DEF Exit, listening
      <4>2. lm # "shutdown" /\ ~Released'
        BY Zenon, <4>1 DEF IInv, Reconciling, Released
      <4> QED BY Zenon, <1>1, <1>2, <1>3, <2>1, <4>1, <4>2 DEF IInv, Reconciling
    <3> QED BY Zenon, <1>7, <3>1, <3>2, <3>3
  <2>4. \A g \in Reloaders : lm' = g => lm = g
    BY Zenon, <1>7, ReloadersAssumption DEF Signal, EndShutdown, Exit, listening
  <2>5. Reloading'
    BY Zenon, <1>1, <2>4, ReloadingKept DEF reloading
  <2> QED BY Zenon, <1>4, <2>2, <2>3, <2>5 DEF IInv
<1> QED BY Zenon, <1>6, <1>7

----------------------------------------------------------------------------
(* Steps of a request.                                                     *)

InFlight == {"matched", "logged", "upstream", "answered", "aborted"}
Holding(n) == {r \in Requests : n \in req[r].collectors /\ req[r].pc \in InFlight}

\* A request goes on; what the gauges have to do with it is left to show.
LEMMA RequestUpdate ==
  ASSUME IInv, NEW r \in Requests, NEW x \in RequestRecords, req' = [req EXCEPT ![r] = x],
         x.lost => x.gen < gen, x.pc \in {"idle", "accepted"} => ~x.lost /\ x.collectors = {},
         UNCHANGED <<reloading, closed, listening, collectors, process>>,
         gauge' \in Seq(Int), Len(gauge') = Len(gauge),
         \A n \in DOMAIN gauge' : gauge'[n] = Cardinality(Holding(n)')
  PROVE  IInv'
<1>1. /\ gen' = gen /\ DOMAIN server' = DOMAIN server /\ RequestRecords' = RequestRecords
      /\ Len(server') = Len(server) /\ ReloadRecords' = ReloadRecords
      /\ UNCHANGED <<history, reload, overlap>> /\ lm' = lm /\ applied' = applied
  BY Zenon DEF gen, listening, reloading, RequestRecords, ReloadRecords
<1>2. /\ req \in [Requests -> RequestRecords] /\ req' \in [Requests -> RequestRecords]
      /\ req'[r] = x /\ \A q \in Requests : q # r => req'[q] = req[q]
  BY Zenon DEF IInv, TypeOK
<1>3. TypeOK'
  BY Zenon, <1>1, <1>2 DEF IInv, TypeOK, listening
<1>4. OldClosed' /\ Unserved' /\ CurrentTableOpen'
  BY Zenon, <1>1, <1>2 DEF IInv, OldClosed, Unserved, CurrentTableOpen
<1>5. GaugeExact'
  BY Zenon DEF GaugeExact, Holding, InFlight
<1>6. Owned' /\ Reconciling' /\ Reloading'
  BY Zenon, <1>1, ListenersKept, ReloadingKept
<1> QED BY Zenon, <1>3, <1>4, <1>5, <1>6 DEF IInv

\* A step within a request's time in the gauges, or outside of it, leaves them.
LEMMA RequestGoesOn ==
  ASSUME IInv, NEW r \in Requests, NEW x \in RequestRecords, req' = [req EXCEPT ![r] = x],
         x.lost => x.gen < gen, x.pc \in {"idle", "accepted"} => ~x.lost /\ x.collectors = {},
         UNCHANGED <<reloading, closed, listening, collectors, process, gauge>>,
         x.collectors = req[r].collectors, x.pc \in InFlight <=> req[r].pc \in InFlight
  PROVE  IInv'
<1>1. req'[r] = x /\ \A q \in Requests : q # r => req'[q] = req[q]
  BY Zenon DEF IInv, TypeOK
<1>2. \A n : Holding(n)' = Holding(n)
  BY Zenon, <1>1 DEF Holding
<1>3. \A n \in DOMAIN gauge : gauge[n] = Cardinality(Holding(n))
  BY Zenon DEF IInv, GaugeExact, Holding, InFlight
<1>4. \A n \in DOMAIN gauge' : gauge'[n] = Cardinality(Holding(n)')
  BY Zenon, <1>2, <1>3
<1>5. gauge' \in Seq(Int) /\ Len(gauge') = Len(gauge)
  BY Zenon DEF IInv, TypeOK
<1> QED BY Zenon, <1>4, <1>5, RequestUpdate

\* What a line that could not be written, or a processor that could not be
\* asked, says about the table of the request.
LEMMA LostFact ==
  ASSUME IInv, NEW r \in Requests, NEW res, <<req[r].gen, res>> \in closed
  PROVE  req[r].gen < gen
<1>1. <<req[r].gen, res>>[1] < gen
  BY Zenon DEF IInv, OldClosed
<1> QED BY Zenon, <1>1

\* A line of the access log leaves the request its table and its gauges.
LEMMA LoggedFact ==
  ASSUME IInv, NEW r \in Requests,
         NEW pc \in {"logged", "done"}, NEW x, x = [Logged(r) EXCEPT !.pc = pc]
  PROVE  /\ x \in RequestRecords /\ x.pc = pc /\ x.gen = req[r].gen
         /\ x.collectors = req[r].collectors
         /\ x.lost => x.gen < gen
<1> DEFINE open == <<req[r].gen, "log">> \notin closed
<1>1. req[r] \in RequestRecords
  BY Zenon DEF IInv, TypeOK
<1>2. /\ x \in RequestRecords /\ x.pc = pc /\ x.gen = req[r].gen
      /\ x.collectors = req[r].collectors
      /\ x.lost => req[r].lost \/ ~open
  <2> DEFINE y == Logged(r)
  <2>0. x = [y EXCEPT !.pc = pc]
    BY Zenon
  <2>1. CASE open
    <3>1. y = [req[r] EXCEPT !.lines = @ + 1, !.lost = @ \/ FALSE]
      BY Zenon, <2>1 DEF Logged
    <3>2. /\ y \in RequestRecords /\ y.gen = req[r].gen /\ y.collectors = req[r].collectors
          /\ (y.lost => req[r].lost)
      <4> HIDE DEF y
      <4>1. y \in RequestRecords
        <5>1. req[r].lines + 1 \in Nat
          BY <1>1 DEF RequestRecords
        <5> QED BY Zenon, <1>1, <3>1, <5>1 DEF RequestRecords
      <4>2. y.gen = req[r].gen /\ y.collectors = req[r].collectors
        BY <1>1, <3>1 DEF RequestRecords
      <4>3. y.lost => req[r].lost
        BY Zenon, <1>1, <3>1 DEF RequestRecords
      <4> QED BY Zenon, <4>1, <4>2, <4>3
    <3> HIDE DEF y
    <3> QED BY Zenon, <2>0, <3>2 DEF RequestRecords
  <2>2. CASE ~open
    <3>1. y = [req[r] EXCEPT !.lines = @, !.lost = @ \/ TRUE]
      BY Zenon, <2>2 DEF Logged
    <3>2. y \in RequestRecords /\ y.gen = req[r].gen /\ y.collectors = req[r].collectors
      BY Zenon, <1>1, <3>1 DEF RequestRecords
    <3> HIDE DEF y
    <3> QED BY Zenon, <2>0, <2>2, <3>2 DEF RequestRecords
  <2> QED BY Zenon, <2>1, <2>2
<1>3. ~open => req[r].gen < gen
  BY Zenon, LostFact
<1>4. req[r].lost => req[r].gen < gen
  BY Zenon DEF IInv, CurrentTableOpen
<1> HIDE DEF open
<1> QED BY Zenon, <1>2, <1>3, <1>4

\* A connection is accepted: the request has no table yet.
LEMMA AcceptStep ==
  ASSUME IInv, NEW r \in Requests, NEW n \in DOMAIN server, Accept(r, n)
  PROVE  IInv'
<1> DEFINE x == [req[r] EXCEPT !.pc = "accepted"]
<1>1. req[r] \in RequestRecords /\ req \in [Requests -> RequestRecords]
  BY Zenon DEF IInv, TypeOK
<1>2. /\ x \in RequestRecords /\ x.pc = "accepted" /\ x.collectors = req[r].collectors
      /\ x.lost = req[r].lost
  BY Zenon, <1>1 DEF RequestRecords
<1>3. req[r].pc = "idle" /\ req' = [req EXCEPT ![r] = x]
  BY Zenon, <1>1 DEF Accept
<1>4. ~req[r].lost /\ req[r].collectors = {}
  BY Zenon, <1>3 DEF IInv, Unserved
<1>5. x.pc \notin InFlight /\ req[r].pc \notin InFlight
  BY <1>2, <1>3 DEF InFlight
<1>6. ~x.lost
  BY Zenon, <1>2, <1>4
<1>7. UNCHANGED <<reloading, closed, listening, collectors, process, gauge>>
  BY Zenon DEF Accept
<1> HIDE DEF x
<1> QED BY Zenon, <1>2, <1>3, <1>4, <1>5, <1>6, <1>7, RequestGoesOn

\* The access log's first line.
LEMMA LogRequestStep ==
  ASSUME IInv, NEW r \in Requests, LogRequest(r)
  PROVE  IInv'
<1> DEFINE x == [Logged(r) EXCEPT !.pc = "logged"]
<1>1. req[r].pc = "matched" /\ req' = [req EXCEPT ![r] = x]
  BY Zenon DEF LogRequest
<1>2. /\ x \in RequestRecords /\ x.pc = "logged" /\ x.gen = req[r].gen
      /\ x.collectors = req[r].collectors /\ (x.lost => x.gen < gen)
  BY Zenon, LoggedFact
<1>3. /\ x.pc \in InFlight /\ req[r].pc \in InFlight
      /\ x.pc \notin {"idle", "accepted"}
  BY Zenon, <1>1, <1>2 DEF InFlight
<1>4. UNCHANGED <<reloading, closed, listening, collectors, process, gauge>>
  BY Zenon DEF LogRequest
<1> HIDE DEF x
<1> QED BY Zenon, <1>1, <1>2, <1>3, <1>4, RequestGoesOn

\* The external processor answers, or cannot be asked.
LEMMA ProcessStep ==
  ASSUME IInv, NEW r \in Requests, Process(r)
  PROVE  IInv'
<1> DEFINE open == <<req[r].gen, "processor">> \notin closed
<1>1. req[r] \in RequestRecords /\ req \in [Requests -> RequestRecords]
  BY Zenon DEF IInv, TypeOK
<1>2. PICK pc \in {"upstream", "answered"} : req' = [req EXCEPT ![r].pc = pc, ![r].lost = @ \/ ~open]
  BY Zenon DEF Process
<1> DEFINE x == [req[r] EXCEPT !.pc = pc, !.lost = @ \/ ~open]
<1>3. /\ x \in RequestRecords /\ x.pc = pc /\ x.gen = req[r].gen
      /\ x.collectors = req[r].collectors
      /\ (x.lost => req[r].lost \/ ~open)
      /\ req' = [req EXCEPT ![r] = x]
  BY Zenon, <1>1, <1>2 DEF RequestRecords
<1>4. x.lost => x.gen < gen
  <2>1. ~open => req[r].gen < gen
    BY Zenon, LostFact
  <2>2. req[r].lost => req[r].gen < gen
    BY Zenon DEF IInv, CurrentTableOpen
  <2> HIDE DEF x, open
  <2> QED BY Zenon, <1>3, <2>1, <2>2
<1>5. req[r].pc = "logged"
  BY Zenon DEF Process
<1>6. /\ x.pc \in InFlight /\ req[r].pc \in InFlight
      /\ x.pc \notin {"idle", "accepted"}
  BY Zenon, <1>3, <1>5 DEF InFlight
<1>7. UNCHANGED <<reloading, closed, listening, collectors, process, gauge>>
  BY Zenon DEF Process
<1> HIDE DEF x
<1> QED BY Zenon, <1>3, <1>4, <1>6, <1>7, RequestGoesOn

\* The upstream answers, or the copy of its body fails.
LEMMA UpstreamStep ==
  ASSUME IInv, NEW r \in Requests, Upstream(r) \/ Abort(r)
  PROVE  IInv'
<1>1. req[r] \in RequestRecords /\ req \in [Requests -> RequestRecords]
  BY Zenon DEF IInv, TypeOK
<1>2. PICK pc \in {"answered", "aborted"} : req' = [req EXCEPT ![r].pc = pc]
  BY Zenon DEF Upstream, Abort
<1> DEFINE x == [req[r] EXCEPT !.pc = pc]
<1>3. /\ x \in RequestRecords /\ x.pc = pc /\ x.gen = req[r].gen
      /\ x.collectors = req[r].collectors /\ x.lost = req[r].lost
      /\ req' = [req EXCEPT ![r] = x]
  BY Zenon, <1>1, <1>2 DEF RequestRecords
<1>4. x.lost => x.gen < gen
  BY <1>3 DEF IInv, CurrentTableOpen
<1>5. req[r].pc = "upstream"
  BY Zenon DEF Upstream, Abort
<1>6. /\ x.pc \in InFlight /\ req[r].pc \in InFlight
      /\ x.pc \notin {"idle", "accepted"}
  BY <1>3, <1>5 DEF InFlight
<1>7. UNCHANGED <<reloading, closed, listening, collectors, process, gauge>>
  BY Zenon DEF Upstream, Abort
<1> HIDE DEF x
<1> QED BY Zenon, <1>3, <1>4, <1>6, <1>7, RequestGoesOn

\* The requests in a gauge are finitely many, with one more or one less.
LEMMA HoldingFinite ==
  ASSUME NEW n
  PROVE  IsFiniteSet(Holding(n)) /\ Cardinality(Holding(n)) \in Nat
<1>1. Holding(n) \subseteq Requests
  BY Zenon DEF Holding
<1>2. IsFiniteSet(Holding(n))
  BY Zenon, <1>1, RequestsAssumption, FS_Subset
<1> QED BY Zenon, <1>2, FS_CardinalityType

\* A sequence of numbers on the indices of another.
LEMMA NumbersFact ==
  ASSUME NEW g \in Seq(Int), NEW h \in [DOMAIN g -> Int]
  PROVE  h \in Seq(Int) /\ Len(h) = Len(g) /\ DOMAIN h = DOMAIN g
<1>1. Len(g) \in Nat /\ DOMAIN g = 1 .. Len(g)
  OBVIOUS
<1>2. h \in [1 .. Len(g) -> Int] /\ DOMAIN h = 1 .. Len(g)
  BY Zenon, <1>1
<1>3. h \in Seq(Int)
  BY <1>1, <1>2
<1> QED BY <1>1, <1>2, <1>3

\* Router.ServeHTTP meets the current table and the collectors of now.
LEMMA ServeStep ==
  ASSUME IInv, NEW r \in Requests, NEW m, Serve(r, m)
  PROVE  IInv'
<1> DEFINE found == FirstMatch(table(gen), m) # 0
           mcs == IF found THEN collectors ELSE {}
           pc == IF found THEN "matched" ELSE "done"
           x == [req[r] EXCEPT !.pc = pc, !.gen = gen, !.collectors = mcs]
<1>1. req[r] \in RequestRecords /\ req \in [Requests -> RequestRecords]
  BY Zenon DEF IInv, TypeOK
<1>2. /\ req[r].pc = "accepted"
      /\ req' = [req EXCEPT ![r].pc = pc, ![r].gen = gen, ![r].collectors = mcs]
      /\ gauge' = [n \in DOMAIN gauge |-> IF n \in mcs THEN gauge[n] + 1 ELSE gauge[n]]
      /\ UNCHANGED <<reloading, closed, listening, collectors, process>>
  BY Zenon DEF Serve
<1>3. pc \in {"matched", "done"} /\ (pc = "done" => mcs = {}) /\ mcs \subseteq DOMAIN server
  BY Zenon DEF IInv, TypeOK
<1> HIDE DEF found, mcs, pc
<1>4. gen \in 0 .. gen
  BY GenNat DEF IInv
<1>5. /\ x \in RequestRecords /\ x.pc = pc /\ x.collectors = mcs /\ x.lost = req[r].lost
      /\ req' = [req EXCEPT ![r] = x]
  BY Zenon, <1>1, <1>2, <1>3, <1>4 DEF RequestRecords
<1> HIDE DEF x
<1>6. ~x.lost /\ req[r].collectors = {}
  BY Zenon, <1>2, <1>5 DEF IInv, Unserved
<1>7. req'[r] = x /\ \A q \in Requests : q # r => req'[q] = req[q]
  BY Zenon, <1>1, <1>5
<1>8. gauge' \in Seq(Int) /\ Len(gauge') = Len(gauge) /\ DOMAIN gauge' = DOMAIN gauge
  <2>1. gauge \in Seq(Int)
    BY Zenon DEF IInv, TypeOK
  <2>2. \A n \in DOMAIN gauge : (IF n \in mcs THEN gauge[n] + 1 ELSE gauge[n]) \in Int
    BY <2>1
  <2>3. gauge' \in [DOMAIN gauge -> Int]
    BY Zenon, <1>2, <2>2
  <2> QED BY Zenon, <2>1, <2>3, NumbersFact
<1>9. ASSUME NEW n \in DOMAIN gauge' PROVE gauge'[n] = Cardinality(Holding(n)')
  <2>1. gauge[n] = Cardinality(Holding(n))
    BY Zenon, <1>8, <1>9 DEF IInv, GaugeExact, Holding, InFlight
  <2>2. CASE n \in mcs
    <3>1. x.pc \in InFlight
      BY Zenon, <1>3, <1>5, <2>2 DEF InFlight
    <3>2. Holding(n)' = Holding(n) \union {r}
      BY Zenon, <1>5, <1>7, <2>2, <3>1 DEF Holding
    <3>3. r \notin Holding(n)
      BY Zenon, <1>6 DEF Holding
    <3>4. Cardinality(Holding(n)') = Cardinality(Holding(n)) + 1
      BY Zenon, <3>2, <3>3, HoldingFinite, FS_AddElement
    <3>5. gauge'[n] = gauge[n] + 1
      BY Zenon, <1>2, <1>8, <2>2
    <3> QED BY Zenon, <2>1, <3>4, <3>5
  <2>3. CASE n \notin mcs
    <3>1. Holding(n)' = Holding(n)
      BY Zenon, <1>5, <1>6, <1>7, <2>3 DEF Holding
    <3>2. gauge'[n] = gauge[n]
      BY Zenon, <1>2, <1>8, <2>3
    <3> QED BY Zenon, <2>1, <3>1, <3>2
  <2> QED BY Zenon, <2>2, <2>3
<1>10. x.pc \notin {"idle", "accepted"}
  BY <1>3, <1>5
<1> QED BY Zenon, <1>2, <1>5, <1>6, <1>8, <1>9, <1>10, RequestUpdate

\* The way back takes the request out of the gauges that it is in.
LEMMA FinishStep ==
  ASSUME IInv, NEW r \in Requests, Finish(r)
  PROVE  IInv'
<1> DEFINE x == [Logged(r) EXCEPT !.pc = "done"]
<1>1. /\ req[r].pc = "answered" /\ req' = [req EXCEPT ![r] = x]
      /\ gauge' = [n \in DOMAIN gauge |->
                     IF n \in req[r].collectors THEN gauge[n] - 1 ELSE gauge[n]]
      /\ UNCHANGED <<reloading, closed, listening, collectors, process>>
  BY Zenon DEF Finish
<1>2. /\ x \in RequestRecords /\ x.pc = "done" /\ x.collectors = req[r].collectors
      /\ (x.lost => x.gen < gen)
  BY Zenon, LoggedFact
<1> HIDE DEF x
<1>3. req'[r] = x /\ \A q \in Requests : q # r => req'[q] = req[q]
  BY Zenon, <1>1 DEF IInv, TypeOK
<1>4. gauge' \in Seq(Int) /\ Len(gauge') = Len(gauge) /\ DOMAIN gauge' = DOMAIN gauge
  <2>1. gauge \in Seq(Int)
    BY Zenon DEF IInv, TypeOK
  <2>2. \A n \in DOMAIN gauge :
          (IF n \in req[r].collectors THEN gauge[n] - 1 ELSE gauge[n]) \in Int
    BY <2>1
  <2>3. gauge' \in [DOMAIN gauge -> Int]
    BY Zenon, <1>1, <2>2
  <2> QED BY Zenon, <2>1, <2>3, NumbersFact
<1>5. req[r].pc \in InFlight /\ x.pc \notin InFlight /\ x.pc \notin {"idle", "accepted"}
  BY Zenon, <1>1, <1>2 DEF InFlight
<1>6. ASSUME NEW n \in DOMAIN gauge' PROVE gauge'[n] = Cardinality(Holding(n)')
  <2>1. gauge[n] = Cardinality(Holding(n))
    BY Zenon, <1>4, <1>6 DEF IInv, GaugeExact, Holding, InFlight
  <2>2. Holding(n)' = Holding(n) \ {r}
    BY Zenon, <1>3, <1>5 DEF Holding
  <2>3. CASE n \in req[r].collectors
    <3>1. r \in Holding(n)
      BY Zenon, <1>5, <2>3 DEF Holding
    <3>2. Cardinality(Holding(n)') = Cardinality(Holding(n)) - 1
      BY Zenon, <2>2, <3>1, HoldingFinite, FS_RemoveElement
    <3>3. gauge'[n] = gauge[n] - 1
      BY Zenon, <1>1, <1>4, <2>3
    <3> QED BY Zenon, <2>1, <3>2, <3>3
  <2>4. CASE n \notin req[r].collectors
    <3>1. Holding(n)' = Holding(n)
      BY Zenon, <2>2, <2>4 DEF Holding
    <3>2. gauge'[n] = gauge[n]
      BY Zenon, <1>1, <1>4, <2>4
    <3> QED BY Zenon, <2>1, <3>1, <3>2
  <2> QED BY Zenon, <2>3, <2>4
<1> QED BY Zenon, <1>1, <1>2, <1>4, <1>5, <1>6, RequestUpdate

----------------------------------------------------------------------------
(* The invariant is inductive.                                             *)

\* A proxy that has loaded nothing and listens nowhere.
LEMMA InitIInv ==
  ASSUME Init
  PROVE  IInv
<1>1. gen = 0 /\ server = << >> /\ gauge = << >> /\ Len(server) = 0 /\ Len(gauge) = 0
  BY Zenon DEF Init, gen
<1>2. DOMAIN server = {} /\ DOMAIN gauge = {}
  BY <1>1
<1>3. TypeOK
  <2>1. Idle \in RequestRecords
    BY <1>1, <1>2 DEF Idle, RequestRecords
  <2>2. req \in [Requests -> RequestRecords]
    BY Zenon, <2>1 DEF Init
  <2>3. work \in [remove : SUBSET Ids, add : SUBSET Ids, wait : 0 .. Len(server)]
    BY <1>1 DEF Init, NoWork
  <2>4. servers \in [Ids -> 0 .. Len(server)]
    BY <1>1 DEF Init
  <2>5. history \in Seq(DOMAIN Configs) /\ server \in Seq(Servers) /\ gauge \in Seq(Int)
    BY DEF Init
  <2>6. collectors \subseteq DOMAIN server /\ closed \subseteq (1 .. gen) \X Resources
    BY Zenon DEF Init
  <2>7. reload \in [Reloaders -> ReloadRecords]
    <3>1. NoReload \in ReloadRecords
      BY <1>1, <1>2 DEF NoReload, ReloadRecords
    <3> QED BY Zenon, <3>1 DEF Init
  <2>8. lm \in {"free", "shutdown"} \union Reloaders /\ overlap \in BOOLEAN
    BY Zenon DEF Init
  <2>9. applied \in 0 .. gen
    BY <1>1 DEF Init
  <2> QED BY Zenon, <1>1, <2>2, <2>3, <2>4, <2>5, <2>6, <2>7, <2>8, <2>9 DEF Init, TypeOK
<1>4. OldClosed /\ Unserved /\ CurrentTableOpen
  BY Zenon DEF Init, Idle, OldClosed, Unserved, CurrentTableOpen
<1>5. Owned /\ GaugeExact
  BY Zenon, <1>2 DEF Init, NoWork, Owned, GaugeExact
<1>6. lm = "free" /\ lm # "shutdown" /\ lm \notin Reloaders /\ ~Released
  <2>1. lm = "free" /\ applied = 0
    BY Zenon DEF Init
  <2>2. ~Released /\ lm # "shutdown"
    BY <2>1 DEF Released
  <2> QED BY Zenon, <2>1, <2>2, ReloadersAssumption
<1>7. Reconciling
  BY Zenon, <1>6 DEF Init, Reconciling
<1>8. Reloading
  BY Zenon, <1>1, <1>6 DEF Init, NoReload, Reloading
<1> QED BY Zenon, <1>3, <1>4, <1>5, <1>7, <1>8 DEF IInv

\* Stuttering.
LEMMA UnchangedIInv ==
  ASSUME IInv, UNCHANGED vars
  PROVE  IInv'
<1>1. UNCHANGED <<history, reload, overlap, closed, listening, collectors, gauge, process, req>>
  BY Zenon DEF vars, listening
<1>2. Owned' /\ Reconciling' /\ Reloading'
  BY Zenon, <1>1, ListenersKept, ReloadingKept DEF listening, reloading
<1>3. OldClosed' /\ Unserved' /\ CurrentTableOpen' /\ GaugeExact'
  BY Zenon, <1>1, RequestsKept
<1>4. server' = server /\ gen' = gen /\ UNCHANGED <<lm, applied, work, servers>>
  BY Zenon, <1>1 DEF gen, listening
<1>5. req' \in [Requests -> RequestRecords'] /\ ReloadRecords' = ReloadRecords
  BY Zenon, <1>1, <1>4, RecordsKept
<1>6. TypeOK'
  BY Zenon, <1>1, <1>4, <1>5 DEF IInv, TypeOK
<1> QED BY Zenon, <1>2, <1>3, <1>6 DEF IInv

\* Every step of the proxy keeps the invariant.
LEMMA StepIInv ==
  ASSUME IInv, [Next]_vars
  PROVE  IInv'
<1>1. ASSUME NEW g \in Reloaders, NEW c \in DOMAIN Configs, SwapTable(g, c) PROVE IInv'
  BY Zenon, <1>1, SwapStep
<1>2. ASSUME NEW g \in Reloaders, ReloadStep(g) PROVE IInv'
  BY Zenon, <1>2, CleanupStep, CleanupDoneStep, BeginReconcileStep, EndReconcileStep,
     MetricsSteps DEF ReloadStep
<1>3. CASE ListenerStep
  BY Zenon, <1>3, StopRemovedStep, AddOrUpdateStep, WaitedStep, ListenCloseStep DEF ListenerStep
<1>4. CASE Signal \/ ShutdownStep
  BY Zenon, <1>4, ShutdownSteps DEF ShutdownStep
<1>5. ASSUME NEW r \in Requests, NEW n \in DOMAIN server, Accept(r, n) PROVE IInv'
  BY Zenon, <1>5, AcceptStep
<1>6. ASSUME NEW r \in Requests, RequestStep(r) PROVE IInv'
  BY Zenon, <1>6, ServeStep, LogRequestStep, ProcessStep, UpstreamStep, FinishStep DEF RequestStep
<1>7. CASE UNCHANGED vars
  BY Zenon, <1>7, UnchangedIInv
<1> QED BY Zenon, <1>1, <1>2, <1>3, <1>4, <1>5, <1>6, <1>7 DEF Next

\* The inductive invariant holds throughout.
LEMMA DataplaneInductive == Spec => []IInv
<1>1. Init => IInv
  BY Zenon, InitIInv
<1>2. IInv /\ [Next]_vars => IInv'
  BY Zenon, StepIInv
<1> QED BY <1>1, <1>2, PTL DEF Spec

----------------------------------------------------------------------------
(* The results.                                                            *)

\* The proxy's state stays of its types through every reload, request and
\* shutdown: lm.servers and the collectors name servers that were started, and
\* what was closed belongs to tables that were built.
THEOREM DataplaneTypeCorrect == Spec => []TypeOK
<1>1. IInv => TypeOK
  BY Zenon DEF IInv
<1> QED BY <1>1, DataplaneInductive, PTL

\* However reloads, clean-ups and requests interleave, a request that writes no
\* log line or cannot ask its processor, because Cleanup closed the file or the
\* connection, was matched by a table that the router has replaced.
THEOREM DataplaneCurrentTableOpen == Spec => []CurrentTableOpen
<1>1. IInv => CurrentTableOpen
  BY Zenon DEF IInv
<1> QED BY <1>1, DataplaneInductive, PTL

\* Whoever reloads and however reloads overlap, lm.servers has, whenever nobody
\* holds lm.mu, what the configuration of the latest Reconcile says of every
\* listener, whatever the servers' goroutines did meanwhile, and no server that
\* was stopped or replaced still runs; and when reloads have ended that
\* configuration is the one of the table, if the latest ran by itself.
THEOREM DataplaneListenersReconciled == Spec => []ListenersReconciled
<1>1. IInv => ListenersReconciled
  <2> SUFFICES ASSUME IInv PROVE ListenersReconciled
    OBVIOUS
  <2>1. ASSUME Released PROVE work.wait = 0 /\ \A id \in Ids : Settled(id)
    BY <2>1 DEF IInv, Reconciling, Released, NoWork
  <2>2. ASSUME Released, NEW n \in DOMAIN server, server[n].state \in {"starting", "listening"}
        PROVE  servers[server[n].id] = n
    <3>1. n # 0 /\ server[n].state \notin {"failed", "closed"}
      BY <2>2 DEF IInv, TypeOK
    <3> QED BY Zenon, <2>1, <2>2, <3>1 DEF IInv, Owned
  <2>3. ASSUME ~overlap, AllIdle PROVE applied = gen
    <3>1. \A g \in Reloaders : reload[g].pc \notin {"cleanup", "reconcile"}
      BY <2>3 DEF AllIdle
    <3> QED BY Zenon, <2>3, <3>1 DEF IInv, Reloading
  <2> QED BY Zenon, <2>1, <2>2, <2>3 DEF ListenersReconciled, Settled
<1> QED BY <1>1, DataplaneInductive, PTL

\* The in-flight gauge of every collector counts the requests that began with
\* it and have not come back, though SetMetricsCollectors changes the router's
\* collectors while they are under way.
THEOREM DataplaneGaugeExact == Spec => []GaugeExact
<1>1. IInv => GaugeExact
  BY Zenon DEF IInv
<1> QED BY <1>1, DataplaneInductive, PTL
=============================================================================
