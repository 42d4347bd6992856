---------------------------- MODULE SnapshotSync -----------------------------
(***************************************************************************)
(* How an activated snapshot reaches the proxies: the SSE handler of the   *)
(* control plane (server/internal/api/handlers/sync.go), one instance per  *)
(* connection, and the sync client of each proxy                           *)
(* (server/internal/sync/client.go), composed with the store.  A           *)
(* connection can break and the control plane can restart at any point.    *)
(***************************************************************************)
EXTENDS ConfigStore

CONSTANTS
  Proxies,        \* proxy processes; p is also its handler's subscription
  StreamCap,      \* messages the network buffers before Write blocks
  MaxFailures,    \* bound: broken connections and restarts in a behaviour
  Unbuildable,    \* snapshots for which BuildTable fails on the proxy
  Oversized       \* snapshots longer than the scanner's 4 MiB line

ASSUME ProxiesAssumption == Proxies \subseteq Subscribers
ASSUME StreamCapAssumption == StreamCap \in Nat \ {0}
ASSUME MaxFailuresAssumption == MaxFailures \in Nat

VARIABLES
  handler,        \* handler[p]: where p's SSE handler is
  out,            \* out[p]: the snapshot read and about to be written
  stream,         \* stream[p]: written by the handler, not yet read by p
  applied,        \* applied[p]: the snapshot p runs
  failures,       \* number of failures so far
  epoch,          \* history: number of activations so far
  lost            \* history: lost[p]: an event p needed did not reach it

syncVars == <<handler, out, stream, applied, failures>>
history == <<epoch, lost>>
vars == <<storeVars, syncVars, history>>

\* "gone": no connection.  "greet", "greetWrite": the snapshot sent on
\* connect.  "subscribe": about to subscribe.  "loop": in the select.
\* "push", "pushWrite": an event arrived, the active snapshot is sent.
HandlerStates ==
  {"gone", "greet", "greetWrite", "subscribe", "loop", "push", "pushWrite"}

\* A snapshot as sent, stamped (history) with the activations so far.
Message == [id : SnapshotIds, at : Nat]
NoMessage == [id |-> Absent, at |-> 0]

TypeOK ==
  /\ StoreTypeOK
  /\ handler \in [Proxies -> HandlerStates]
  /\ out \in [Proxies -> Message \cup {NoMessage}]
  /\ stream \in [Proxies -> Seq(Message)]
  /\ applied \in [Proxies -> Message \cup {NoMessage}]
  /\ failures \in Nat
  /\ epoch \in Nat
  /\ lost \in [Proxies -> BOOLEAN]

Init ==
  /\ StoreInit
  /\ handler = [p \in Proxies |-> "gone"]
  /\ out = [p \in Proxies |-> NoMessage]
  /\ stream = [p \in Proxies |-> << >>]
  /\ applied = [p \in Proxies |-> NoMessage]
  /\ failures = 0
  /\ epoch = 0
  /\ lost = [p \in Proxies |-> FALSE]

----------------------------------------------------------------------------
(* The API side: every store write, with the history it leaves.            *)

Activate(w, s) ==
  /\ ActivateSnapshot(w, s)
  /\ epoch' = epoch + 1
  /\ UNCHANGED <<syncVars, lost>>

OtherWrite(w) ==
  /\ \/ EntityWrite(w)
     \/ \E s \in SnapshotIds : SaveSnapshot(w, s, data) \/ DeleteSnapshot(w, s)
  /\ UNCHANGED <<syncVars, history>>

\* p has read the active snapshot but is not subscribed yet.
BeforeSubscribe(p) == handler[p] \in {"greetWrite", "subscribe"}

\* The channel has no room and holds no event that will make p read again.
DropMatters(p) ==
  /\ p \in subscribed
  /\ Len(chan[p]) >= ChanCap
  /\ \A n \in 1..Len(chan[p]) : chan[p][n] # "snapshot"

Publish(w) ==
  /\ publish(w)
  /\ lost' = [p \in Proxies |->
                \/ lost[p]
                \/ unpublished[w] = "snapshot" /\ (BeforeSubscribe(p) \/ DropMatters(p))]
  /\ UNCHANGED <<syncVars, epoch>>

----------------------------------------------------------------------------
(* SyncSnapshot, one handler per connection.                               *)

\* Mutant of Connect: the client gives up after its first failure.
ConnectOnce(p) ==
  /\ handler[p] = "gone"
  /\ failures = 0
  /\ handler' = [handler EXCEPT ![p] = "greet"]
  /\ lost' = [lost EXCEPT ![p] = FALSE]
  /\ UNCHANGED <<storeVars, out, stream, applied, failures, epoch>>

\* The client's GET: headers are flushed and the handler runs.
Connect(p) ==
  /\ handler[p] = "gone"
  /\ handler' = [handler EXCEPT ![p] = "greet"]
  /\ lost' = [lost EXCEPT ![p] = FALSE]
  /\ UNCHANGED <<storeVars, out, stream, applied, failures, epoch>>

\* What the handler does once a send is over or there was nothing to send.
AfterSend(h) == IF h \in {"greet", "greetWrite"} THEN "subscribe" ELSE "loop"

\* Mutant of ReadActive: what was sent on connect is sent again.
ReadActiveCached(p) ==
  /\ handler[p] \in {"greet", "push"}
  /\ IF active = Absent
     THEN /\ handler' = [handler EXCEPT ![p] = AfterSend(@)]
          /\ UNCHANGED out
     ELSE /\ handler' = [handler EXCEPT
                           ![p] = IF @ = "greet" THEN "greetWrite" ELSE "pushWrite"]
          /\ out' = IF out[p] # NoMessage THEN out
                    ELSE [out EXCEPT ![p] = [id |-> active, at |-> epoch]]
  /\ UNCHANGED <<storeVars, stream, applied, failures, history>>

\* sendActiveSnapshot reads the store; ErrNoActiveSnapshot sends nothing.
ReadActive(p) ==
  /\ handler[p] \in {"greet", "push"}
  /\ IF active = Absent
     THEN /\ handler' = [handler EXCEPT ![p] = AfterSend(@)]
          /\ UNCHANGED out
     ELSE /\ handler' = [handler EXCEPT
                           ![p] = IF @ = "greet" THEN "greetWrite" ELSE "pushWrite"]
          /\ out' = [out EXCEPT ![p] = [id |-> active, at |-> epoch]]
  /\ UNCHANGED <<storeVars, stream, applied, failures, history>>

\* sendActiveSnapshot writes and flushes; Write blocks on a full connection.
WriteActive(p) ==
  /\ handler[p] \in {"greetWrite", "pushWrite"}
  /\ Len(stream[p]) < StreamCap
  /\ stream' = [stream EXCEPT ![p] = Append(@, out[p])]
  /\ handler' = [handler EXCEPT ![p] = AfterSend(@)]
  /\ UNCHANGED <<storeVars, out, applied, failures, history>>

SubscribeStore(p) ==
  /\ handler[p] = "subscribe"
  /\ Subscribe(p)
  /\ handler' = [handler EXCEPT ![p] = "loop"]
  /\ UNCHANGED <<out, stream, applied, failures, history>>

\* Events of resources other than snapshots are skipped.
HandleEvent(p) ==
  /\ handler[p] = "loop"
  /\ Receive(p)
  /\ handler' = [handler EXCEPT
                   ![p] = IF Head(chan[p]) = "snapshot" THEN "push" ELSE "loop"]
  /\ UNCHANGED <<out, stream, applied, failures, history>>

----------------------------------------------------------------------------
(* The client: stream and applySnapshot.                                   *)

\* p's connection ends: the handler's context is cancelled, what the network
\* held is lost, and Run will connect again.
Hangup(p) ==
  /\ Unsubscribe(p)
  /\ handler' = [handler EXCEPT ![p] = "gone"]
  /\ stream' = [stream EXCEPT ![p] = << >>]
  /\ UNCHANGED out

\* Mutant of Apply: snapshots are applied in any order.
ApplyUnordered(p) ==
  /\ \E n \in 1..Len(stream[p]) :
       /\ stream' = [stream EXCEPT ![p] = SubSeq(@, 1, n - 1) \o SubSeq(@, n + 1, Len(@))]
       /\ applied' = [applied EXCEPT ![p] = stream[p][n]]
  /\ UNCHANGED <<storeVars, handler, out, failures, history>>

\* A snapshot that does not build is logged and skipped; one that does not
\* fit the scanner's buffer ends the stream.
Apply(p) ==
  /\ stream[p] # << >>
  /\ LET m == Head(stream[p]) IN
       IF m.id \in Oversized
       THEN Hangup(p) /\ UNCHANGED applied
       ELSE /\ stream' = [stream EXCEPT ![p] = Tail(@)]
            /\ applied' = IF m.id \in Unbuildable THEN applied
                                                  ELSE [applied EXCEPT ![p] = m]
            /\ UNCHANGED <<storeVars, handler, out>>
  /\ UNCHANGED <<failures, epoch, lost>>

Disconnect(p) ==
  /\ handler[p] # "gone"
  /\ failures < MaxFailures
  /\ failures' = failures + 1
  /\ Hangup(p)
  /\ UNCHANGED <<applied, epoch, lost>>

\* The control plane dies and is started again: the database is as committed,
\* events not yet published and all subscriptions and connections are gone.
Restart ==
  /\ failures < MaxFailures
  /\ failures' = failures + 1
  /\ unpublished' = [w \in Writers |-> Absent]
  /\ subscribed' = {}
  /\ chan' = [u \in Subscribers |-> << >>]
  /\ handler' = [p \in Proxies |-> "gone"]
  /\ stream' = [p \in Proxies |-> << >>]
  /\ UNCHANGED <<data, snapshots, active, issued, writes, out, applied,
                 epoch, lost>>

----------------------------------------------------------------------------
HandlerStep(p) ==
  ReadActive(p) \/ WriteActive(p) \/ SubscribeStore(p) \/ HandleEvent(p)

Next ==
  \/ \E w \in Writers :
       \/ \E s \in SnapshotIds : Activate(w, s)
       \/ OtherWrite(w)
       \/ Publish(w)
  \/ \E p \in Proxies :
       Connect(p) \/ HandlerStep(p) \/ Apply(p) \/ Disconnect(p)
  \/ Restart

\* Goroutines that can run do run, and Run reconnects for ever.
Fairness ==
  /\ \A w \in Writers : WF_vars(Publish(w))
  /\ \A p \in Proxies :
       WF_vars(Connect(p)) /\ WF_vars(HandlerStep(p)) /\ WF_vars(Apply(p))

Spec == Init /\ [][Next]_vars
FairSpec == Spec /\ Fairness
----------------------------------------------------------------------------
\* p has nothing to read, its handler nothing to send or receive, and no
\* event is still to be published.
Settled(p) ==
  /\ handler[p] = "loop"
  /\ chan[p] = << >>
  /\ stream[p] = << >>
  /\ AllPublished

\* p runs the active snapshot, or there is none that it could run.
Synced(p) ==
  \/ active = Absent
  \/ active \in Unbuildable \cup Oversized
  \/ applied[p].id = active

(* The active pointer names a stored snapshot: GetActiveSnapshot never      *)
(* finds a dangling id, whatever deletes race with activations.             *)
ActiveStored == active # Absent => snapshots[active] # Absent

(* A proxy never goes back to an earlier activation, over reconnections,    *)
(* restarts and events that come late (client.go applies in stream order,   *)
(* sync.go reads the store when it sends).                                  *)
NeverBackwards == [][\A p \in Proxies : applied'[p].at >= applied[p].at]_vars

(* A settled proxy runs the active snapshot unless an event it needed was   *)
(* lost: published between the read on connect and Subscribe, or dropped    *)
(* from a full channel with no other snapshot event in it.                  *)
SettledUnlessLost == \A p \in Proxies : Settled(p) /\ ~lost[p] => Synced(p)

(* Once activations and failures stop, every proxy comes to run the active  *)
(* snapshot, unless an event was lost on its current connection.            *)
EventuallySynced == <>[](\A p \in Proxies : lost[p] \/ Synced(p))
=============================================================================
