------------------------- MODULE SnapshotSyncProofs --------------------------
(* Proofs about module SnapshotSync, for every value of its constants: any  *)
(* proxies, any number of activations, publications and lost connections.   *)
EXTENDS SnapshotSync, ConfigStoreProofs

Writing(p) == handler[p] \in {"greetWrite", "pushWrite"}

\* p's handler holds a subscription in its loop and nowhere else.
SubscribedInLoop ==
  \A p \in Proxies :
    p \in subscribed <=> handler[p] \in {"loop", "push", "pushWrite"}

\* What p runs, then what is in its stream, then what its handler is about to
\* write are successive activations, none newer than the latest.
Ordered ==
  \A p \in Proxies :
    /\ applied[p].at <= epoch
    /\ \A m \in 1..Len(stream[p]) :
         /\ applied[p].at <= stream[p][m].at
         /\ stream[p][m].at <= epoch
         /\ \A n \in m..Len(stream[p]) : stream[p][m].at <= stream[p][n].at
         /\ Writing(p) => stream[p][m].at <= out[p].at
    /\ Writing(p) =>
         /\ out[p] \in Message
         /\ applied[p].at <= out[p].at
         /\ out[p].at <= epoch

\* A gone handler has no stream.
GoneIsEmpty == \A p \in Proxies : handler[p] = "gone" => stream[p] = << >>

\* An event that will make p's handler read the store is on its way.
Coming(p) ==
  \/ \E w \in Writers : unpublished[w] = "snapshot"
  \/ p \in subscribed /\ \E n \in 1..Len(chan[p]) : chan[p][n] = "snapshot"

\* The newest snapshot on the way to p, or the one it runs.
Newest(p) ==
  IF Writing(p) THEN out[p].id
  ELSE IF stream[p] # << >> THEN stream[p][Len(stream[p])].id
  ELSE applied[p].id

\* p's handler is gone or about to read, its event was lost or is coming, or
\* the active snapshot is on its way or runs.
Fresh ==
  \A p \in Proxies :
    \/ handler[p] \in {"gone", "greet", "push"}
    \/ lost[p]
    \/ active \in {Absent} \cup Unbuildable \cup Oversized
    \/ Coming(p)
    \/ Newest(p) = active

\* A stored snapshot has an id that was drawn for it.
StoredIssued == \A s \in SnapshotIds : snapshots[s] # Absent => s \in issued

StoreOK == ActiveStored /\ StoredIssued

IInv ==
  TypeOK /\ StoreOK /\ SubscribedInLoop /\ GoneIsEmpty /\ Ordered /\ Fresh
----------------------------------------------------------------------------
LEMMA StampFact ==
  ASSUME TypeOK, NEW p \in Proxies
  PROVE  /\ epoch \in Nat
         /\ applied[p].at \in Nat
         /\ out[p].at \in Nat
         /\ stream[p] \in Seq(Message)
         /\ \A m \in 1..Len(stream[p]) : stream[p][m] \in Message /\ stream[p][m].at \in Nat
<1>1. \A m \in Message \cup {NoMessage} : m.at \in Nat
  BY DEF Message, NoMessage
<1>2. stream[p] \in Seq(Message)
  BY Zenon DEF TypeOK
<1>3. \A m \in 1..Len(stream[p]) : stream[p][m] \in Message
  BY <1>2
<1>4. QED  BY <1>1 DEF TypeOK

----------------------------------------------------------------------------
LEMMA InitIInv == Init => IInv
<1> SUFFICES ASSUME Init PROVE IInv
  BY Zenon
<1>1. StoreTypeOK
  BY DEF Init, StoreInit, StoreTypeOK
<1>2. TypeOK
  BY <1>1 DEF Init, TypeOK, HandlerStates
<1>3. StoreOK /\ SubscribedInLoop /\ GoneIsEmpty
  BY Zenon
  DEF Init, StoreInit, StoreOK, StoredIssued, ActiveStored, SubscribedInLoop, GoneIsEmpty
<1>4. Ordered
  BY DEF Init, Ordered, Writing, NoMessage
<1>5. Fresh
  BY Zenon DEF Init, Fresh
<1>6. QED  BY Zenon, <1>2, <1>3, <1>4, <1>5 DEF IInv

----------------------------------------------------------------------------
LEMMA EmptySeq == \A s \in Seq(Message) : s = << >> <=> Len(s) = 0
OBVIOUS

LEMMA LenNat == \A s \in Seq(Message) : Len(s) \in Nat
OBVIOUS

\* A step that changes nothing.
LEMMA UnchangedIInv ==
  ASSUME IInv, UNCHANGED vars
  PROVE  IInv'
<1>1. UNCHANGED <<storeVars, handler, out, stream, applied, epoch, lost, failures>>
  BY Zenon DEF vars, syncVars, history
<1>2. TypeOK'
  BY Zenon, <1>1 DEF IInv, TypeOK, StoreTypeOK, storeVars
<1>3. StoreOK' /\ SubscribedInLoop' /\ GoneIsEmpty'
  BY Zenon, <1>1
  DEF IInv, StoreOK, ActiveStored, StoredIssued, SubscribedInLoop, GoneIsEmpty, storeVars
<1>4. Ordered'
  BY <1>1 DEF IInv, Ordered, Writing
<1>5. Fresh'
  BY Zenon, <1>1 DEF IInv, Fresh, Coming, Newest, Writing, storeVars
<1>6. QED  BY Zenon, <1>2, <1>3, <1>4, <1>5 DEF IInv

\* The end of a connection: nothing is promised to a handler that is gone.
LEMMA HangupIInv ==
  ASSUME IInv, NEW p \in Proxies, Hangup(p), UNCHANGED <<applied, epoch, lost>>,
         failures' \in Nat
  PROVE  IInv'
<1>1. p \in Subscribers
  BY Zenon, ProxiesAssumption
<1>2. StoreTypeOK' /\ UNCHANGED <<data, snapshots, active, issued, unpublished>>
  BY Zenon, <1>1, ChannelFact DEF IInv, TypeOK, Hangup
<1>3. /\ handler'[p] = "gone" /\ stream'[p] = << >>
      /\ \A q \in Proxies \ {p} : handler'[q] = handler[q] /\ stream'[q] = stream[q]
  BY Zenon DEF IInv, TypeOK, Hangup
<1>4. subscribed' = subscribed \ {p} /\ \A q \in Proxies \ {p} : chan'[q] = chan[q]
  BY DEF Unsubscribe, Hangup
<1>5. TypeOK'
  <2>1. handler' \in [Proxies -> HandlerStates]
    BY Zenon DEF IInv, TypeOK, HandlerStates, Hangup
  <2>2. stream' \in [Proxies -> Seq(Message)]
    BY DEF IInv, TypeOK, Hangup
  <2>3. QED  BY <1>2, <2>1 DEF IInv, TypeOK, Hangup
<1>6. StoreOK'
  BY Zenon, <1>2 DEF IInv, StoreOK, ActiveStored, StoredIssued
<1>7. SubscribedInLoop' /\ GoneIsEmpty'
  BY Zenon, <1>3, <1>4 DEF IInv, SubscribedInLoop, GoneIsEmpty
<1>8. Ordered'
  <2> SUFFICES ASSUME NEW q \in Proxies PROVE Ordered!(q)'
    BY Zenon DEF Ordered
  <2>1. CASE q # p
    BY DEF IInv, Ordered, Writing, Hangup
  <2>2. CASE q = p
    BY <1>3, <2>2 DEF IInv, Ordered, Writing
  <2>3. QED  BY Zenon, <2>1, <2>2
<1>9. Fresh'
  BY <1>2, <1>3, <1>4 DEF IInv, Fresh, Coming, Newest, Writing, Hangup
<1>10. QED  BY Zenon, <1>5, <1>6, <1>7, <1>8, <1>9 DEF IInv

LEMMA ApplyIInv ==
  ASSUME IInv, NEW p \in Proxies, Apply(p)
  PROVE  IInv' /\ applied[p].at <= applied'[p].at
                /\ \A q \in Proxies \ {p} : applied'[q] = applied[q]
<1> DEFINE m == Head(stream[p])
<1>1. stream[p] # << >> /\ stream[p] \in Seq(Message) /\ UNCHANGED <<failures, epoch, lost>>
  BY Zenon DEF Apply, IInv, TypeOK
<1>2. m = stream[p][1] /\ m \in Message /\ 1 \in 1..Len(stream[p])
  BY <1>1
<1>3. applied[p].at \in Nat /\ m.at \in Nat /\ applied[p].at <= m.at /\ m.at <= epoch
  BY Zenon, <1>2, StampFact DEF IInv, Ordered
<1>4. CASE m.id \in Oversized
  <2>1. Hangup(p) /\ UNCHANGED applied
    BY Zenon, <1>4 DEF Apply
  <2>2. failures' \in Nat
    BY Zenon, <1>1 DEF IInv, TypeOK
  <2>3. IInv'
    BY Zenon, <1>1, <2>1, <2>2, HangupIInv
  <2>4. QED  BY <1>3, <2>1, <2>3
<1>5. CASE m.id \notin Oversized
  <2>1. /\ UNCHANGED <<storeVars, handler, out>>
        /\ stream' = [stream EXCEPT ![p] = Tail(@)]
        /\ applied' = IF m.id \in Unbuildable THEN applied ELSE [applied EXCEPT ![p] = m]
    BY Zenon, <1>5 DEF Apply
  <2>2. /\ \A q \in Proxies \ {p} : applied'[q] = applied[q] /\ stream'[q] = stream[q]
        /\ stream'[p] = Tail(stream[p])
        /\ applied'[p] = IF m.id \in Unbuildable THEN applied[p] ELSE m
    BY Zenon, <2>1 DEF IInv, TypeOK
  <2>3. /\ Tail(stream[p]) \in Seq(Message)
        /\ Len(Tail(stream[p])) = Len(stream[p]) - 1
        /\ \A n \in 1..Len(Tail(stream[p])) :
             n + 1 \in 1..Len(stream[p]) /\ Tail(stream[p])[n] = stream[p][n + 1]
    BY <1>1
  <2>4. applied'[p].at <= m.at /\ applied[p].at <= applied'[p].at
    BY <1>3, <2>2
  <2>5. TypeOK'
    <3>1. StoreTypeOK'
      BY Zenon, <2>1 DEF IInv, TypeOK, StoreTypeOK, storeVars
    <3>2. applied' \in [Proxies -> Message \cup {NoMessage}]
      BY Zenon, <1>2, <2>1 DEF IInv, TypeOK
    <3>3. stream' \in [Proxies -> Seq(Message)]
      BY Zenon, <2>1, <2>3 DEF IInv, TypeOK
    <3>4. QED  BY <1>1, <2>1, <3>1 DEF IInv, TypeOK
  <2>6. StoreOK' /\ SubscribedInLoop'
    BY Zenon, <2>1 DEF IInv, StoreOK, ActiveStored, StoredIssued, SubscribedInLoop, storeVars
  <2>7. GoneIsEmpty'
    BY <2>1 DEF IInv, GoneIsEmpty
  <2>8. Ordered'
    <3> SUFFICES ASSUME NEW q \in Proxies PROVE Ordered!(q)'
      BY Zenon DEF Ordered
    <3>1. CASE q # p
      BY <1>1, <2>1, <3>1 DEF IInv, Ordered, Writing
    <3>2. CASE q = p
      <4>1. applied'[p].at \in Nat /\ epoch \in Nat /\ out[p].at \in Nat
        BY Zenon, <1>3, <2>2, StampFact DEF IInv
      <4>2. \A k \in 1..Len(stream[p]) : stream[p][k].at \in Nat /\ m.at <= stream[p][k].at
        BY StampFact DEF IInv, Ordered
      <4>3. applied'[p].at <= epoch'
        BY <1>1, <1>3, <2>4, <4>1
      <4>4. \A k \in 1..Len(stream'[p]) :
              /\ applied'[p].at <= stream'[p][k].at
              /\ stream'[p][k].at <= epoch'
              /\ \A n \in k..Len(stream'[p]) : stream'[p][k].at <= stream'[p][n].at
              /\ Writing(p)' => stream'[p][k].at <= out'[p].at
        <5> SUFFICES ASSUME NEW k \in 1..Len(stream'[p])
                     PROVE  /\ applied'[p].at <= stream'[p][k].at
                            /\ stream'[p][k].at <= epoch'
                            /\ \A n \in k..Len(stream'[p]) : stream'[p][k].at <= stream'[p][n].at
                            /\ Writing(p)' => stream'[p][k].at <= out'[p].at
          BY Zenon
        <5>1. k + 1 \in 1..Len(stream[p]) /\ stream'[p][k] = stream[p][k + 1]
          BY <2>2
        <5>2. applied'[p].at <= stream'[p][k].at
          BY <2>4, <4>1, <4>2, <5>1
        <5>3. stream'[p][k].at <= epoch' /\ (Writing(p)' => stream'[p][k].at <= out'[p].at)
          BY <1>1, <2>1 DEF IInv, Ordered, Writing
        <5>4. ASSUME NEW n \in k..Len(stream'[p])
              PROVE  stream'[p][k].at <= stream'[p][n].at
          <6>1. n \in 1..Len(stream'[p])
            OBVIOUS
          <6>2. n + 1 \in (k + 1)..Len(stream[p]) /\ stream'[p][n] = stream[p][n + 1]
            BY <2>2
          <6>3. QED  BY Zenon, <5>1, <6>2 DEF IInv, Ordered
        <5>5. QED  BY Zenon, <5>2, <5>3, <5>4
      <4>5. Writing(p)' => /\ out'[p] \in Message
                           /\ applied'[p].at <= out'[p].at
                           /\ out'[p].at <= epoch'
        <5>1. Writing(p) => m.at <= out[p].at
          BY Zenon, <1>2 DEF IInv, Ordered
        <5>2. QED  BY <1>1, <2>1 DEF IInv, Ordered, Writing
      <4>6. QED  BY Zenon, <3>2, <4>3, <4>4, <4>5
    <3>3. QED  BY Zenon, <3>1, <3>2
  <2>9. Fresh'
    <3>1. \A q \in Proxies : Coming(q)' = Coming(q)
      BY Zenon, <2>1 DEF Coming, storeVars
    <3>2. \A q \in Proxies \ {p} : Newest(q)' = Newest(q)
      BY <2>1 DEF Newest, Writing
    <3>3. Newest(p)' = Newest(p) \/ Newest(p) \in Unbuildable
      <4>1. CASE Writing(p)
        BY Zenon, <2>1, <4>1 DEF Newest, Writing
      <4>2. CASE ~Writing(p) /\ Len(stream[p]) = 1
        <5>1. stream'[p] = << >>
          <6>1. Tail(stream[p]) \in Seq(Message) /\ Len(Tail(stream[p])) = 0
            BY <2>3, <4>2
          <6>2. QED  BY Zenon, <2>2, <6>1, EmptySeq
        <5>2. Newest(p) = m.id
          BY <4>2 DEF Newest
        <5>3. QED  BY <2>1, <2>2, <4>2, <5>1 DEF Newest, Writing
      <4>3. CASE ~Writing(p) /\ Len(stream[p]) # 1
        <5>1. Len(stream'[p]) \in 1..Len(stream'[p]) /\ stream'[p] # << >>
          <6>1. PICK k \in Nat : k = Len(stream[p])
            BY <1>1
          <6>2. k >= 1 /\ k # 1
            BY <1>2, <4>3, <6>1
          <6>3. Len(stream'[p]) = k - 1
            BY Zenon, <2>2, <2>3, <6>1
          <6>4. k - 1 \in 1..(k - 1)
            BY <6>2
          <6>5. QED  BY <6>3, <6>4
        <5>2. stream'[p][Len(stream'[p])] = stream[p][Len(stream[p])]
          BY <2>2, <5>1
        <5>3. QED  BY <1>1, <2>1, <5>1 DEF Newest, Writing
      <4>4. QED  BY Zenon, <4>1, <4>2, <4>3
    <3>4. QED  BY Zenon, <1>1, <2>1, <3>1, <3>2, <3>3 DEF IInv, Fresh, storeVars
  <2>10. QED  BY Zenon, <2>2, <2>4, <2>5, <2>6, <2>7, <2>8, <2>9 DEF IInv
<1>6. QED  BY Zenon, <1>4, <1>5

\* Steps of the handler on its channel: what p has seen does not change.
LEMMA ChannelIInv ==
  ASSUME IInv, NEW p \in Proxies, SubscribeStore(p) \/ HandleEvent(p)
  PROVE  IInv'
<1>1. p \in Subscribers
  BY Zenon, ProxiesAssumption
<1>2. StoreTypeOK' /\ UNCHANGED <<data, snapshots, active, issued, unpublished>>
  BY Zenon, <1>1, ChannelFact DEF IInv, TypeOK, SubscribeStore, HandleEvent
<1>3. /\ UNCHANGED <<out, stream, applied, failures, history>>
      /\ handler[p] \in {"subscribe", "loop"}
      /\ handler'[p] \in {"loop", "push"}
      /\ \A q \in Proxies \ {p} : handler'[q] = handler[q]
      /\ handler' \in [Proxies -> HandlerStates]
  BY Zenon DEF IInv, TypeOK, HandlerStates, SubscribeStore, HandleEvent
<1>4. /\ subscribed' = subscribed \cup {p}
      /\ \A q \in Proxies \ {p} : chan'[q] = chan[q]
  BY ProxiesAssumption
  DEF IInv, TypeOK, StoreTypeOK, SubscribeStore, HandleEvent, Subscribe, Receive
<1>5. TypeOK'
  BY Zenon, <1>2, <1>3 DEF IInv, TypeOK, history
<1>6. StoreOK'
  BY Zenon, <1>2 DEF IInv, StoreOK, ActiveStored, StoredIssued
<1>7. SubscribedInLoop' /\ GoneIsEmpty'
  BY Zenon, <1>3, <1>4 DEF IInv, SubscribedInLoop, GoneIsEmpty
<1>8. Ordered'
  BY <1>3 DEF IInv, Ordered, Writing, history
<1>9. Fresh'
  <2>1. \A q \in Proxies : Newest(q)' = Newest(q)
    BY Zenon, <1>3 DEF Newest, Writing
  <2>2. \A q \in Proxies \ {p} : Coming(q)' = Coming(q)
    BY Zenon, <1>2, <1>4 DEF Coming
  <2>3. ASSUME handler'[p] # "push", Coming(p)
        PROVE  Coming(p)'
    <3>1. CASE \E w \in Writers : unpublished[w] = "snapshot"
      BY Zenon, <1>2, <3>1 DEF Coming
    <3>2. CASE p \in subscribed /\ \E n \in 1..Len(chan[p]) : chan[p][n] = "snapshot"
      <4>1. HandleEvent(p)
        BY Zenon, <3>2 DEF SubscribeStore, Subscribe
      <4>2. Head(chan[p]) # "snapshot" /\ chan[p] # << >> /\ chan'[p] = Tail(chan[p])
        BY Zenon, <2>3, <4>1 DEF HandleEvent, Receive, IInv, TypeOK, StoreTypeOK
      <4>3. PICK n \in 1..Len(chan[p]) : chan[p][n] = "snapshot"
        BY Zenon, <3>2
      <4>4. chan[p] \in Seq(Events)
        BY Zenon, <1>1 DEF IInv, TypeOK, StoreTypeOK
      <4>5. n - 1 \in 1..Len(chan'[p]) /\ chan'[p][n - 1] = "snapshot"
        BY <4>2, <4>3
      <4>6. QED  BY Zenon, <1>4, <4>5 DEF Coming
    <3>3. QED  BY Zenon, <2>3, <3>1, <3>2 DEF Coming
  <2>4. QED  BY Zenon, <1>2, <1>3, <2>1, <2>2, <2>3 DEF IInv, Fresh, history
<1>10. QED  BY Zenon, <1>5, <1>6, <1>7, <1>8, <1>9 DEF IInv

LEMMA WriteActiveIInv ==
  ASSUME IInv, NEW p \in Proxies, WriteActive(p)
  PROVE  IInv'
<1>1. /\ Writing(p)
      /\ handler[p] = "greetWrite" => handler'[p] = "subscribe"
      /\ handler[p] = "pushWrite" => handler'[p] = "loop"
      /\ stream'[p] = Append(stream[p], out[p])
      /\ \A q \in Proxies \ {p} : handler'[q] = handler[q] /\ stream'[q] = stream[q]
  BY Zenon DEF IInv, TypeOK, Writing, WriteActive, AfterSend
<1>2. out[p] \in Message
  BY Zenon, <1>1 DEF IInv, Ordered
<1>3. stream[p] \in Seq(Message) /\ stream'[p] \in Seq(Message)
  BY <1>1, <1>2 DEF IInv, TypeOK
<1>4. TypeOK'
  <2>1. StoreTypeOK'
    BY Zenon DEF IInv, TypeOK, StoreTypeOK, WriteActive, storeVars
  <2>2. handler' \in [Proxies -> HandlerStates]
    BY Zenon DEF IInv, TypeOK, HandlerStates, WriteActive, AfterSend
  <2>3. stream' \in [Proxies -> Seq(Message)]
    BY Zenon, <1>3 DEF IInv, TypeOK, WriteActive
  <2>4. QED  BY Zenon, <2>1, <2>2, <2>3 DEF IInv, TypeOK, WriteActive, history
<1>5. StoreOK'
  BY Zenon DEF IInv, StoreOK, ActiveStored, StoredIssued, WriteActive, storeVars
<1>6. SubscribedInLoop' /\ GoneIsEmpty'
  BY Zenon, <1>1 DEF IInv, SubscribedInLoop, GoneIsEmpty, WriteActive, storeVars
<1>7. /\ Len(stream'[p]) = Len(stream[p]) + 1
      /\ stream'[p][Len(stream[p]) + 1] = out[p]
      /\ \A m \in 1..Len(stream[p]) : stream'[p][m] = stream[p][m]
      /\ Len(stream[p]) \in Nat
  BY <1>1
<1>8. ~Writing(p)'
  BY Zenon, <1>1 DEF Writing
<1>9. Ordered'
  <2> SUFFICES ASSUME NEW q \in Proxies
               PROVE  /\ \A m \in 1..Len(stream'[q]) :
                           /\ applied[q].at <= stream'[q][m].at
                           /\ stream'[q][m].at <= epoch
                           /\ \A n \in m..Len(stream'[q]) : stream'[q][m].at <= stream'[q][n].at
                           /\ Writing(q)' => stream'[q][m].at <= out[q].at
                      /\ Writing(q)' => /\ out[q] \in Message
                                        /\ applied[q].at <= out[q].at
                                        /\ out[q].at <= epoch
    BY ZenonT(30) DEF IInv, Ordered, WriteActive, history
  <2>1. CASE q # p
    BY Zenon, <1>1, <2>1 DEF IInv, Ordered, Writing
  <2>2. CASE q = p
    <3>1. \A m \in 1..Len(stream[p]) : stream[p][m].at \in Nat
      BY Zenon, StampFact DEF IInv
    <3>2. out[p].at \in Nat
      BY Zenon, StampFact DEF IInv
    <3>3. \A m \in 1..Len(stream'[p]) : m \in 1..Len(stream[p]) \/ m = Len(stream[p]) + 1
      BY <1>7
    <3>4. /\ applied[p].at <= out[p].at /\ out[p].at <= epoch
          /\ \A m \in 1..Len(stream[p]) :
               /\ applied[p].at <= stream[p][m].at
               /\ stream[p][m].at <= epoch
               /\ \A n \in m..Len(stream[p]) : stream[p][m].at <= stream[p][n].at
               /\ stream[p][m].at <= out[p].at
      BY Zenon, <1>1 DEF IInv, Ordered
    <3>5. ASSUME NEW m \in 1..Len(stream'[p])
          PROVE  /\ applied[p].at <= stream'[p][m].at
                 /\ stream'[p][m].at <= epoch
                 /\ stream'[p][m].at \in Nat
                 /\ stream'[p][m].at <= out[p].at
      <4>1. CASE m \in 1..Len(stream[p])
        BY Zenon, <4>1, <1>7, <3>1, <3>4
      <4>2. CASE m = Len(stream[p]) + 1
        BY <4>2, <1>7, <3>2, <3>4
      <4>3. QED  BY Zenon, <3>3, <4>1, <4>2
    <3>6. ASSUME NEW m \in 1..Len(stream'[p]), NEW n \in m..Len(stream'[p])
          PROVE  stream'[p][m].at <= stream'[p][n].at
      <4>1. n \in 1..Len(stream'[p])
        OBVIOUS
      <4>2. CASE n = Len(stream[p]) + 1
        BY Zenon, <4>2, <1>7, <3>5
      <4>3. CASE n \in 1..Len(stream[p])
        <5>1. m \in 1..Len(stream[p]) /\ n \in m..Len(stream[p])
          BY <4>3
        <5>2. stream[p][m].at <= stream[p][n].at
          BY Zenon, <5>1, <3>4
        <5>3. QED  BY Zenon, <5>1, <5>2, <4>3, <1>7
      <4>4. QED  BY <3>3, <4>2, <4>3
    <3>7. QED  BY Zenon, <1>8, <2>2, <3>5, <3>6
  <2>3. QED  BY ZenonT(30), <2>1, <2>2
<1>10. Fresh'
  <2>1. Newest(p)' = Newest(p)
    <3>1. stream'[p] # << >>
      <4>1. Len(stream'[p]) # 0
        BY <1>7
      <4>2. QED  BY <4>1
    <3>2. Newest(p)' = stream'[p][Len(stream'[p])].id
      BY Zenon, <1>8, <3>1 DEF Newest
    <3>3. Newest(p) = out[p].id
      BY Zenon, <1>1 DEF Newest
    <3>4. QED  BY Zenon, <3>2, <3>3, <1>7
  <2>2. \A q \in Proxies \ {p} : Newest(q)' = Newest(q)
    BY DEF Newest, Writing, WriteActive
  <2>3. \A q \in Proxies : Coming(q)' = Coming(q)
    BY Zenon DEF Coming, WriteActive, storeVars
  <2>4. handler[p] \notin {"gone", "greet", "push"}
    BY Zenon, <1>1 DEF Writing
  <2>5. QED  BY <2>1, <2>2, <2>3 DEF IInv, Fresh, WriteActive, storeVars, history
<1>11. QED  BY Zenon, <1>4, <1>5, <1>6, <1>9, <1>10 DEF IInv

LEMMA ReadActiveIInv ==
  ASSUME IInv, NEW p \in Proxies, ReadActive(p)
  PROVE  IInv'
<1>1. /\ \A q \in Proxies \ {p} : handler'[q] = handler[q] /\ out'[q] = out[q]
      /\ handler[p] = "greet" => handler'[p] \in {"subscribe", "greetWrite"}
      /\ handler[p] = "push" => handler'[p] \in {"loop", "pushWrite"}
      /\ handler[p] \in {"greet", "push"}
  BY Zenon DEF IInv, TypeOK, ReadActive, AfterSend
<1>2. active # Absent => out'[p] = [id |-> active, at |-> epoch]
  BY Zenon DEF IInv, TypeOK, ReadActive
<1>3. active = Absent => ~Writing(p)'
  BY Zenon DEF IInv, TypeOK, Writing, ReadActive, AfterSend
<1>4. active # Absent => out'[p] \in Message
  BY <1>2 DEF IInv, TypeOK, StoreTypeOK, Message
<1>5. TypeOK'
  <2>1. StoreTypeOK'
    BY Zenon DEF IInv, TypeOK, StoreTypeOK, ReadActive, storeVars, history
  <2>2. handler' \in [Proxies -> HandlerStates]
    BY DEF IInv, TypeOK, HandlerStates, ReadActive, history, AfterSend
  <2>3. out' \in [Proxies -> Message \cup {NoMessage}]
    <3>1. CASE active = Absent
      BY Zenon, <3>1 DEF IInv, TypeOK, ReadActive, history, AfterSend
    <3>2. CASE active # Absent
      BY Zenon, <1>4 DEF IInv, TypeOK, ReadActive
    <3>3. QED  BY Zenon, <3>1, <3>2
  <2>4. QED  BY Zenon, <2>1, <2>2, <2>3 DEF IInv, TypeOK, ReadActive, history
<1>6. StoreOK'
  BY Zenon DEF IInv, StoreOK, ActiveStored, StoredIssued, ReadActive, storeVars
<1>7. SubscribedInLoop' /\ GoneIsEmpty'
  BY Zenon, <1>1 DEF IInv, SubscribedInLoop, GoneIsEmpty, ReadActive, storeVars
<1>8. Ordered'
  <2> SUFFICES ASSUME NEW q \in Proxies
               PROVE  /\ \A m \in 1..Len(stream[q]) : Writing(q)' => stream[q][m].at <= out'[q].at
                      /\ Writing(q)' => /\ out'[q] \in Message
                                        /\ applied[q].at <= out'[q].at
                                        /\ out'[q].at <= epoch
    BY DEF IInv, Ordered, ReadActive, history
  <2>1. CASE q # p
    BY ZenonT(30), <1>1, <2>1 DEF IInv, Ordered, Writing
  <2>2. CASE q = p
    <3>1. epoch \in Nat
      BY Zenon, StampFact DEF IInv
    <3>2. applied[p].at <= epoch /\ \A m \in 1..Len(stream[p]) : stream[p][m].at <= epoch
      BY Zenon DEF IInv, Ordered
    <3>3. CASE active = Absent
      BY Zenon, <1>3, <2>2, <3>3
    <3>4. CASE active # Absent
      <4>1. out'[q] \in Message /\ out'[q].at = epoch
        BY <1>2, <1>4, <2>2, <3>4
      <4>2. QED  BY <2>2, <3>1, <3>2, <4>1
    <3>5. QED  BY Zenon, <3>3, <3>4
  <2>3. QED  BY Zenon, <2>1, <2>2
<1>9. Fresh'
  <2> SUFFICES ASSUME NEW q \in Proxies, active # Absent,
                      handler'[q] \notin {"gone", "greet", "push"}, ~lost[q],
                      active \notin Unbuildable \cup Oversized
               PROVE  Coming(q)' \/ Newest(q)' = active
    BY Zenon DEF Fresh, ReadActive, storeVars, history
  <2>1. CASE q # p
    BY Zenon, <1>1, <2>1
    DEF IInv, Fresh, Coming, Newest, Writing, ReadActive, storeVars, AfterSend
  <2>2. CASE q = p
    <3>1. Writing(p)'
      BY Zenon DEF IInv, TypeOK, Writing, ReadActive
    <3>2. Newest(p)' = out'[p].id
      BY Zenon, <3>1 DEF Newest
    <3>3. active # Absent
      BY Zenon
    <3>4. out'[p].id = active
      BY <1>2
    <3>5. QED  BY Zenon, <2>2, <3>2, <3>4
  <2>3. QED  BY Zenon, <2>1, <2>2
<1>10. QED  BY Zenon, <1>5, <1>6, <1>7, <1>8, <1>9 DEF IInv

\* Steps of the handler that read nothing from a channel.
LEMMA ConnectIInv ==
  ASSUME IInv, NEW p \in Proxies, Connect(p)
  PROVE  IInv'
<1>1. /\ handler'[p] = "greet"
      /\ \A q \in Proxies \ {p} : handler'[q] = handler[q] /\ lost'[q] = lost[q]
  BY Zenon DEF IInv, TypeOK, Connect
<1>2. TypeOK'
  <2>1. StoreTypeOK'
    BY Zenon DEF IInv, TypeOK, StoreTypeOK, Connect, storeVars
  <2>2. handler' \in [Proxies -> HandlerStates] /\ lost' \in [Proxies -> BOOLEAN]
    BY Zenon DEF IInv, TypeOK, HandlerStates, Connect
  <2>3. QED  BY Zenon, <2>1, <2>2 DEF IInv, TypeOK, Connect
<1>3. StoreOK'
  BY Zenon DEF IInv, StoreOK, ActiveStored, StoredIssued, Connect, storeVars
<1>4. SubscribedInLoop' /\ GoneIsEmpty'
  BY DEF IInv, SubscribedInLoop, GoneIsEmpty, Connect, storeVars
<1>5. Ordered'
  BY DEF IInv, Ordered, Writing, Connect
<1>6. Fresh'
  BY DEF IInv, Fresh, Coming, Newest, Writing, Connect, storeVars
<1>7. QED  BY Zenon, <1>2, <1>3, <1>4, <1>5, <1>6 DEF IInv

LEMMA RestartIInv == IInv /\ Restart => IInv'
<1> SUFFICES ASSUME IInv, Restart PROVE IInv'
  BY Zenon
<1>1. TypeOK'
  <2>1. StoreTypeOK'
    BY DEF IInv, TypeOK, StoreTypeOK, Restart
  <2>2. handler' \in [Proxies -> HandlerStates] /\ stream' \in [Proxies -> Seq(Message)]
    BY DEF HandlerStates, Restart
  <2>3. QED  BY <2>1, <2>2 DEF IInv, TypeOK, Restart
<1>2. StoreOK' /\ SubscribedInLoop' /\ GoneIsEmpty'
  BY Zenon DEF IInv, StoreOK, ActiveStored, StoredIssued, SubscribedInLoop, GoneIsEmpty, Restart
<1>3. Ordered'
  BY DEF IInv, Ordered, Writing, Restart
<1>4. Fresh'
  BY Zenon DEF Fresh, Restart
<1>5. QED  BY Zenon, <1>1, <1>2, <1>3, <1>4 DEF IInv

\* Publish: a subscriber has a snapshot event in its channel afterwards, or
\* the loss is recorded.
LEMMA PublishIInv ==
  ASSUME IInv, NEW w \in Writers, Publish(w)
  PROVE  IInv'
<1>1. StoreTypeOK' /\ UNCHANGED <<data, subscribed>>
  BY Zenon, PublishFact DEF IInv, TypeOK, Publish
<1>2. UNCHANGED <<syncVars, epoch, snapshots, active, issued>>
  BY Zenon DEF publish, Publish
<1>3. TypeOK'
  <2>1. lost' \in [Proxies -> BOOLEAN]
    BY Zenon DEF Publish
  <2>2. QED  BY Zenon, <1>1, <1>2, <2>1 DEF IInv, TypeOK, syncVars
<1>4. StoreOK' /\ SubscribedInLoop' /\ GoneIsEmpty'
  BY Zenon, <1>1, <1>2
  DEF IInv, StoreOK, ActiveStored, StoredIssued, SubscribedInLoop, GoneIsEmpty, syncVars
<1>5. Ordered'
  BY <1>2 DEF IInv, Ordered, Writing, syncVars
<1>6. Fresh'
  <2> SUFFICES ASSUME NEW p \in Proxies,
                      handler[p] \notin {"gone", "greet", "push"}, ~lost'[p],
                      active \notin {Absent} \cup Unbuildable \cup Oversized
               PROVE  Coming(p)' \/ Newest(p)' = active
    BY Zenon, <1>2 DEF Fresh, syncVars
  <2>1. ~lost[p]
    BY Zenon DEF Publish
  <2>2. p \in Subscribers /\ chan[p] \in Seq(Events) /\ unpublished[w] \in Events
    BY Zenon, ProxiesAssumption DEF IInv, TypeOK, StoreTypeOK, publish, Publish
  <2>3. chan'[p] = IF p \in subscribed THEN Offer(chan[p], unpublished[w]) ELSE chan[p]
    BY Zenon, <2>2 DEF publish, Publish
  <2>4. ASSUME p \in subscribed, NEW n \in 1..Len(chan[p]), chan[p][n] = "snapshot"
        PROVE  Coming(p)'
    <3>1. n \in 1..Len(chan'[p]) /\ chan'[p][n] = "snapshot"
      BY <2>3, <2>4 DEF Offer
    <3>2. QED  BY Zenon, <1>1, <2>4, <3>1 DEF Coming
  <2>5. CASE unpublished[w] = "snapshot"
    <3>1. ~BeforeSubscribe(p) /\ ~DropMatters(p)
      BY Zenon, <2>5 DEF Publish
    <3>2. handler[p] \in HandlerStates
      BY Zenon DEF IInv, TypeOK
    <3>3. p \in subscribed
      BY Zenon, <3>1, <3>2 DEF BeforeSubscribe, HandlerStates, IInv, SubscribedInLoop
    <3>4. CASE Len(chan[p]) < ChanCap
      <4>1. chan'[p] = Append(chan[p], "snapshot")
        BY Zenon, <2>3, <2>5, <3>3, <3>4 DEF Offer
      <4>2. Len(chan'[p]) \in 1..Len(chan'[p]) /\ chan'[p][Len(chan'[p])] = "snapshot"
        BY <4>1
      <4>3. QED  BY Zenon, <1>1, <3>3, <4>2 DEF Coming
    <3>5. CASE ~(Len(chan[p]) < ChanCap)
      <4>1. \E n \in 1..Len(chan[p]) : chan[p][n] = "snapshot"
        BY <3>1, <3>3, <3>5, ChanCapAssumption DEF DropMatters
      <4>2. QED  BY Zenon, <2>4, <3>3, <4>1
    <3>6. QED  BY Zenon, <3>4, <3>5
  <2>6. CASE unpublished[w] # "snapshot"
    <3>1. CASE Newest(p) = active
      BY ZenonT(30), <1>2, <3>1 DEF Newest, Writing, syncVars
    <3>2. CASE \E v \in Writers : unpublished[v] = "snapshot"
      <4>1. PICK v \in Writers : unpublished[v] = "snapshot"
        BY Zenon, <3>2
      <4>2. unpublished'[v] = "snapshot"
        BY <2>6, <4>1 DEF publish, Publish
      <4>3. QED  BY Zenon, <4>2 DEF Coming
    <3>3. CASE p \in subscribed /\ \E n \in 1..Len(chan[p]) : chan[p][n] = "snapshot"
      BY Zenon, <2>4, <3>3
    <3>4. QED  BY Zenon, <2>1, <3>1, <3>2, <3>3 DEF IInv, Fresh, Coming
  <2>7. QED  BY Zenon, <2>5, <2>6
<1>7. QED  BY Zenon, <1>3, <1>4, <1>5, <1>6 DEF IInv

\* Writes: every snapshot write leaves an event to be published.
LEMMA WriteIInv ==
  ASSUME IInv, NEW w \in Writers,
         OtherWrite(w) \/ \E s \in SnapshotIds : Activate(w, s)
  PROVE  IInv'
<1>1. AnyWrite(w)
  BY Zenon DEF AnyWrite, OtherWrite, Activate, IInv, TypeOK, StoreTypeOK
<1>2. StoreTypeOK' /\ UNCHANGED <<subscribed, chan>>
  BY Zenon, <1>1, WriteFact DEF IInv, TypeOK
<1>3. UNCHANGED <<syncVars, lost>>
  BY Zenon DEF OtherWrite, Activate, history
<1>4. epoch' \in Nat /\ epoch <= epoch'
  BY DEF OtherWrite, Activate, history, IInv, TypeOK
<1>6. TypeOK'
  BY Zenon, <1>2, <1>3, <1>4 DEF IInv, TypeOK, syncVars
<1>7. SubscribedInLoop' /\ GoneIsEmpty'
  BY Zenon, <1>2, <1>3 DEF IInv, SubscribedInLoop, GoneIsEmpty, syncVars
<1>8. Ordered'
  <2>1. SUFFICES ASSUME NEW p \in Proxies
                 PROVE  /\ applied[p].at <= epoch'
                        /\ \A m \in 1..Len(stream[p]) : stream[p][m].at <= epoch'
                        /\ Writing(p) => out[p].at <= epoch'
    BY <1>3 DEF IInv, Ordered, Writing, syncVars
  <2>2. /\ applied[p].at \in Nat
        /\ epoch \in Nat
        /\ \A m \in 1..Len(stream[p]) : stream[p][m].at \in Nat
        /\ Writing(p) => out[p].at \in Nat
    BY Zenon, StampFact DEF IInv
  <2>3. QED  BY <1>4, <2>2 DEF IInv, Ordered
<1>9. StoreOK' /\ Fresh'
  <2>1. ASSUME EntityWrite(w) PROVE StoreOK' /\ Fresh'
    <3>1. UNCHANGED <<snapshots, active, issued>>
      BY Zenon, <2>1 DEF EntityWrite, Save, Delete
    <3>2. unpublished[w] = Absent /\ \A v \in Writers \ {w} : unpublished'[v] = unpublished[v]
      BY Zenon, <2>1 DEF EntityWrite, Save, Delete, Commit, IInv, TypeOK, StoreTypeOK
    <3>3. \A p \in Proxies : Coming(p) => Coming(p)'
      BY Zenon, <1>2, <3>2, SnapshotIsNotAKind DEF Coming
    <3>4. \A p \in Proxies : Newest(p)' = Newest(p)
      BY Zenon, <1>3 DEF Newest, Writing, syncVars
    <3>5. Fresh'
      BY Zenon, <1>3, <3>1, <3>3, <3>4 DEF IInv, Fresh, syncVars
    <3>6. QED  BY Zenon, <3>1, <3>5 DEF IInv, StoreOK, ActiveStored, StoredIssued
  <2>2. ASSUME NEW s \in SnapshotIds,
               SaveSnapshot(w, s, data) \/ DeleteSnapshot(w, s) \/ ActivateSnapshot(w, s)
        PROVE  StoreOK' /\ Fresh'
    <3>1. unpublished'[w] = "snapshot"
      BY Zenon, <2>2
      DEF SaveSnapshot, DeleteSnapshot, ActivateSnapshot, Commit, IInv, TypeOK, StoreTypeOK
    <3>2. Fresh'
      BY Zenon, <3>1 DEF Fresh, Coming
    <3>3. StoreOK'
      BY <2>2, AbsentAssumption
      DEF SaveSnapshot, DeleteSnapshot, ActivateSnapshot, IInv, StoreOK, ActiveStored,
          StoredIssued, TypeOK, StoreTypeOK
    <3>4. QED  BY Zenon, <3>2, <3>3
  <2>3. QED  BY Zenon, <2>1, <2>2 DEF OtherWrite, Activate
<1>10. QED  BY Zenon, <1>6, <1>7, <1>8, <1>9 DEF IInv

----------------------------------------------------------------------------
LEMMA StepIInv == IInv /\ [Next]_vars => IInv'
<1> SUFFICES ASSUME IInv, [Next]_vars PROVE IInv'
  BY Zenon
<1>1. ASSUME NEW w \in Writers, NEW s \in SnapshotIds, Activate(w, s) PROVE IInv'
  BY Zenon, <1>1, WriteIInv
<1>2. ASSUME NEW w \in Writers, OtherWrite(w) PROVE IInv'
  BY Zenon, <1>2, WriteIInv
<1>3. ASSUME NEW w \in Writers, Publish(w) PROVE IInv'
  BY Zenon, <1>3, PublishIInv
<1>4. ASSUME NEW p \in Proxies, Connect(p) PROVE IInv'
  BY Zenon, <1>4, ConnectIInv
<1>5. ASSUME NEW p \in Proxies, HandlerStep(p) PROVE IInv'
  BY Zenon, <1>5, ReadActiveIInv, WriteActiveIInv, ChannelIInv DEF HandlerStep
<1>6. ASSUME NEW p \in Proxies, Apply(p) PROVE IInv'
  BY Zenon, <1>6, ApplyIInv
<1>7. ASSUME NEW p \in Proxies, Disconnect(p) PROVE IInv'
  <2>1. failures' \in Nat
    BY <1>7 DEF Disconnect, IInv, TypeOK
  <2>2. QED  BY Zenon, <1>7, <2>1, HangupIInv DEF Disconnect
<1>8. ASSUME Restart PROVE IInv'
  BY Zenon, <1>8, RestartIInv
<1>9. ASSUME UNCHANGED vars PROVE IInv'
  BY Zenon, <1>9, UnchangedIInv
<1>10. QED
  BY Zenon, <1>1, <1>2, <1>3, <1>4, <1>5, <1>6, <1>7, <1>8, <1>9 DEF Next

LEMMA Inductive == Spec => []IInv
<1>1. Init => IInv
  BY Zenon, InitIInv
<1>2. IInv /\ [Next]_vars => IInv'
  BY Zenon, StepIInv
<1>3. QED  BY <1>1, <1>2, PTL DEF Spec

(* Every variable of the handlers, the clients and the store keeps its type *)
(* over connects, pushes, broken connections and restarts.                  *)
THEOREM SyncTypeCorrect == Spec => []TypeOK
<1>1. IInv => TypeOK
  BY Zenon DEF IInv
<1>2. QED  BY <1>1, Inductive, PTL

(* GetActiveSnapshot never meets a dangling pointer: whatever requests race, *)
(* the active id names a stored snapshot.                                    *)
THEOREM SyncActiveStored == Spec => []ActiveStored
<1>1. IInv => ActiveStored
  BY Zenon DEF IInv, StoreOK
<1>2. QED  BY <1>1, Inductive, PTL

(* A proxy that is connected and has nothing left to receive runs the active *)
(* snapshot, for any number of proxies, writers and snapshots and any        *)
(* channel capacity, unless a snapshot event was lost on its connection.     *)
THEOREM SyncSettledUnlessLost == Spec => []SettledUnlessLost
<1>1. IInv => SettledUnlessLost
  <2> SUFFICES ASSUME IInv, NEW p \in Proxies, Settled(p), ~lost[p]
               PROVE  Synced(p)
    BY Zenon DEF SettledUnlessLost
  <2>1. handler[p] = "loop" /\ chan[p] = << >> /\ stream[p] = << >>
        /\ \A w \in Writers : unpublished[w] = Absent
    BY Zenon DEF Settled, AllPublished
  <2>2. ~Coming(p)
    BY <2>1, SnapshotIsNotAKind DEF Coming
  <2>3. Newest(p) = applied[p].id
    BY Zenon, <2>1 DEF Newest, Writing
  <2>4. QED  BY Zenon, <2>1, <2>2, <2>3 DEF IInv, Fresh, Synced
<1>2. QED  BY <1>1, Inductive, PTL

(* No step takes a proxy back to an earlier activation: the stream is in     *)
(* order, a new connection starts from what is active, and a restart of the  *)
(* control plane forgets no activation.                                      *)
THEOREM SyncNeverBackwards == Spec => NeverBackwards
<1>1. IInv /\ [Next]_vars => [\A p \in Proxies : applied'[p].at >= applied[p].at]_vars
  <2> SUFFICES ASSUME IInv, [Next]_vars, NEW p \in Proxies
               PROVE  applied'[p].at >= applied[p].at
    BY Zenon
  <2>1. applied[p].at \in Nat
    BY Zenon, StampFact DEF IInv
  <2>2. ASSUME NEW q \in Proxies, Apply(q) PROVE applied'[p].at >= applied[p].at
    <3>1. applied[q].at <= applied'[q].at /\ \A r \in Proxies \ {q} : applied'[r] = applied[r]
      BY Zenon, <2>2, ApplyIInv
    <3>2. IInv'
      BY Zenon, <2>2, ApplyIInv
    <3>3. applied'[p].at \in Nat
      <4>1. \A m \in Message \cup {NoMessage} : m.at \in Nat
        BY DEF Message, NoMessage
      <4>2. QED  BY Zenon, <3>2, <4>1 DEF IInv, TypeOK
    <3>4. QED  BY <3>1, <3>3
  <2>3. CASE UNCHANGED applied
    BY <2>1, <2>3
  <2>4. QED
    BY ZenonT(30), <2>2, <2>3
    DEF Next, vars, syncVars, Activate, OtherWrite, Publish, Connect, HandlerStep, ReadActive,
        WriteActive, SubscribeStore, HandleEvent, Disconnect, Restart
<1>2. QED  BY <1>1, Inductive, PTL DEF Spec, NeverBackwards
=============================================================================
