-------------------------- MODULE ConfigStoreProofs --------------------------
(* What every step of the store preserves, for the proofs about the        *)
(* components that are built on it.                                        *)
EXTENDS ConfigStore, TLAPS

\* Any write, with any configuration for the content of a snapshot.
AnyWrite(w) ==
  \/ EntityWrite(w)
  \/ \E s \in SnapshotIds :
       \/ \E c \in Content : SaveSnapshot(w, s, c)
       \/ DeleteSnapshot(w, s)
       \/ ActivateSnapshot(w, s)

\* publish leaves something in the channel of every subscriber.
LEMMA OfferFact ==
  ASSUME NEW q \in Seq(Events), NEW e \in Events
  PROVE  Offer(q, e) \in Seq(Events) /\ Offer(q, e) # << >>
BY ChanCapAssumption DEF Offer

\* What a committed write leaves to the rest of the system.
LEMMA WriteFact ==
  ASSUME StoreTypeOK, NEW w \in Writers, AnyWrite(w)
  PROVE  /\ StoreTypeOK'
         /\ unpublished'[w] # Absent
         /\ UNCHANGED <<subscribed, chan>>
<1> USE AbsentAssumption, SnapshotIsNotAKind
<1> USE DEF StoreTypeOK, Commit, Events, Content, Collection
<1>1. ASSUME NEW k \in Kinds, NEW i \in Ids, Delete(w, k, i)
      PROVE  StoreTypeOK' /\ unpublished'[w] # Absent /\ UNCHANGED <<subscribed, chan>>
  BY <1>1 DEF Delete
<1>2. ASSUME NEW k \in Kinds, NEW i \in Ids, NEW v \in Values, Save(w, k, i, v)
      PROVE  StoreTypeOK' /\ unpublished'[w] # Absent /\ UNCHANGED <<subscribed, chan>>
  BY <1>2 DEF Save
<1>3. ASSUME NEW s \in SnapshotIds, NEW c \in Content, SaveSnapshot(w, s, c)
      PROVE  StoreTypeOK' /\ unpublished'[w] # Absent /\ UNCHANGED <<subscribed, chan>>
  BY <1>3 DEF SaveSnapshot
<1>4. ASSUME NEW s \in SnapshotIds, DeleteSnapshot(w, s)
      PROVE  StoreTypeOK' /\ unpublished'[w] # Absent /\ UNCHANGED <<subscribed, chan>>
  BY <1>4 DEF DeleteSnapshot
<1>5. ASSUME NEW s \in SnapshotIds, ActivateSnapshot(w, s)
      PROVE  StoreTypeOK' /\ unpublished'[w] # Absent /\ UNCHANGED <<subscribed, chan>>
  BY <1>5 DEF ActivateSnapshot
<1>6. QED  BY <1>1, <1>2, <1>3, <1>4, <1>5 DEF AnyWrite, EntityWrite

\* After publish no subscriber's channel is empty, whatever was dropped.
LEMMA PublishFact ==
  ASSUME StoreTypeOK, NEW w \in Writers, publish(w)
  PROVE  /\ StoreTypeOK'
         /\ \A u \in subscribed : chan'[u] # << >>
         /\ UNCHANGED <<data, subscribed>>
<1>1. unpublished[w] \in Events
  BY DEF publish, StoreTypeOK
<1>2. \A u \in Subscribers : Offer(chan[u], unpublished[w]) \in Seq(Events)
                            /\ Offer(chan[u], unpublished[w]) # << >>
  BY <1>1, OfferFact DEF StoreTypeOK
<1>3. QED  BY <1>2 DEF publish, StoreTypeOK

\* Subscribing, receiving and unsubscribing touch nothing but channels.
LEMMA ChannelFact ==
  ASSUME StoreTypeOK, NEW u \in Subscribers,
         Subscribe(u) \/ Receive(u) \/ Unsubscribe(u)
  PROVE  StoreTypeOK' /\ UNCHANGED <<data, snapshots, active, issued, unpublished>>
<1>1. CASE Subscribe(u)
  BY <1>1 DEF StoreTypeOK, Subscribe
<1>2. CASE Receive(u)
  <2>1. Tail(chan[u]) \in Seq(Events)
    BY <1>2 DEF StoreTypeOK, Receive
  <2>2. QED  BY <1>2, <2>1 DEF StoreTypeOK, Receive
<1>3. CASE Unsubscribe(u)
  BY <1>3 DEF StoreTypeOK, Unsubscribe
<1>4. QED  BY <1>1, <1>2, <1>3
=============================================================================
