---------------------------- MODULE GatewayProofs ----------------------------
(* Proofs about module Gateway, for every value of its constants.          *)
EXTENDS Gateway, ConfigStoreProofs

\* A rebuild is to come: an event waits or is about to, or Run is not yet there.
Pending ==
  \/ step[Loop] = Unstarted
  \/ chan[Loop] # << >>
  \/ ~AllPublished

\* Unless it began beside another, only the latest rebuild can be running.
OnlyLastRuns ==
  ~overlap => \A r \in Rebuilders : r # last => step[r] \in {Unstarted, Idle}

\* What the latest rebuild has read is current, or a rebuild is to come.
ReadsCurrent ==
  ~overlap /\ ~unannounced =>
    \A s \in Sources :
      \/ got[last][s] = Current(s)
      \/ step[last] <= ReadOrder[s]
      \/ Pending

\* What runs is what the latest rebuild has installed of its reads.
Installed ==
  ~overlap =>
    /\ step[last] = Reconciling =>
         /\ CanBuild(got[last])
         /\ \A s \in Sources \ {"listeners"} : running[s] = got[last][s]
    /\ step[last] = Idle /\ CanBuild(got[last]) => running = got[last]

LoopSubscribed == step[Loop] # Unstarted => Loop \in subscribed

OnlyLoopStarts == \A g \in Watchers : step[g] # Unstarted

IInv ==
  TypeOK /\ LoopSubscribed /\ OnlyLoopStarts /\ OnlyLastRuns /\ ReadsCurrent /\ Installed
----------------------------------------------------------------------------
LEMMA SourcesFact ==
  /\ Sources = {"listeners", "middlewares", "groups", "routes", "destinations",
                "endpoints"}
  /\ \A s \in Sources : ReadOrder[s] \in 1..6
  /\ \A s, t \in Sources : ReadOrder[s] = ReadOrder[t] => s = t
  /\ \A s \in Sources \ {"endpoints"} : s \in Kinds
BY BucketsAssumption DEF Sources, ReadOrder, Buckets

LEMMA RestoreFact ==
  ASSUME StoreTypeOK, NEW c \in Dumps, Restore(c, snapshots)
  PROVE  StoreTypeOK' /\ UNCHANGED <<unpublished, subscribed, chan>>
BY DumpsAssumption DEF StoreTypeOK, Restore

----------------------------------------------------------------------------
LEMMA InitIInv == Init => IInv
<1> SUFFICES ASSUME Init PROVE IInv
  OBVIOUS
<1>1. EmptyCollection \in Collection
  BY DEF EmptyCollection, Collection
<1>2. StoreTypeOK
  BY DEF Init, StoreInit, StoreTypeOK
<1>3. step[Loop] = Unstarted /\ last = Loop
  BY DEF Init, Rebuilders
<1>4. TypeOK
  <2>1. step \in [Rebuilders -> 0..9]
    BY DEF Init, Unstarted, Idle
  <2>2. got \in [Rebuilders -> [Sources -> Collection]]
    BY <1>1 DEF Init
  <2>3. running \in [Sources -> Collection] /\ discovered \in Collection
    BY <1>1 DEF Init
  <2>4. last \in Rebuilders
    BY DEF Init, Rebuilders
  <2>5. overlap \in BOOLEAN /\ unannounced \in BOOLEAN
    BY ZenonT(30) DEF Init
  <2>6. QED  BY <1>2, <2>1, <2>2, <2>3, <2>4, <2>5 DEF TypeOK
<1>5. OnlyLastRuns /\ OnlyLoopStarts /\ LoopSubscribed
  BY LoopAssumption DEF Init, OnlyLastRuns, OnlyLoopStarts, LoopSubscribed, Rebuilders, Unstarted, Idle
<1>6. ReadsCurrent
  BY <1>3 DEF ReadsCurrent, Pending
<1>7. Installed
  BY <1>3 DEF Installed, Unstarted, Reconciling, Idle
<1>8. QED  BY <1>4, <1>5, <1>6, <1>7 DEF IInv

\* A step that leaves the gateway alone and after which a rebuild is pending.
LEMMA PendingStep ==
  ASSUME IInv, UNCHANGED gatewayVars, StoreTypeOK', UNCHANGED subscribed,
         Pending' \/ unannounced' \/ (UNCHANGED data /\ (Pending => Pending'))
  PROVE  IInv'
<1> USE DEF gatewayVars, history
<1>1. TypeOK'
  BY DEF IInv, TypeOK
<1>2. LoopSubscribed' /\ OnlyLoopStarts' /\ OnlyLastRuns'
  BY DEF IInv, LoopSubscribed, OnlyLoopStarts, OnlyLastRuns
<1>3. Installed'
  BY DEF IInv, Installed, CanBuild
<1>4. ReadsCurrent'
  <2>1. CASE Pending' \/ unannounced'
    BY <2>1 DEF ReadsCurrent
  <2>2. CASE UNCHANGED data /\ (Pending => Pending')
    BY <2>2 DEF IInv, ReadsCurrent, Current
  <2>3. QED  BY <2>1, <2>2
<1>5. QED  BY <1>1, <1>2, <1>3, <1>4 DEF IInv

LEMMA StoreStepIInv == IInv /\ StoreStep => IInv'
<1> SUFFICES ASSUME IInv, StoreStep PROVE IInv'
  OBVIOUS
<1>1. StoreTypeOK /\ UNCHANGED gatewayVars /\ step \in [Rebuilders -> 0..9]
  BY DEF IInv, TypeOK, StoreStep
<1>2. ASSUME NEW w \in Writers, EntityWrite(w) \/ SnapshotWrite(w)
      PROVE  IInv'
  <2>1. StoreTypeOK' /\ unpublished'[w] # Absent /\ UNCHANGED <<subscribed, chan>>
    <3>1. AnyWrite(w)
      BY <1>1, <1>2 DEF AnyWrite, SnapshotWrite, StoreTypeOK
    <3>2. QED  BY <1>1, <3>1, WriteFact
  <2>2. Pending'
    BY <2>1 DEF Pending, AllPublished
  <2>3. QED  BY <1>1, <2>1, <2>2, PendingStep
<1>3. ASSUME NEW w \in Writers, publish(w)
      PROVE  IInv'
  <2>1. StoreTypeOK' /\ (\A u \in subscribed : chan'[u] # << >>)
        /\ UNCHANGED <<data, subscribed>>
    BY <1>1, <1>3, PublishFact
  <2>2. Pending'
    BY <1>1, <2>1 DEF IInv, LoopSubscribed, Pending, gatewayVars
  <2>3. QED  BY <1>1, <2>1, <2>2, PendingStep
<1>4. QED  BY <1>2, <1>3 DEF StoreStep

LEMMA RestoreStepIInv == IInv /\ RestoreStep => IInv'
<1> SUFFICES ASSUME IInv, RestoreStep PROVE IInv'
  OBVIOUS
<1> USE DEF RestoreStep
<1>1. StoreTypeOK' /\ UNCHANGED <<unpublished, subscribed, chan>>
  BY RestoreFact DEF IInv, TypeOK
<1>2. TypeOK'
  BY <1>1 DEF IInv, TypeOK
<1>3. LoopSubscribed' /\ OnlyLoopStarts' /\ OnlyLastRuns'
  BY <1>1 DEF IInv, LoopSubscribed, OnlyLoopStarts, OnlyLastRuns
<1>4. ReadsCurrent'
  BY DEF ReadsCurrent
<1>5. Installed'
  BY DEF IInv, Installed, CanBuild
<1>6. QED  BY <1>2, <1>3, <1>4, <1>5 DEF IInv

\* Whoever starts a rebuild will read everything anew.
LEMMA BeginIInv ==
  ASSUME IInv, NEW r \in Rebuilders, Begin(r), StoreTypeOK',
         UNCHANGED <<got, running>>, discovered' \in Collection,
         subscribed \subseteq subscribed', r = Loop => Loop \in subscribed'
  PROVE  IInv'
<1>1. step'[r] = 1 /\ \A q \in Rebuilders : q # r => step'[q] = step[q]
  BY DEF IInv, TypeOK, Begin
<1>2. TypeOK'
  <2>1. step' \in [Rebuilders -> 0..9]
    BY DEF IInv, TypeOK, Begin
  <2>2. overlap' \in BOOLEAN /\ unannounced' \in BOOLEAN
    BY ZenonT(30) DEF IInv, TypeOK, Begin
  <2>3. QED  BY <2>1, <2>2 DEF IInv, TypeOK, Begin
<1>3. LoopSubscribed'
  BY <1>1 DEF IInv, LoopSubscribed, Rebuilders
<1>4. OnlyLoopStarts'
  BY <1>1 DEF IInv, OnlyLoopStarts, Rebuilders, Unstarted
<1>5. OnlyLastRuns'
  <2> SUFFICES ASSUME ~overlap', NEW q \in Rebuilders, q # r
               PROVE  step'[q] \in {Unstarted, Idle}
    BY DEF OnlyLastRuns, Begin
  <2>1. step[q] \notin 1..8
    BY ZenonT(30) DEF Begin
  <2>2. step[q] \in 0..9
    BY DEF IInv, TypeOK
  <2>3. QED  BY <1>1, <2>1, <2>2 DEF Unstarted, Idle
<1>6. ReadsCurrent'
  <2>1. \A s \in Sources : step'[last'] <= ReadOrder[s]
    BY <1>1, SourcesFact DEF Begin
  <2>2. QED  BY <2>1 DEF ReadsCurrent
<1>7. Installed'
  BY <1>1 DEF Installed, Begin, Reconciling, Idle
<1>8. QED  BY <1>2, <1>3, <1>4, <1>5, <1>6, <1>7 DEF IInv

\* Endpoints that are forgotten in silence are nobody's to read.
LEMMA ForgetIInv ==
  ASSUME IInv, NEW i \in Ids, Forget(i)
  PROVE  IInv'
<1> USE DEF Forget, storeVars
<1>1. StoreTypeOK'
  BY DEF IInv, TypeOK, StoreTypeOK
<1>2. discovered' \in Collection
  BY DEF IInv, TypeOK, Collection
<1>3. unannounced' \in BOOLEAN
  BY Zenon
<1>4. TypeOK'
  BY <1>1, <1>2, <1>3 DEF IInv, TypeOK
<1>5. LoopSubscribed' /\ OnlyLoopStarts' /\ OnlyLastRuns'
  BY DEF IInv, LoopSubscribed, OnlyLoopStarts, OnlyLastRuns
<1>6. ReadsCurrent'
  BY DEF ReadsCurrent
<1>7. Installed'
  BY DEF IInv, Installed, CanBuild
<1>8. QED  BY <1>4, <1>5, <1>6, <1>7 DEF IInv

LEMMA StartIInv == IInv /\ (RunStart \/ RunEvent \/ WatcherStep) => IInv'
<1> SUFFICES ASSUME IInv PROVE RunStart \/ RunEvent \/ WatcherStep => IInv'
  OBVIOUS
<1>1. StoreTypeOK /\ Loop \in Subscribers /\ Loop \in Rebuilders
  BY LoopAssumption DEF IInv, TypeOK, Rebuilders
<1>2. ASSUME RunStart PROVE IInv'
  <2>1. StoreTypeOK'
    BY <1>1, <1>2, ChannelFact DEF RunStart
  <2>2. /\ discovered' \in Collection
        /\ subscribed \subseteq subscribed'
        /\ Loop \in subscribed'
    BY <1>2 DEF IInv, TypeOK, RunStart, Subscribe
  <2>3. QED  BY <1>1, <1>2, <2>1, <2>2, BeginIInv DEF RunStart
<1>3. ASSUME RunEvent PROVE IInv'
  <2>1. StoreTypeOK'
    BY <1>1, <1>3, ChannelFact DEF RunEvent
  <2>2. /\ discovered' \in Collection
        /\ subscribed \subseteq subscribed'
        /\ Loop \in subscribed'
    BY <1>3 DEF IInv, TypeOK, RunEvent, Receive
  <2>3. QED  BY <1>1, <1>3, <2>1, <2>2, BeginIInv DEF RunEvent
<1>4. ASSUME NEW g \in Watchers, NEW i \in Ids, NEW v \in Values \cup {Absent},
             EndpointsChanged(g, i, v)
      PROVE  IInv'
  <2>1. StoreTypeOK' /\ discovered' \in Collection
    BY <1>4 DEF IInv, TypeOK, StoreTypeOK, EndpointsChanged, Collection
  <2>2. g \in Rebuilders /\ g # Loop
    BY LoopAssumption DEF Rebuilders
  <2>3. Begin(g) /\ UNCHANGED <<got, running, subscribed>>
    BY <1>4 DEF EndpointsChanged
  <2>4. QED  BY <2>1, <2>2, <2>3, BeginIInv
<1>5. ASSUME NEW g \in Watchers, NEW i \in Ids,
             ExternalNameCleared(g, i) \/ WatchRemoved(i)
      PROVE  IInv'
  BY <1>5, ForgetIInv DEF ExternalNameCleared, WatchRemoved
<1>6. QED  BY <1>2, <1>3, <1>4, <1>5 DEF WatcherStep

\* A step inside a rebuild moves no event, and only the last rebuilder's
\* steps count.
LEMMA InsideFact ==
  ASSUME IInv, NEW r \in Rebuilders, step[r] \in 1..8, UNCHANGED storeVars,
         UNCHANGED history, NEW n \in 1..9, step' = [step EXCEPT ![r] = n]
  PROVE  /\ step' \in [Rebuilders -> 0..9]
         /\ StoreTypeOK'
         /\ LoopSubscribed' /\ OnlyLoopStarts' /\ OnlyLastRuns'
         /\ Pending => Pending'
         /\ ~overlap' => r = last
<1>1. step \in [Rebuilders -> 0..9] /\ StoreTypeOK
  BY DEF IInv, TypeOK
<1>2. StoreTypeOK'
  BY <1>1 DEF StoreTypeOK, storeVars
<1>3. ~overlap => r = last
  BY DEF IInv, OnlyLastRuns, Unstarted, Idle
<1>4. OnlyLastRuns'
  BY <1>1, <1>3 DEF IInv, OnlyLastRuns, history
<1>5. LoopSubscribed' /\ OnlyLoopStarts'
  BY <1>1 DEF IInv, LoopSubscribed, OnlyLoopStarts, Rebuilders, Unstarted, storeVars
<1>6. Pending => Pending'
  BY <1>1 DEF Pending, AllPublished, Rebuilders, Unstarted, storeVars
<1>7. QED  BY <1>1, <1>2, <1>3, <1>4, <1>5, <1>6 DEF history

LEMMA ReadIInv ==
  ASSUME IInv, NEW r \in Rebuilders, NEW s \in Sources, Read(r, s)
  PROVE  IInv'
<1>1. step[r] = ReadOrder[s] /\ step[r] \in 1..6
  BY SourcesFact DEF Read
<1>2. step' = [step EXCEPT ![r] = step[r] + 1] /\ step[r] + 1 \in 1..9
      /\ UNCHANGED <<storeVars, history>> /\ step[r] \in 1..8
  BY SMTT(30), <1>1 DEF Read
<1>3. /\ step' \in [Rebuilders -> 0..9]
      /\ StoreTypeOK'
      /\ LoopSubscribed' /\ OnlyLoopStarts' /\ OnlyLastRuns'
      /\ Pending => Pending'
      /\ ~overlap' => r = last
  BY ZenonT(30), <1>2, InsideFact
<1>4. Current(s) \in Collection
  BY SourcesFact DEF IInv, TypeOK, StoreTypeOK, Content, Current
<1>5. TypeOK'
  BY <1>2, <1>3, <1>4 DEF IInv, TypeOK, Read, history
<1>6. Installed'
  BY <1>1, <1>2, <1>3 DEF IInv, TypeOK, Installed, Reconciling, Idle, history
<1>7. ReadsCurrent'
  <2> SUFFICES ASSUME ~overlap', ~unannounced', NEW t \in Sources
               PROVE  \/ got'[last'][t] = Current(t)'
                      \/ step'[last'] <= ReadOrder[t]
                      \/ Pending'
    BY DEF ReadsCurrent
  <2>1. r = last /\ last' = last /\ ~overlap /\ ~unannounced
    BY <1>2, <1>3 DEF history
  <2>2. Current(t)' = Current(t)
    BY <1>2 DEF Read, Current, storeVars
  <2>3. CASE t = s
    BY <2>1, <2>2, <2>3 DEF IInv, TypeOK, Read
  <2>4. CASE t # s
    <3>1. got'[r][t] = got[r][t]
      BY <2>4 DEF IInv, TypeOK, Read
    <3>2. step'[r] = step[r] + 1
      BY <1>2 DEF IInv, TypeOK
    <3>3. step[r] <= ReadOrder[t] => step'[r] <= ReadOrder[t]
      BY <1>1, <2>4, <3>2, SourcesFact
    <3>4. QED  BY <1>3, <2>1, <2>2, <3>1, <3>3 DEF IInv, ReadsCurrent
  <2>5. QED  BY <2>3, <2>4
<1>8. QED  BY <1>3, <1>5, <1>6, <1>7 DEF IInv

\* After the reads, rebuilding leaves them and the inputs alone.
LEMMA ReadsKept ==
  ASSUME IInv, NEW r \in Rebuilders, step[r] \in {Building, Reconciling},
         UNCHANGED <<storeVars, history, got, discovered>>,
         Pending => Pending', ~overlap' => r = last
  PROVE  ReadsCurrent'
<1> SUFFICES ASSUME ~overlap', ~unannounced', NEW t \in Sources
             PROVE  got'[last'][t] = Current(t)' \/ Pending'
  BY DEF ReadsCurrent
<1>1. r = last /\ last' = last /\ ~overlap /\ ~unannounced
  BY DEF history
<1>2. Current(t)' = Current(t)
  BY DEF Current, storeVars
<1>3. ~(step[last] <= ReadOrder[t])
  BY <1>1, SourcesFact DEF Building, Reconciling
<1>4. QED  BY <1>1, <1>2, <1>3 DEF IInv, ReadsCurrent

LEMMA SwapIInv ==
  ASSUME IInv, NEW r \in Rebuilders, Swap(r)
  PROVE  IInv'
<1>1. step[r] = Building /\ UNCHANGED <<storeVars, history, got, discovered>>
      /\ step[r] \in 1..8
  BY DEF Swap, Building
<1>2. PICK n \in {Reconciling, Idle} : step' = [step EXCEPT ![r] = n]
  BY SMTT(30) DEF Swap
<1>3. /\ step' \in [Rebuilders -> 0..9]
      /\ StoreTypeOK'
      /\ LoopSubscribed' /\ OnlyLoopStarts' /\ OnlyLastRuns'
      /\ Pending => Pending'
      /\ ~overlap' => r = last
  <2>1. n \in 1..9
    BY DEF Reconciling, Idle
  <2>2. QED  BY ZenonT(30), <1>1, <1>2, <2>1, InsideFact
<1>4. running' \in [Sources -> Collection]
  BY DEF IInv, TypeOK, Swap
<1>5. TypeOK'
  BY <1>1, <1>3, <1>4 DEF IInv, TypeOK, history
<1>6. Installed'
  <2> SUFFICES ASSUME ~overlap'
               PROVE  /\ step'[r] = Reconciling =>
                           /\ CanBuild(got[r])
                           /\ \A s \in Sources \ {"listeners"} : running'[s] = got[r][s]
                      /\ step'[r] = Idle /\ CanBuild(got[r]) => running' = got[r]
    BY <1>1, <1>3 DEF Installed, CanBuild, history
  <2>1. CASE CanBuild(got[r])
    BY <1>2, <2>1 DEF IInv, TypeOK, Swap, Reconciling, Idle
  <2>2. CASE ~CanBuild(got[r])
    BY <1>2, <2>2 DEF IInv, TypeOK, Swap, Reconciling, Idle
  <2>3. QED  BY SMTT(30), <2>1, <2>2
<1>7. ReadsCurrent'
  BY <1>1, <1>3, ReadsKept
<1>8. QED  BY <1>3, <1>5, <1>6, <1>7 DEF IInv

LEMMA ReconcileIInv ==
  ASSUME IInv, NEW r \in Rebuilders, Reconcile(r)
  PROVE  IInv'
<1>1. step[r] = Reconciling /\ UNCHANGED <<storeVars, history, got, discovered>>
      /\ step[r] \in 1..8 /\ step' = [step EXCEPT ![r] = Idle] /\ Idle \in 1..9
  BY SMTT(30) DEF Reconcile, Reconciling, Idle
<1>2. /\ step' \in [Rebuilders -> 0..9]
      /\ StoreTypeOK'
      /\ LoopSubscribed' /\ OnlyLoopStarts' /\ OnlyLastRuns'
      /\ Pending => Pending'
      /\ ~overlap' => r = last
  BY ZenonT(30), <1>1, InsideFact
<1>3. running' \in [Sources -> Collection]
  BY SourcesFact DEF IInv, TypeOK, Reconcile
<1>4. TypeOK'
  BY <1>1, <1>2, <1>3 DEF IInv, TypeOK, history
<1>5. Installed'
  <2> SUFFICES ASSUME ~overlap' PROVE step'[r] = Idle /\ running' = got[r]
    BY <1>1, <1>2 DEF Installed, CanBuild, history, Reconciling, Idle
  <2>1. \A s \in Sources \ {"listeners"} : running[s] = got[r][s]
    BY <1>1, <1>2 DEF IInv, Installed, history
  <2>2. \A s \in Sources : running'[s] = got[r][s]
    BY <2>1, SourcesFact DEF IInv, TypeOK, Reconcile
  <2>3. QED  BY <1>1, <1>3, <2>2 DEF IInv, TypeOK
<1>6. ReadsCurrent'
  BY <1>1, <1>2, ReadsKept
<1>7. QED  BY <1>2, <1>4, <1>5, <1>6 DEF IInv

LEMMA Inductive == Spec => []IInv
<1>1. IInv /\ [Next]_vars => IInv'
  <2> SUFFICES ASSUME IInv, [Next]_vars PROVE IInv'
    OBVIOUS
  <2>1. CASE StoreStep
    BY <2>1, StoreStepIInv
  <2>2. CASE RestoreStep
    BY <2>2, RestoreStepIInv
  <2>3. CASE RunStart \/ RunEvent \/ WatcherStep
    BY <2>3, StartIInv
  <2>4. ASSUME NEW r \in Rebuilders, RebuildStep(r) PROVE IInv'
    BY <2>4, ReadIInv, SwapIInv, ReconcileIInv DEF RebuildStep
  <2>5. CASE UNCHANGED vars
    <3>1. StoreTypeOK' /\ UNCHANGED <<gatewayVars, subscribed, data, chan, unpublished>>
      BY <2>5 DEF vars, storeVars, IInv, TypeOK, StoreTypeOK
    <3>2. Pending => Pending'
      BY <3>1 DEF Pending, AllPublished, gatewayVars
    <3>3. QED  BY <3>1, <3>2, PendingStep
  <2>6. QED  BY <2>1, <2>2, <2>3, <2>4, <2>5 DEF Next
<1>2. QED  BY <1>1, InitIInv, PTL DEF Spec

(* Every variable keeps its type: subscriber channels hold events, what     *)
(* runs and what a rebuild has read are collections, steps stay in range.   *)
THEOREM GatewayTypeCorrect == Spec => []TypeOK
<1>1. IInv => TypeOK
  BY DEF IInv
<1>2. QED  BY <1>1, Inductive, PTL

(* A gateway at rest runs the current configuration, for any buckets,       *)
(* channel capacity, writers and informers, as long as the latest rebuild   *)
(* began alone and nothing has since changed in silence, by Restore or by   *)
(* the watcher forgetting endpoints.                                        *)
THEOREM GatewaySerialUpToDate == Spec => []SerialUpToDate
<1>1. IInv => SerialUpToDate
  <2> SUFFICES ASSUME IInv, ~overlap, ~unannounced, Quiescent, CanBuild(data)
               PROVE  UpToDate
    BY DEF SerialUpToDate, QuiescentUpToDate
  <2>1. step[last] = Idle /\ step[Loop] = Idle /\ ~Pending
    BY DEF IInv, TypeOK, Quiescent, AllIdle, Pending, Rebuilders, Unstarted, Idle
  <2>2. \A s \in Sources : got[last][s] = Current(s)
    BY <2>1, SourcesFact DEF IInv, ReadsCurrent, Idle
  <2>3. CanBuild(got[last])
    BY <2>2, SourcesFact DEF CanBuild, Current
  <2>4. running = got[last]
    BY <2>1, <2>3 DEF IInv, Installed
  <2>5. QED  BY <2>2, <2>4 DEF UpToDate
<1>2. QED  BY <1>1, Inductive, PTL

\* Without informers there is one rebuilder, and so no overlap and no endpoints
\* to forget; without dumps there is no Restore.
LEMMA AloneFact ==
  ASSUME Watchers = {}, Dumps = {}
  PROVE  Spec => [](~overlap /\ ~unannounced)
<1>1. Init => ~overlap /\ ~unannounced
  BY DEF Init
<1>2. ~overlap /\ ~unannounced /\ [Next]_vars => (~overlap /\ ~unannounced)'
  <2> SUFFICES ASSUME ~overlap, ~unannounced, [Next]_vars
               PROVE  ~overlap' /\ ~unannounced'
    OBVIOUS
  <2> USE DEF gatewayVars, history
  <2>1. CASE StoreStep
    BY <2>1 DEF StoreStep
  <2>2. CASE RestoreStep
    BY <2>2 DEF RestoreStep
  <2>3. CASE RunStart \/ RunEvent
    BY ZenonT(30), <2>3 DEF RunStart, RunEvent, Begin, Rebuilders
  <2>4. CASE WatcherStep
    BY <2>4 DEF WatcherStep
  <2>5. ASSUME NEW r \in Rebuilders, RebuildStep(r)
        PROVE  ~overlap' /\ ~unannounced'
    BY <2>5 DEF RebuildStep, Read, Swap, Reconcile
  <2>6. CASE UNCHANGED vars
    BY <2>6 DEF vars
  <2>7. QED  BY <2>1, <2>2, <2>3, <2>4, <2>5, <2>6 DEF Next
<1>3. QED  BY <1>1, <1>2, PTL DEF Spec

(* Without the Kubernetes watcher and without Raft, a gateway at rest       *)
(* always runs the current configuration.                                   *)
THEOREM GatewayQuiescentUpToDate ==
  ASSUME Watchers = {}, Dumps = {}
  PROVE  Spec => []QuiescentUpToDate
<1>1. SerialUpToDate /\ ~overlap /\ ~unannounced => QuiescentUpToDate
  BY DEF SerialUpToDate
<1>2. Spec => [](~overlap /\ ~unannounced)
  BY AloneFact
<1>3. QED  BY <1>1, <1>2, GatewaySerialUpToDate, PTL
=============================================================================
