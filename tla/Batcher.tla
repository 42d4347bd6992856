------------------------------- MODULE Batcher -------------------------------
(* The controller's snapshot batcher (clients/controller/internal/batcher).  *)
(* Signals count changes; maxBatch of them, a debounce timer or a forced     *)
(* flush create and activate a snapshot. All of it runs under b.mu, HTTP     *)
(* calls included, so whoever flushes holds the lock across two API calls.   *)
EXTENDS Naturals

CONSTANTS
  MaxBatch,               \* snapshot.maxBatch
  MaxCallbacks,           \* bound: expired timers whose callback waits for b.mu
  NoSnapshot

ASSUME BatchAssumption == MaxBatch \in Nat \ {0} /\ MaxCallbacks \in Nat \ {0}

VARIABLES
  pending,                \* b.pending; only compared with 0 and MaxBatch, so it stops there
  timer,                  \* b.timer is running
  callbacks,              \* expired timers whose callback has not got b.mu yet
  holder,                 \* who holds b.mu in flushLocked: "nobody", "loop" or "timer"
  created                 \* the snapshot CreateSnapshot returned to the holder

batcherVars == <<pending, timer, callbacks, holder, created>>

BatcherTypeOK ==
  /\ pending \in 0..MaxBatch /\ callbacks \in 0..MaxCallbacks /\ timer \in BOOLEAN
  /\ holder \in {"nobody", "loop", "timer"}
  /\ holder = "nobody" => created = NoSnapshot

BatcherInit ==
  /\ pending = 0 /\ timer = FALSE /\ callbacks = 0
  /\ holder = "nobody" /\ created = NoSnapshot

\* flushLocked up to its first call: Stop does not recall an expired timer.
BeginFlush(h) == holder' = h /\ timer' = FALSE /\ UNCHANGED <<callbacks, created>>

\* Mutant of Signal: it does not wait for b.mu.
SignalUnlocked ==
  /\ pending' = IF pending < MaxBatch THEN pending + 1 ELSE pending
  /\ IF pending' >= MaxBatch /\ holder = "nobody"
     THEN BeginFlush("loop")
     ELSE timer' = TRUE /\ UNCHANGED <<callbacks, holder, created>>

Signal ==
  /\ holder = "nobody"
  /\ pending' = IF pending < MaxBatch THEN pending + 1 ELSE pending
  /\ IF pending' >= MaxBatch
     THEN BeginFlush("loop")
     ELSE timer' = TRUE /\ UNCHANGED <<callbacks, holder, created>>

Flush ==
  /\ holder = "nobody"
  /\ IF pending > 0 THEN BeginFlush("loop") /\ UNCHANGED pending
     ELSE UNCHANGED batcherVars

\* The debounce timer runs out: its callback is now a goroutine of its own.
TimerExpires ==
  /\ timer /\ callbacks < MaxCallbacks
  /\ timer' = FALSE /\ callbacks' = callbacks + 1
  /\ UNCHANGED <<pending, holder, created>>

TimerCallback ==
  /\ callbacks > 0 /\ holder = "nobody"
  /\ callbacks' = callbacks - 1
  /\ IF pending > 0 THEN holder' = "timer" /\ timer' = FALSE ELSE UNCHANGED <<holder, timer>>
  /\ UNCHANGED <<pending, created>>

\* CreateSnapshot answered with a snapshot of the given content.
SnapshotCreated(content) ==
  /\ holder # "nobody" /\ created = NoSnapshot
  /\ created' = content
  /\ UNCHANGED <<pending, timer, callbacks, holder>>

\* ActivateSnapshot answered.
SnapshotActivated ==
  /\ holder # "nobody" /\ created # NoSnapshot
  /\ pending' = 0 /\ holder' = "nobody" /\ created' = NoSnapshot
  /\ UNCHANGED <<timer, callbacks>>

\* Either call failed: pending is kept, and no timer is left running.
FlushFailed ==
  /\ holder # "nobody"
  /\ holder' = "nobody" /\ created' = NoSnapshot
  /\ UNCHANGED <<pending, timer, callbacks>>
=============================================================================
