---------------------------- MODULE CircuitBreaker ---------------------------
(***************************************************************************)
(* The circuit breaker of a destination (server/internal/proxy/circuit.go) *)
(* as forwardHandler (server/internal/proxy/handler.go) uses it: concurrent *)
(* requests call Allow, OnRequest, RecordSuccess or RecordFailure, and     *)
(* OnComplete.  Every atomic load, store, add and compare-and-swap is a    *)
(* step of its own, as is each critical section of cb.mu.                  *)
(***************************************************************************)
EXTENDS Integers, FiniteSets

CONSTANTS
  Requests,         \* request goroutines; one may run any number of times
  failThreshold,    \* configured failureThreshold, 0 when not set
  maxConn,          \* configured maxConnections, 0 when not set
  maxReq,           \* configured maxRequests, 0 when not set
  Outcomes,         \* what the upstream may do to a request
  RequestTimeout,   \* whether a request timeout is configured
  IntMax            \* largest value of the type of halfOpenAllowed

ASSUME RequestsAssumption == IsFiniteSet(Requests)
ASSUME ThresholdAssumption ==
  failThreshold \in Nat /\ maxConn \in Nat /\ maxReq \in Nat
ASSUME OutcomesAssumption == Outcomes \subseteq {"ok", "5xx", "unreachable", "aborted"}
ASSUME TimeoutAssumption == RequestTimeout \in BOOLEAN
ASSUME IntMaxAssumption == IntMax \in Nat \ {0}

\* NewCircuitBreaker: 0 stands for the default.
failureThreshold == IF failThreshold > 0 THEN failThreshold ELSE 5
maxConnections == IF maxConn = 0 THEN 1024 ELSE maxConn
maxRequests == IF maxReq = 0 THEN 1024 ELSE maxReq

Closed == 0
Open == 1
HalfOpen == 2

VARIABLES
  state,                \* cb.state
  halfOpenAllowed,      \* cb.halfOpenAllowed
  consecutiveFailures,  \* cb.consecutiveFailures, up to failureThreshold
  activeRequests,       \* cb.activeRequests
  activeConnections,    \* cb.activeConnections
  elapsed,              \* time.Since(cb.lastFailure) > cb.openDuration
  pc,                   \* pc[r]: the next step of request r
  probing,              \* probing[r]: r was admitted by a half-open token
  stranded              \* history: a probe ended and left the circuit as it was

breaker == <<state, halfOpenAllowed, consecutiveFailures, activeRequests,
             activeConnections, elapsed>>
vars == <<breaker, pc, probing, stranded>>

Steps ==
  {"idle", "load", "check", "cas", "grant", "take", "conns", "reqs",
   "onRequest", "onConnection", "upstream", "succeed", "close", "fail",
   "open", "stamp", "doneRequest", "doneConnection"}

TypeOK ==
  /\ state \in {Closed, Open, HalfOpen}
  /\ halfOpenAllowed \in -(IntMax + 1)..IntMax
  /\ consecutiveFailures \in 0..failureThreshold
  /\ activeRequests \in Nat
  /\ activeConnections \in Nat
  /\ elapsed \in BOOLEAN
  /\ pc \in [Requests -> Steps]
  /\ probing \in [Requests -> BOOLEAN]
  /\ stranded \in BOOLEAN

\* lastFailure is the zero time, long ago.
Init ==
  /\ state = Closed
  /\ halfOpenAllowed = 0
  /\ consecutiveFailures = 0
  /\ activeRequests = 0
  /\ activeConnections = 0
  /\ elapsed = TRUE
  /\ pc = [r \in Requests |-> "idle"]
  /\ probing = [r \in Requests |-> FALSE]
  /\ stranded = FALSE

Goto(r, from, to) == pc[r] = from /\ pc' = [pc EXCEPT ![r] = to]

\* 503, circuit_open: the handler returns.
Denied == "idle"

----------------------------------------------------------------------------
(* Allow.                                                                  *)

LoadState(r) ==
  /\ Goto(r, "load", CASE state = Open -> "check"
                       [] state = HalfOpen -> "take"
                       [] OTHER -> "conns")
  /\ UNCHANGED <<breaker, probing, stranded>>

CheckElapsed(r) ==
  /\ Goto(r, "check", IF elapsed THEN "cas" ELSE Denied)
  /\ UNCHANGED <<breaker, probing, stranded>>

\* Mutant of Swap: the token is not granted.
SwapOnly(r) ==
  /\ Goto(r, "cas", "take")
  /\ state' = IF state = Open THEN HalfOpen ELSE state
  /\ stranded' = (stranded /\ state # Open)
  /\ UNCHANGED <<halfOpenAllowed, consecutiveFailures, activeRequests,
                 activeConnections, elapsed, probing>>

\* CompareAndSwap(CircuitOpen, CircuitHalfOpen)
Swap(r) ==
  /\ Goto(r, "cas", IF state = Open THEN "grant" ELSE "take")
  /\ state' = IF state = Open THEN HalfOpen ELSE state
  /\ stranded' = (stranded /\ state # Open)
  /\ UNCHANGED <<halfOpenAllowed, consecutiveFailures, activeRequests,
                 activeConnections, elapsed, probing>>

\* halfOpenAllowed.Store(1)
Grant(r) ==
  /\ Goto(r, "grant", "take")
  /\ halfOpenAllowed' = 1
  /\ UNCHANGED <<state, consecutiveFailures, activeRequests, activeConnections,
                 elapsed, probing, stranded>>

\* Subtraction in a two's complement integer.
Decrement(n) == IF n = -(IntMax + 1) THEN IntMax ELSE n - 1

\* halfOpenAllowed.Add(-1) >= 0
TakeToken(r) ==
  /\ halfOpenAllowed' = Decrement(halfOpenAllowed)
  /\ Goto(r, "take", IF halfOpenAllowed' >= 0 THEN "onRequest" ELSE Denied)
  /\ probing' = [probing EXCEPT ![r] = halfOpenAllowed' >= 0]
  /\ UNCHANGED <<state, consecutiveFailures, activeRequests, activeConnections,
                 elapsed, stranded>>

LoadConnections(r) ==
  /\ Goto(r, "conns", IF activeConnections >= maxConnections THEN Denied ELSE "reqs")
  /\ UNCHANGED <<breaker, probing, stranded>>

LoadRequests(r) ==
  /\ Goto(r, "reqs", IF activeRequests >= maxRequests THEN Denied ELSE "onRequest")
  /\ UNCHANGED <<breaker, probing, stranded>>

----------------------------------------------------------------------------
(* forwardHandler around the upstream call.                                *)

\* A request reaches the destination and calls Allow.
Arrive(r) ==
  /\ Goto(r, "idle", "load")
  /\ UNCHANGED <<breaker, probing, stranded>>

OnRequest(r) ==
  \/ /\ Goto(r, "onRequest", "onConnection")
     /\ activeRequests' = activeRequests + 1
     /\ UNCHANGED <<state, halfOpenAllowed, consecutiveFailures,
                    activeConnections, elapsed, probing, stranded>>
  \/ /\ Goto(r, "onConnection", "upstream")
     /\ activeConnections' = activeConnections + 1
     /\ UNCHANGED <<state, halfOpenAllowed, consecutiveFailures,
                    activeRequests, elapsed, probing, stranded>>

\* The status recordEndpointResult is given for an outcome that ServeHTTP
\* returns from.  An unreachable upstream leaves capturedStatus 0 when a
\* request timeout is set, and 502, 503 or 504 when it is not.
RecordedStatus(o) ==
  CASE o = "ok" -> 200
    [] o = "5xx" -> 500
    [] o = "unreachable" -> IF RequestTimeout THEN 0 ELSE 502

\* Mutant of Upstream: OnComplete is not deferred.
UpstreamLeaks(r) ==
  \E o \in Outcomes :
    /\ Goto(r, "upstream", IF o = "aborted" THEN "idle"
                           ELSE IF RecordedStatus(o) >= 500 THEN "fail"
                           ELSE "succeed")
    /\ stranded' = (stranded \/ (probing[r] /\ o = "aborted"))
    /\ UNCHANGED <<breaker, probing>>

\* A body that breaks off makes ReverseProxy panic with ErrAbortHandler, so
\* that nothing is recorded and only the deferred OnComplete runs.
Upstream(r) ==
  \E o \in Outcomes :
    /\ Goto(r, "upstream", IF o = "aborted" THEN "doneRequest"
                           ELSE IF RecordedStatus(o) >= 500 THEN "fail"
                           ELSE "succeed")
    /\ stranded' = (stranded \/ (probing[r] /\ o = "aborted"))
    /\ UNCHANGED <<breaker, probing>>

\* Mutant of RecordSuccess: the count is reset, the circuit left as it is.
RecordSuccessCountOnly(r) ==
  /\ Goto(r, "succeed", "doneRequest")
  /\ consecutiveFailures' = 0
  /\ UNCHANGED <<state, halfOpenAllowed, activeRequests, activeConnections,
                 elapsed, probing, stranded>>

RecordSuccess(r) ==
  \/ /\ Goto(r, "succeed", "close")
     /\ consecutiveFailures' = 0
     /\ UNCHANGED <<state, halfOpenAllowed, activeRequests, activeConnections,
                    elapsed, probing, stranded>>
  \/ /\ Goto(r, "close", "doneRequest")
     /\ state' = Closed
     /\ UNCHANGED <<halfOpenAllowed, consecutiveFailures, activeRequests,
                    activeConnections, elapsed, probing, stranded>>

\* The count is compared with the threshold and set to 0, nothing else.
RecordFailure(r) ==
  \/ LET failures == consecutiveFailures + 1 IN
     /\ Goto(r, "fail", IF failures >= failureThreshold THEN "open" ELSE "doneRequest")
     /\ consecutiveFailures' =
          IF failures > failureThreshold THEN failureThreshold ELSE failures
     /\ stranded' = (stranded \/ (probing[r] /\ failures < failureThreshold))
     /\ UNCHANGED <<state, halfOpenAllowed, activeRequests, activeConnections,
                    elapsed, probing>>
  \/ /\ Goto(r, "open", "stamp")
     /\ state' = Open
     /\ UNCHANGED <<halfOpenAllowed, consecutiveFailures, activeRequests,
                    activeConnections, elapsed, probing, stranded>>
  \/ /\ Goto(r, "stamp", "doneRequest")
     /\ elapsed' = FALSE
     /\ UNCHANGED <<state, halfOpenAllowed, consecutiveFailures,
                    activeRequests, activeConnections, probing, stranded>>

OnComplete(r) ==
  \/ /\ Goto(r, "doneRequest", "doneConnection")
     /\ activeRequests' = activeRequests - 1
     /\ probing' = [probing EXCEPT ![r] = FALSE]
     /\ UNCHANGED <<state, halfOpenAllowed, consecutiveFailures,
                    activeConnections, elapsed, stranded>>
  \/ /\ Goto(r, "doneConnection", "idle")
     /\ activeConnections' = activeConnections - 1
     /\ UNCHANGED <<state, halfOpenAllowed, consecutiveFailures,
                    activeRequests, elapsed, probing, stranded>>

\* openDuration passes.
Tick ==
  /\ elapsed' = TRUE
  /\ UNCHANGED <<state, halfOpenAllowed, consecutiveFailures, activeRequests,
                 activeConnections, pc, probing, stranded>>

----------------------------------------------------------------------------
Allow(r) ==
  \/ LoadState(r) \/ CheckElapsed(r) \/ Swap(r) \/ Grant(r) \/ TakeToken(r)
  \/ LoadConnections(r) \/ LoadRequests(r)

RequestStep(r) ==
  Allow(r) \/ OnRequest(r) \/ Upstream(r) \/ RecordSuccess(r) \/ RecordFailure(r)
    \/ OnComplete(r)

Next ==
  \/ \E r \in Requests : Arrive(r) \/ RequestStep(r)
  \/ Tick

\* Goroutines run, upstream calls end and time passes; no request need come.
Fairness ==
  /\ \A r \in Requests : WF_vars(RequestStep(r))
  /\ WF_vars(Tick)

Spec == Init /\ [][Next]_vars
FairSpec == Spec /\ Fairness
----------------------------------------------------------------------------
At(s) == {r \in Requests : pc[r] \in s}

InFlight == {"upstream", "succeed", "close", "fail", "open", "stamp", "doneRequest"}
HoldRequest == InFlight \cup {"onConnection"}
HoldConnection == InFlight \cup {"doneConnection"}

(* The two counters are exactly the requests between OnRequest and          *)
(* OnComplete, over denials, failures and aborted bodies: no slot leaks.    *)
Accounting ==
  /\ activeRequests = Cardinality(At(HoldRequest))
  /\ activeConnections = Cardinality(At(HoldConnection))

\* Request r will still store a state or take the token.
Attends(r) ==
  \/ pc[r] \in {"grant", "succeed", "close", "open"}
  \/ probing[r] /\ pc[r] \in {"onRequest", "onConnection", "upstream", "fail"}

(* A half-open circuit has a request under way that will settle it, or a    *)
(* token for the next one, unless its probe was aborted or failed while the *)
(* failure count had been reset below the threshold.                        *)
HalfOpenAttended ==
  state = HalfOpen => \/ halfOpenAllowed > 0
                      \/ \E r \in Requests : Attends(r)
                      \/ stranded

(* Half-open does not last, whether or not more requests come: every probe  *)
(* ends in a state change by RecordSuccess or RecordFailure, except in the  *)
(* two cases above.                                                         *)
HalfOpenSettlesUnlessStranded ==
  (state = HalfOpen) ~> (state # HalfOpen \/ stranded)
=============================================================================
