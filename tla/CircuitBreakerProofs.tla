------------------------ MODULE CircuitBreakerProofs -------------------------
(* Proofs about module CircuitBreaker, for any number of requests, any      *)
(* limits and thresholds, any width of halfOpenAllowed.                     *)
EXTENDS CircuitBreaker, FiniteSetTheorems, TLAPS

IInv == TypeOK /\ Accounting /\ HalfOpenAttended

LEMMA DefaultsFact == failureThreshold \in Nat \ {0}
BY ThresholdAssumption DEF failureThreshold

LEMMA DecrementFact ==
  ASSUME NEW n \in -(IntMax + 1)..IntMax
  PROVE  /\ Decrement(n) \in -(IntMax + 1)..IntMax
         /\ n > 0 => Decrement(n) >= 0
BY IntMaxAssumption DEF Decrement

----------------------------------------------------------------------------
(* How a step of one request moves the sets of requests that are counted.  *)

LEMMA AtFinite ==
  ASSUME NEW S
  PROVE  IsFiniteSet(At(S)) /\ Cardinality(At(S)) \in Nat
<1>1. At(S) \subseteq Requests
  BY DEF At
<1>2. QED  BY <1>1, RequestsAssumption, FS_Subset, FS_CardinalityType

LEMMA MoveFact ==
  ASSUME NEW r \in Requests, NEW from, NEW to, NEW S,
         pc \in [Requests -> Steps], Goto(r, from, to)
  PROVE  /\ r \in At(S) <=> from \in S
         /\ to \in S => At(S)' = At(S) \cup {r}
         /\ to \notin S => At(S)' = At(S) \ {r}
BY DEF At, Goto

LEMMA StayFact ==
  ASSUME NEW r \in Requests, NEW from, NEW to, NEW S,
         pc \in [Requests -> Steps], Goto(r, from, to), from \in S <=> to \in S
  PROVE  Cardinality(At(S))' = Cardinality(At(S))
<1>1. At(S)' = At(S)
  BY MoveFact
<1>2. QED  BY <1>1

LEMMA EnterFact ==
  ASSUME NEW r \in Requests, NEW from, NEW to, NEW S,
         pc \in [Requests -> Steps], Goto(r, from, to), from \notin S, to \in S
  PROVE  Cardinality(At(S))' = Cardinality(At(S)) + 1
<1>1. At(S)' = At(S) \cup {r} /\ r \notin At(S)
  BY MoveFact
<1>2. Cardinality(At(S) \cup {r}) = Cardinality(At(S)) + 1
  BY ZenonT(30), <1>1, AtFinite, FS_AddElement
<1>3. QED  BY <1>1, <1>2

LEMMA LeaveFact ==
  ASSUME NEW r \in Requests, NEW from, NEW to, NEW S,
         pc \in [Requests -> Steps], Goto(r, from, to), from \in S, to \notin S
  PROVE  /\ Cardinality(At(S))' = Cardinality(At(S)) - 1
         /\ Cardinality(At(S)) - 1 \in Nat
<1>1. At(S)' = At(S) \ {r} /\ r \in At(S)
  BY MoveFact
<1>2. /\ Cardinality(At(S) \ {r}) = Cardinality(At(S)) - 1
      /\ IsFiniteSet(At(S) \ {r})
  BY <1>1, AtFinite, FS_RemoveElement
<1>3. Cardinality(At(S) \ {r}) \in Nat
  BY <1>2, FS_CardinalityType
<1>4. QED  BY <1>1, <1>2, <1>3

\* A step that neither takes nor gives back a slot.
LEMMA SlotsKept ==
  ASSUME IInv, NEW r \in Requests, NEW from, NEW to, Goto(r, from, to),
         from \in HoldRequest <=> to \in HoldRequest,
         from \in HoldConnection <=> to \in HoldConnection,
         UNCHANGED <<activeRequests, activeConnections>>
  PROVE  Accounting'
<1>1. pc \in [Requests -> Steps]
  BY DEF IInv, TypeOK
<1>2. Cardinality(At(HoldRequest))' = Cardinality(At(HoldRequest))
  BY ZenonT(30), <1>1, StayFact DEF HoldRequest, InFlight
<1>3. Cardinality(At(HoldConnection))' = Cardinality(At(HoldConnection))
  BY ZenonT(30), <1>1, StayFact DEF HoldConnection, InFlight
<1>4. QED  BY <1>2, <1>3 DEF IInv, Accounting, HoldRequest, HoldConnection, InFlight, At

\* What a step of request r must respect for a half-open circuit to stay
\* attended.
LEMMA AttendedKept ==
  ASSUME HalfOpenAttended, NEW r \in Requests,
         \A q \in Requests \ {r} : pc'[q] = pc[q] /\ probing'[q] = probing[q],
         state' = HalfOpen => state = HalfOpen,
         stranded => stranded',
         halfOpenAllowed > 0 => halfOpenAllowed' > 0 \/ Attends(r)',
         Attends(r) => Attends(r)' \/ stranded'
  PROVE  HalfOpenAttended'
<1>1. \A q \in Requests \ {r} : Attends(q) => Attends(q)'
  BY DEF Attends
<1>2. QED  BY <1>1 DEF HalfOpenAttended

LEMMA GotoFact ==
  ASSUME IInv, NEW r \in Requests, NEW from, NEW to \in Steps, Goto(r, from, to)
  PROVE  /\ pc[r] = from /\ pc'[r] = to /\ pc' \in [Requests -> Steps]
         /\ \A q \in Requests \ {r} : pc'[q] = pc[q]
BY DEF IInv, TypeOK, Goto

----------------------------------------------------------------------------
(* Steps that only choose where a request goes next.                       *)

LEMMA BranchIInv ==
  ASSUME IInv, NEW r \in Requests, NEW from, NEW to \in Steps, Goto(r, from, to),
         from \in {"idle", "load", "check", "conns", "reqs"},
         to \in {"idle", "load", "check", "cas", "take", "conns", "reqs", "onRequest"},
         UNCHANGED <<breaker, probing, stranded>>
  PROVE  IInv'
<1>1. TypeOK'
  BY GotoFact DEF IInv, TypeOK, breaker
<1>2. Accounting'
  BY SlotsKept DEF HoldRequest, HoldConnection, InFlight, breaker
<1>3. HalfOpenAttended'
  <2>1. ~Attends(r)
    BY GotoFact DEF Attends
  <2>2. QED  BY <2>1, GotoFact, AttendedKept DEF IInv, breaker
<1>4. QED  BY <1>1, <1>2, <1>3 DEF IInv

LEMMA AllowBranches ==
  ASSUME IInv, NEW r \in Requests,
         \/ Arrive(r) \/ LoadState(r) \/ CheckElapsed(r)
         \/ LoadConnections(r) \/ LoadRequests(r)
  PROVE  IInv'
<1>1. CASE Arrive(r)
  BY <1>1, BranchIInv DEF Arrive, Steps
<1>2. CASE LoadState(r)
  <2>1. PICK to \in {"check", "take", "conns"} :
          Goto(r, "load", to) /\ UNCHANGED <<breaker, probing, stranded>>
    BY <1>2 DEF LoadState
  <2>2. QED  BY <2>1, BranchIInv DEF Steps
<1>3. CASE CheckElapsed(r)
  <2>1. PICK to \in {"cas", "idle"} :
          Goto(r, "check", to) /\ UNCHANGED <<breaker, probing, stranded>>
    BY <1>3 DEF CheckElapsed, Denied
  <2>2. QED  BY <2>1, BranchIInv DEF Steps
<1>4. CASE LoadConnections(r)
  <2>1. PICK to \in {"reqs", "idle"} :
          Goto(r, "conns", to) /\ UNCHANGED <<breaker, probing, stranded>>
    BY <1>4 DEF LoadConnections, Denied
  <2>2. QED  BY <2>1, BranchIInv DEF Steps
<1>5. CASE LoadRequests(r)
  <2>1. PICK to \in {"onRequest", "idle"} :
          Goto(r, "reqs", to) /\ UNCHANGED <<breaker, probing, stranded>>
    BY <1>5 DEF LoadRequests, Denied
  <2>2. QED  BY <2>1, BranchIInv DEF Steps
<1>6. QED  BY <1>1, <1>2, <1>3, <1>4, <1>5

----------------------------------------------------------------------------
(* The half-open token.                                                    *)

LEMMA SwapIInv ==
  ASSUME IInv, NEW r \in Requests, Swap(r)
  PROVE  IInv'
<1>1. PICK to \in {"grant", "take"} : /\ Goto(r, "cas", to)
                                      /\ state = Open => to = "grant"
  BY DEF Swap
<1>2. TypeOK'
  <2>1. to \in Steps
    BY DEF Steps
  <2>2. QED  BY <1>1, <2>1, GotoFact DEF Swap, IInv, TypeOK, Open, HalfOpen
<1>3. Accounting'
  BY <1>1, SlotsKept DEF Swap, HoldRequest, HoldConnection, InFlight
<1>4. HalfOpenAttended'
  <2>0. to \in Steps
    BY DEF Steps
  <2>1. CASE state = Open
    BY <1>1, <2>0, <2>1, GotoFact DEF HalfOpenAttended, Attends
  <2>2. CASE state # Open
    <3>1. ~Attends(r)
      BY <1>1, <2>0, GotoFact DEF Attends
    <3>2. UNCHANGED <<state, stranded, halfOpenAllowed, probing>>
      BY <2>2 DEF Swap, IInv, TypeOK
    <3>3. QED  BY <1>1, <2>0, <3>1, <3>2, GotoFact, AttendedKept DEF IInv
  <2>3. QED  BY <2>1, <2>2
<1>5. QED  BY <1>2, <1>3, <1>4 DEF IInv

LEMMA GrantIInv ==
  ASSUME IInv, NEW r \in Requests, Grant(r)
  PROVE  IInv'
<1>1. Goto(r, "grant", "take") /\ "take" \in Steps
  BY DEF Grant, Steps
<1>2. TypeOK'
  BY <1>1, GotoFact, IntMaxAssumption DEF Grant, IInv, TypeOK
<1>3. Accounting'
  BY <1>1, SlotsKept DEF Grant, HoldRequest, HoldConnection, InFlight
<1>4. HalfOpenAttended'
  BY DEF Grant, HalfOpenAttended
<1>5. QED  BY <1>2, <1>3, <1>4 DEF IInv

LEMMA TakeTokenIInv ==
  ASSUME IInv, NEW r \in Requests, TakeToken(r)
  PROVE  IInv'
<1>1. PICK to \in {"onRequest", "idle"} : /\ Goto(r, "take", to)
                                          /\ halfOpenAllowed' >= 0 => to = "onRequest"
  BY DEF TakeToken, Denied
<1>2. to \in Steps
  BY DEF Steps
<1>3. /\ halfOpenAllowed' \in -(IntMax + 1)..IntMax
      /\ halfOpenAllowed > 0 => halfOpenAllowed' >= 0
  BY DecrementFact DEF TakeToken, IInv, TypeOK
<1>4. probing' \in [Requests -> BOOLEAN] /\ probing'[r] = (halfOpenAllowed' >= 0)
      /\ \A q \in Requests \ {r} : probing'[q] = probing[q]
  BY <1>3 DEF TakeToken, IInv, TypeOK
<1>5. TypeOK'
  BY <1>1, <1>2, <1>3, <1>4, GotoFact DEF TakeToken, IInv, TypeOK
<1>6. Accounting'
  BY <1>1, SlotsKept DEF TakeToken, HoldRequest, HoldConnection, InFlight
<1>7. HalfOpenAttended'
  <2>1. ~Attends(r)
    BY <1>1, <1>2, GotoFact DEF Attends
  <2>2. halfOpenAllowed > 0 => Attends(r)'
    BY <1>1, <1>2, <1>3, <1>4, GotoFact DEF Attends
  <2>3. QED  BY <1>1, <1>2, <1>4, <2>1, <2>2, GotoFact, AttendedKept
             DEF TakeToken, IInv
<1>8. QED  BY <1>5, <1>6, <1>7 DEF IInv

----------------------------------------------------------------------------
(* The slots and the result of the upstream call.                          *)

LEMMA OnRequestIInv ==
  ASSUME IInv, NEW r \in Requests, OnRequest(r)
  PROVE  IInv'
<1> USE DEF HoldRequest, HoldConnection, InFlight
<1>1. pc \in [Requests -> Steps] /\ {"onConnection", "upstream"} \subseteq Steps
  BY DEF IInv, TypeOK, Steps
<1>2. CASE Goto(r, "onRequest", "onConnection") /\ activeRequests' = activeRequests + 1
           /\ UNCHANGED <<state, halfOpenAllowed, consecutiveFailures,
                          activeConnections, elapsed, probing, stranded>>
  <2>1. TypeOK'
    BY <1>1, <1>2, GotoFact DEF IInv, TypeOK
  <2>2. Cardinality(At(HoldRequest))' = Cardinality(At(HoldRequest)) + 1
    BY ZenonT(30), <1>1, <1>2, EnterFact
  <2>3. Cardinality(At(HoldConnection))' = Cardinality(At(HoldConnection))
    BY ZenonT(30), <1>1, <1>2, StayFact
  <2>4. Accounting'
    BY <1>2, <2>2, <2>3 DEF IInv, Accounting, At
  <2>5. Attends(r) => Attends(r)'
    BY <1>1, <1>2, GotoFact DEF Attends
  <2>6. HalfOpenAttended'
    BY <1>1, <1>2, <2>5, GotoFact, AttendedKept DEF IInv
  <2>7. QED  BY <2>1, <2>4, <2>6 DEF IInv
<1>3. CASE Goto(r, "onConnection", "upstream") /\ activeConnections' = activeConnections + 1
           /\ UNCHANGED <<state, halfOpenAllowed, consecutiveFailures,
                          activeRequests, elapsed, probing, stranded>>
  <2>1. TypeOK'
    BY <1>1, <1>3, GotoFact DEF IInv, TypeOK
  <2>2. Cardinality(At(HoldConnection))' = Cardinality(At(HoldConnection)) + 1
    BY <1>1, <1>3, EnterFact
  <2>3. Cardinality(At(HoldRequest))' = Cardinality(At(HoldRequest))
    BY SMTT(30), <1>1, <1>3, StayFact
  <2>4. Accounting'
    BY <1>3, <2>2, <2>3 DEF IInv, Accounting, At
  <2>5. Attends(r) => Attends(r)'
    BY <1>1, <1>3, GotoFact DEF Attends
  <2>6. HalfOpenAttended'
    BY <1>1, <1>3, <2>5, GotoFact, AttendedKept DEF IInv
  <2>7. QED  BY SMTT(30), <2>1, <2>4, <2>6 DEF IInv
<1>4. QED  BY <1>2, <1>3 DEF OnRequest

LEMMA UpstreamIInv ==
  ASSUME IInv, NEW r \in Requests, Upstream(r)
  PROVE  IInv'
<1>1. PICK to \in {"doneRequest", "fail", "succeed"} :
        /\ Goto(r, "upstream", to)
        /\ to = "doneRequest" => stranded' = (stranded \/ probing[r])
        /\ stranded => stranded'
        /\ stranded' \in BOOLEAN
        /\ UNCHANGED <<breaker, probing>>
  BY DEF Upstream, IInv, TypeOK
<1>2. to \in Steps
  BY DEF Steps
<1>3. TypeOK'
  BY <1>1, <1>2, GotoFact DEF IInv, TypeOK, breaker
<1>4. Accounting'
  BY <1>1, SlotsKept DEF HoldRequest, HoldConnection, InFlight, breaker
<1>5. Attends(r) => Attends(r)' \/ stranded'
  BY <1>1, <1>2, GotoFact DEF Attends
<1>6. HalfOpenAttended'
  BY <1>1, <1>2, <1>5, GotoFact, AttendedKept DEF IInv, breaker
<1>7. QED  BY <1>3, <1>4, <1>6 DEF IInv

LEMMA RecordSuccessIInv ==
  ASSUME IInv, NEW r \in Requests, RecordSuccess(r)
  PROVE  IInv'
<1>1. {"close", "doneRequest"} \subseteq Steps
  BY DEF Steps
<1>2. CASE Goto(r, "succeed", "close") /\ consecutiveFailures' = 0
           /\ UNCHANGED <<state, halfOpenAllowed, activeRequests, activeConnections,
                          elapsed, probing, stranded>>
  <2>1. TypeOK'
    BY <1>1, <1>2, GotoFact, DefaultsFact DEF IInv, TypeOK
  <2>2. Accounting'
    BY <1>2, SlotsKept DEF HoldRequest, HoldConnection, InFlight
  <2>3. Attends(r)'
    BY <1>1, <1>2, GotoFact DEF Attends
  <2>4. HalfOpenAttended'
    BY <2>3 DEF HalfOpenAttended
  <2>5. QED  BY <2>1, <2>2, <2>4 DEF IInv
<1>3. CASE Goto(r, "close", "doneRequest") /\ state' = Closed
           /\ UNCHANGED <<halfOpenAllowed, consecutiveFailures, activeRequests,
                          activeConnections, elapsed, probing, stranded>>
  <2>1. TypeOK'
    BY <1>1, <1>3, GotoFact DEF IInv, TypeOK
  <2>2. Accounting'
    BY <1>3, SlotsKept DEF HoldRequest, HoldConnection, InFlight
  <2>3. HalfOpenAttended'
    BY <1>3 DEF HalfOpenAttended, Closed, HalfOpen
  <2>4. QED  BY <2>1, <2>2, <2>3 DEF IInv
<1>4. QED  BY <1>2, <1>3 DEF RecordSuccess

LEMMA RecordFailureIInv ==
  ASSUME IInv, NEW r \in Requests, RecordFailure(r)
  PROVE  IInv'
<1> DEFINE failures == consecutiveFailures + 1
<1>1. {"open", "stamp", "doneRequest"} \subseteq Steps
  BY DEF Steps
<1>2. CASE pc[r] = "fail"
  <2>1. PICK to \in {"open", "doneRequest"} :
          /\ Goto(r, "fail", to)
          /\ to = "doneRequest" => failures < failureThreshold
          /\ consecutiveFailures' =
               IF failures > failureThreshold THEN failureThreshold ELSE failures
          /\ stranded' = (stranded \/ (probing[r] /\ failures < failureThreshold))
          /\ UNCHANGED <<state, halfOpenAllowed, activeRequests, activeConnections,
                         elapsed, probing>>
    <3>1. failures \in Nat
      BY DefaultsFact DEF IInv, TypeOK
    <3>2. CASE failures >= failureThreshold
      BY <1>2, <3>2 DEF RecordFailure, Goto
    <3>3. CASE ~(failures >= failureThreshold)
      BY <1>2, <3>1, <3>3, DefaultsFact DEF RecordFailure, Goto
    <3>4. QED  BY <3>2, <3>3
  <2>2. consecutiveFailures' \in 0..failureThreshold
    BY <2>1, DefaultsFact DEF IInv, TypeOK
  <2>3. stranded' \in BOOLEAN
    BY <2>1 DEF IInv, TypeOK
  <2>4. TypeOK'
    BY <1>1, <2>1, <2>2, <2>3, GotoFact DEF IInv, TypeOK
  <2>5. Accounting'
    BY <2>1, SlotsKept DEF HoldRequest, HoldConnection, InFlight
  <2>6. Attends(r) => Attends(r)' \/ stranded'
    <3>1. CASE to = "open"
      BY <1>1, <2>1, <3>1, GotoFact DEF Attends
    <3>2. CASE to = "doneRequest"
      <4>1. Attends(r) => probing[r]
        BY <1>2 DEF Attends
      <4>2. probing[r] => stranded'
        BY ZenonT(30), <2>1, <3>2
      <4>3. QED  BY <4>1, <4>2
    <3>3. QED  BY SMTT(30), <3>1, <3>2
  <2>7. stranded => stranded'
    BY ZenonT(30), <2>1
  <2>8. HalfOpenAttended'
    BY <1>1, <2>1, <2>6, <2>7, GotoFact, AttendedKept DEF IInv
  <2>9. QED  BY <2>4, <2>5, <2>8 DEF IInv
<1>3. CASE pc[r] = "open"
  <2>1. Goto(r, "open", "stamp") /\ state' = Open
        /\ UNCHANGED <<halfOpenAllowed, consecutiveFailures, activeRequests,
                       activeConnections, elapsed, probing, stranded>>
    BY <1>3 DEF RecordFailure, Goto
  <2>2. TypeOK'
    BY <1>1, <2>1, GotoFact DEF IInv, TypeOK
  <2>3. Accounting'
    BY <2>1, SlotsKept DEF HoldRequest, HoldConnection, InFlight
  <2>4. HalfOpenAttended'
    BY <2>1 DEF HalfOpenAttended, Open, HalfOpen
  <2>5. QED  BY <2>2, <2>3, <2>4 DEF IInv
<1>4. CASE pc[r] = "stamp"
  <2>1. Goto(r, "stamp", "doneRequest") /\ elapsed' = FALSE
        /\ UNCHANGED <<state, halfOpenAllowed, consecutiveFailures,
                       activeRequests, activeConnections, probing, stranded>>
    BY <1>4 DEF RecordFailure, Goto
  <2>2. TypeOK'
    BY ZenonT(30), <1>1, <2>1, GotoFact DEF IInv, TypeOK
  <2>3. Accounting'
    BY <2>1, SlotsKept DEF HoldRequest, HoldConnection, InFlight
  <2>4. ~Attends(r)
    BY <1>4 DEF Attends
  <2>5. HalfOpenAttended'
    BY <1>1, <2>1, <2>4, GotoFact, AttendedKept DEF IInv
  <2>6. QED  BY <2>2, <2>3, <2>5 DEF IInv
<1>5. QED  BY <1>2, <1>3, <1>4 DEF RecordFailure, Goto

LEMMA OnCompleteIInv ==
  ASSUME IInv, NEW r \in Requests, OnComplete(r)
  PROVE  IInv'
<1> USE DEF HoldRequest, HoldConnection, InFlight
<1>1. pc \in [Requests -> Steps] /\ {"doneConnection", "idle"} \subseteq Steps
  BY DEF IInv, TypeOK, Steps
<1>2. CASE Goto(r, "doneRequest", "doneConnection") /\ activeRequests' = activeRequests - 1
           /\ probing' = [probing EXCEPT ![r] = FALSE]
           /\ UNCHANGED <<state, halfOpenAllowed, consecutiveFailures,
                          activeConnections, elapsed, stranded>>
  <2>1. /\ Cardinality(At(HoldRequest))' = Cardinality(At(HoldRequest)) - 1
        /\ Cardinality(At(HoldRequest)) - 1 \in Nat
    BY ZenonT(30), <1>1, <1>2, LeaveFact
  <2>2. Cardinality(At(HoldConnection))' = Cardinality(At(HoldConnection))
    BY ZenonT(30), <1>1, <1>2, StayFact
  <2>3. activeRequests' \in Nat
    BY <1>2, <2>1 DEF IInv, Accounting
  <2>4. probing' \in [Requests -> BOOLEAN] /\ \A q \in Requests \ {r} : probing'[q] = probing[q]
    BY <1>2 DEF IInv, TypeOK
  <2>5. TypeOK'
    BY SMTT(30), <1>1, <1>2, <2>3, <2>4, GotoFact DEF IInv, TypeOK
  <2>6. Accounting'
    BY <1>2, <2>1, <2>2 DEF IInv, Accounting, At
  <2>7. ~Attends(r)
    BY <1>1, <1>2, GotoFact DEF Attends
  <2>8. HalfOpenAttended'
    BY ZenonT(30), <1>1, <1>2, <2>4, <2>7, GotoFact, AttendedKept DEF IInv
  <2>9. QED  BY <2>5, <2>6, <2>8 DEF IInv
<1>3. CASE Goto(r, "doneConnection", "idle") /\ activeConnections' = activeConnections - 1
           /\ UNCHANGED <<state, halfOpenAllowed, consecutiveFailures,
                          activeRequests, elapsed, probing, stranded>>
  <2>1. /\ Cardinality(At(HoldConnection))' = Cardinality(At(HoldConnection)) - 1
        /\ Cardinality(At(HoldConnection)) - 1 \in Nat
    BY ZenonT(30), <1>1, <1>3, LeaveFact
  <2>2. Cardinality(At(HoldRequest))' = Cardinality(At(HoldRequest))
    BY ZenonT(30), <1>1, <1>3, StayFact
  <2>3. activeConnections' \in Nat
    BY <1>3, <2>1 DEF IInv, Accounting
  <2>4. TypeOK'
    BY <1>1, <1>3, <2>3, GotoFact DEF IInv, TypeOK
  <2>5. Accounting'
    BY <1>3, <2>1, <2>2 DEF IInv, Accounting, At
  <2>6. ~Attends(r)
    BY <1>1, <1>3, GotoFact DEF Attends
  <2>7. HalfOpenAttended'
    BY <1>1, <1>3, <2>6, GotoFact, AttendedKept DEF IInv
  <2>8. QED  BY <2>4, <2>5, <2>7 DEF IInv
<1>4. QED  BY <1>2, <1>3 DEF OnComplete

----------------------------------------------------------------------------
LEMMA InitIInv == Init => IInv
<1> SUFFICES ASSUME Init PROVE IInv
  OBVIOUS
<1>1. TypeOK
  <2>1. state \in {Closed, Open, HalfOpen} /\ activeRequests \in Nat /\ activeConnections \in Nat
    BY DEF Init
  <2>2. halfOpenAllowed \in -(IntMax + 1)..IntMax
    BY IntMaxAssumption DEF Init
  <2>3. consecutiveFailures \in 0..failureThreshold
    BY DefaultsFact DEF Init
  <2>4. pc \in [Requests -> Steps]
    BY DEF Init, Steps
  <2>5. elapsed \in BOOLEAN /\ stranded \in BOOLEAN
    BY ZenonT(30) DEF Init
  <2>6. probing \in [Requests -> BOOLEAN]
    BY DEF Init
  <2>7. QED  BY <2>1, <2>2, <2>3, <2>4, <2>5, <2>6 DEF TypeOK
<1>2. At(HoldRequest) = {} /\ At(HoldConnection) = {}
  BY DEF Init, At, HoldRequest, HoldConnection, InFlight
<1>3. Accounting
  BY <1>2, FS_EmptySet DEF Init, Accounting
<1>4. HalfOpenAttended
  BY DEF Init, HalfOpenAttended, Closed, HalfOpen
<1>5. QED  BY <1>1, <1>3, <1>4 DEF IInv

LEMMA IdleIInv ==
  ASSUME IInv, Tick \/ UNCHANGED vars
  PROVE  IInv'
<1>1. CASE Tick
  <2>1. TypeOK'
    BY <1>1 DEF Tick, IInv, TypeOK
  <2>2. Accounting' /\ HalfOpenAttended'
    BY <1>1 DEF Tick, IInv, Accounting, At, HoldRequest, HoldConnection, InFlight,
                HalfOpenAttended, Attends
  <2>3. QED  BY <2>1, <2>2 DEF IInv
<1>2. CASE UNCHANGED vars
  <2>1. TypeOK'
    BY <1>2 DEF vars, breaker, IInv, TypeOK
  <2>2. Accounting' /\ HalfOpenAttended'
    BY <1>2 DEF vars, breaker, IInv, Accounting, At, HoldRequest, HoldConnection,
                InFlight, HalfOpenAttended, Attends
  <2>3. QED  BY <2>1, <2>2 DEF IInv
<1>3. QED  BY <1>1, <1>2

LEMMA Inductive == IInv /\ [Next]_vars => IInv'
<1> SUFFICES ASSUME IInv, [Next]_vars PROVE IInv'
  OBVIOUS
<1>1. ASSUME NEW r \in Requests, Arrive(r) \/ RequestStep(r)
      PROVE  IInv'
  BY <1>1, AllowBranches, SwapIInv, GrantIInv, TakeTokenIInv, OnRequestIInv, UpstreamIInv,
     RecordSuccessIInv, RecordFailureIInv, OnCompleteIInv DEF RequestStep, Allow
<1>2. QED  BY <1>1, IdleIInv DEF Next

----------------------------------------------------------------------------
(* The breaker's counters and state keep their types; in particular the     *)
(* active counters never go below zero, and halfOpenAllowed wraps within    *)
(* its integer.                                                             *)
THEOREM BreakerTypeCorrect == Spec => []TypeOK
<1>1. IInv => TypeOK
  BY DEF IInv
<1>2. QED  BY <1>1, InitIInv, Inductive, PTL DEF Spec

(* OnRequest and the deferred OnComplete balance for any number of          *)
(* concurrent requests, so a destination never loses capacity for good.     *)
THEOREM BreakerAccounting == Spec => []Accounting
<1>1. IInv => Accounting
  BY DEF IInv
<1>2. QED  BY <1>1, InitIInv, Inductive, PTL DEF Spec

(* A half-open circuit waits for nobody in only two cases: its probe was    *)
(* aborted, or failed with the count reset below the threshold.  Whatever   *)
(* the interleaving of Allow, RecordSuccess and RecordFailure, no other way *)
(* leads to a circuit that stays half-open.                                 *)
THEOREM BreakerHalfOpenAttended == Spec => []HalfOpenAttended
<1>1. IInv => HalfOpenAttended
  BY DEF IInv
<1>2. QED  BY <1>1, InitIInv, Inductive, PTL DEF Spec
=============================================================================
