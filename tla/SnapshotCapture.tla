--------------------------- MODULE SnapshotCapture ---------------------------
(***************************************************************************)
(* CreateSnapshot (server/internal/api/handlers/snapshots.go): the handler *)
(* lists the five buckets one after the other, looks up the secrets the    *)
(* captured entities refer to, and saves the result, while other requests  *)
(* change the store.  No transaction spans the reads.                      *)
(***************************************************************************)
EXTENDS ConfigStore

CONSTANTS
  Capturers,      \* goroutines in CreateSnapshot
  References      \* References[k][v]: <<kind, id>> pairs content v names

\* Mutant of CaptureOrder: destinations before the routes that use them.
CaptureOrderSwapped ==
  [listeners |-> 1, routes |-> 4, groups |-> 3, destinations |-> 2,
   middlewares |-> 5, secrets |-> 6]

\* The order in which buildSnapshot reads; secrets are looked up last.
CaptureOrder ==
  [listeners |-> 1, routes |-> 2, groups |-> 3, destinations |-> 4,
   middlewares |-> 5, secrets |-> 6]

Listed == Kinds \ {"secrets"}
Pairs == Kinds \X Ids

ASSUME CapturersAssumption == Capturers \subseteq Writers
ASSUME KindsAssumption == Kinds = DOMAIN CaptureOrder
ASSUME ReferencesAssumption == References \in [Kinds -> [Values -> SUBSET Pairs]]

\* Values of step beside the reads, which are numbered by CaptureOrder.
Waiting == 0
Saving == 7

VARIABLES
  step,           \* step[c]: the next step of capturer c
  got,            \* got[c]: what c has captured
  wanted,         \* wanted[c]: secrets c has still to look up
  quiet,          \* history: quiet[c]: no write since c's capture began
  undeleted,      \* history: undeleted[c]: no entity deleted since then
  whole           \* history: snapshots captured with no deletion meanwhile

captureVars == <<step, got, wanted>>
history == <<quiet, undeleted, whole>>
vars == <<storeVars, captureVars, history>>

Nothing == [k \in Kinds |-> EmptyCollection]

TypeOK ==
  /\ StoreTypeOK
  /\ step \in [Capturers -> 0..7]
  /\ got \in [Capturers -> Content]
  /\ wanted \in [Capturers -> SUBSET Ids]
  /\ quiet \in [Capturers -> BOOLEAN]
  /\ undeleted \in [Capturers -> BOOLEAN]
  /\ whole \subseteq SnapshotIds

\* The <<kind, id>> pairs that entities of kind k in configuration c name.
Named(c, k) ==
  UNION {References[k][c[k][i]] : i \in {j \in Ids : c[k][j] # Absent}}

Holds(c, r) == c[r[1]][r[2]] # Absent

Closed(c) == \A k \in Kinds : \A r \in Named(c, k) : Holds(c, r)

Init ==
  /\ StoreInit
  /\ data = Nothing
  /\ step = [c \in Capturers |-> Waiting]
  /\ got = [c \in Capturers |-> Nothing]
  /\ wanted = [c \in Capturers |-> {}]
  /\ quiet = [c \in Capturers |-> TRUE]
  /\ undeleted = [c \in Capturers |-> TRUE]
  /\ whole = {}

----------------------------------------------------------------------------
(* CreateSnapshot.                                                         *)

BeginCapture(c) ==
  /\ step[c] = Waiting
  /\ unpublished[c] = Absent
  /\ step' = [step EXCEPT ![c] = 1]
  /\ quiet' = [quiet EXCEPT ![c] = TRUE]
  /\ undeleted' = [undeleted EXCEPT ![c] = TRUE]
  /\ UNCHANGED <<storeVars, got, wanted, whole>>

\* The secrets that captured entities refer to.
SecretsOf(g) == {r[2] : r \in {q \in UNION {Named(g, k) : k \in Listed} :
                                 q[1] = "secrets"}}

\* Mutant of ReadKind: groups keep what an earlier read left.
ReadKindSkips(c, k) ==
  /\ k \in Listed
  /\ step[c] = CaptureOrder[k]
  /\ got' = IF k = "groups" THEN got ELSE [got EXCEPT ![c][k] = data[k]]
  /\ step' = [step EXCEPT ![c] = @ + 1]
  /\ wanted' = IF k = "middlewares" THEN [wanted EXCEPT ![c] = SecretsOf(got'[c])]
                                    ELSE wanted
  /\ UNCHANGED <<storeVars, quiet, undeleted, whole>>

\* One List call of buildSnapshot.  After the last one, resolveSecrets scans
\* what was captured for {{secret:value:...}} patterns.
ReadKind(c, k) ==
  /\ k \in Listed
  /\ step[c] = CaptureOrder[k]
  /\ got' = [got EXCEPT ![c][k] = data[k]]
  /\ step' = [step EXCEPT ![c] = @ + 1]
  /\ wanted' = IF k = "middlewares" THEN [wanted EXCEPT ![c] = SecretsOf(got'[c])]
                                    ELSE wanted
  /\ UNCHANGED <<storeVars, quiet, undeleted, whole>>

\* The request is over and its variables are dead.
EndCapture(c) ==
  /\ step' = [step EXCEPT ![c] = Waiting]
  /\ got' = [got EXCEPT ![c] = Nothing]
  /\ wanted' = [wanted EXCEPT ![c] = {}]
  /\ UNCHANGED <<quiet, undeleted>>

\* One GetSecret.  A missing secret makes the request fail with 400.
ReadSecret(c, i) ==
  /\ step[c] = CaptureOrder["secrets"]
  /\ i \in wanted[c]
  /\ IF data["secrets"][i] = Absent
     THEN EndCapture(c)
     ELSE /\ got' = [got EXCEPT ![c]["secrets"][i] = data["secrets"][i]]
          /\ wanted' = [wanted EXCEPT ![c] = @ \ {i}]
          /\ UNCHANGED <<step, quiet, undeleted>>
  /\ UNCHANGED <<storeVars, whole>>

Resolved(c) ==
  /\ step[c] = CaptureOrder["secrets"]
  /\ wanted[c] = {}
  /\ step' = [step EXCEPT ![c] = Saving]
  /\ UNCHANGED <<storeVars, got, wanted, history>>

SaveCapture(c, s) ==
  /\ step[c] = Saving
  /\ SaveSnapshot(c, s, got[c])
  /\ whole' = IF undeleted[c] THEN whole \cup {s} ELSE whole
  /\ EndCapture(c)

----------------------------------------------------------------------------
(* Other requests.  Clients create what an entity names before the entity  *)
(* and delete it after, so the store itself is Closed at all times.        *)

\* History of a write: a capture in progress is not quiet.
Observe == quiet' = [c \in Capturers |-> quiet[c] /\ step[c] = Waiting]

SaveEntity(w, k, i, v) ==
  /\ \A r \in References[k][v] : Holds(data, r)
  /\ Save(w, k, i, v)
  /\ Observe
  /\ UNCHANGED <<captureVars, undeleted, whole>>

DeleteEntity(w, k, i) ==
  /\ \A j \in Kinds : <<k, i>> \notin Named(data, j)
  /\ Delete(w, k, i)
  /\ Observe
  /\ undeleted' = [c \in Capturers |-> undeleted[c] /\ step[c] = Waiting]
  /\ UNCHANGED <<captureVars, whole>>

CaptureStep(c) ==
  \/ BeginCapture(c)
  \/ \E k \in Kinds : ReadKind(c, k)
  \/ \E i \in Ids : ReadSecret(c, i)
  \/ Resolved(c)
  \/ \E s \in SnapshotIds : SaveCapture(c, s)

ClientStep(w) ==
  \E k \in Kinds, i \in Ids :
    DeleteEntity(w, k, i) \/ \E v \in Values : SaveEntity(w, k, i, v)

PublishStep == (\E w \in Writers : publish(w)) /\ UNCHANGED <<captureVars, history>>

Next ==
  \/ \E c \in Capturers : CaptureStep(c)
  \/ \E w \in Writers \ Capturers : ClientStep(w)
  \/ PublishStep

Spec == Init /\ [][Next]_vars
----------------------------------------------------------------------------
\* The kinds whose entities name others of a kind that is read later.
Guaranteed ==
  {<<"routes", "destinations">>, <<"routes", "middlewares">>,
   <<"groups", "middlewares">>} \cup (Listed \X {"secrets"})

(* Although the buckets are read one by one, a snapshot holds everything    *)
(* that its entities name and that is read after them (the destinations and *)
(* middlewares of routes, the middlewares of groups, every secret), as long *)
(* as nothing was deleted while CreateSnapshot ran.                         *)
LaterReferencesHeld ==
  \A s \in whole : snapshots[s] # Absent =>
    \A k \in Listed : \A r \in Named(snapshots[s], k) :
      <<k, r[1]>> \in Guaranteed => Holds(snapshots[s], r)

(* A capture during which nothing was written saves exactly the store's     *)
(* configuration at that time.                                              *)
QuietCaptureExact ==
  [][\A c \in Capturers, s \in SnapshotIds :
       SaveCapture(c, s) /\ quiet[c] =>
         \A k \in Listed : snapshots'[s][k] = data[k]]_vars
=============================================================================
