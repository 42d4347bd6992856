------------------------ MODULE SnapshotCaptureProofs ------------------------
(* Proofs about module SnapshotCapture, for every value of its constants:   *)
(* any references between entities, any number of concurrent requests.      *)
EXTENDS SnapshotCapture, ConfigStoreProofs

\* Kind k is among those capturer c has read.
Read(c, k) == k \in Listed /\ CaptureOrder[k] < step[c]

\* Without deletions, what captured entities name is still in the store.
NamedStored ==
  \A c \in Capturers : undeleted[c] =>
    \A k \in Kinds : Read(c, k) => \A r \in Named(got[c], k) : Holds(data, r)

\* ... and was captured, if its kind was read later.
NamedCaptured ==
  \A c \in Capturers : undeleted[c] =>
    \A k, l \in Kinds : Read(c, k) /\ Read(c, l) /\ <<k, l>> \in Guaranteed =>
      \A r \in Named(got[c], k) : r[1] = l => Holds(got[c], r)

\* Every secret that captured entities name is still wanted, or was found.
SecretsFound ==
  \A c \in Capturers : step[c] \in {6, Saving} =>
    \A k \in Listed : \A r \in Named(got[c], k) :
      r[1] = "secrets" =>
        (step[c] = 6 /\ r[2] \in wanted[c]) \/ Holds(got[c], r)

\* With no write since the capture began, what was read is still current.
QuietCurrent ==
  \A c \in Capturers : quiet[c] =>
    \A k \in Kinds : Read(c, k) => got[c][k] = data[k]

WholeIssued == whole \subseteq issued

IInv ==
  /\ TypeOK
  /\ Closed(data)
  /\ NamedStored
  /\ NamedCaptured
  /\ SecretsFound
  /\ QuietCurrent
  /\ WholeIssued
  /\ LaterReferencesHeld
----------------------------------------------------------------------------
LEMMA OrderFact ==
  /\ Listed \subseteq Kinds /\ "secrets" \in Kinds /\ "secrets" \notin Listed
  /\ Kinds = Listed \cup {"secrets"}
  /\ \A k \in Listed : CaptureOrder[k] \in 1..5
  /\ CaptureOrder["secrets"] = 6
  /\ "middlewares" \in Listed /\ CaptureOrder["middlewares"] = 5
  /\ \A k, l \in Listed : CaptureOrder[k] = CaptureOrder[l] => k = l
BY KindsAssumption DEF Listed, CaptureOrder

LEMMA GuaranteedFact ==
  \A k, l \in Kinds : <<k, l>> \in Guaranteed =>
    l = "secrets" \/ (l \in Listed /\ k \in Listed /\ CaptureOrder[k] < CaptureOrder[l])
BY DEF Listed, CaptureOrder, Guaranteed

LEMMA NamedFact ==
  ASSUME NEW d, NEW k
  PROVE  \A r : r \in Named(d, k) <=>
                  \E i \in Ids : d[k][i] # Absent /\ r \in References[k][d[k][i]]
BY Zenon DEF Named

\* Named looks at nothing but the entities of kind k.
LEMMA NamedSame ==
  ASSUME NEW d, NEW e, NEW k, d[k] = e[k]
  PROVE  Named(d, k) = Named(e, k)
BY Zenon DEF Named

LEMMA NamedPairs ==
  ASSUME NEW d \in Content, NEW k \in Kinds, NEW r \in Named(d, k)
  PROVE  r \in Pairs /\ r[1] \in Kinds /\ r[2] \in Ids
<1>1. PICK i \in Ids : d[k][i] # Absent /\ r \in References[k][d[k][i]]
  BY Zenon, NamedFact
<1>2. d[k][i] \in Values
  BY Zenon, <1>1 DEF Content, Collection
<1>3. r \in Pairs
  BY Zenon, <1>1, <1>2, ReferencesAssumption
<1>4. QED  BY Zenon, <1>3 DEF Pairs

LEMMA SecretsAreIds ==
  ASSUME NEW g \in Content
  PROVE  SecretsOf(g) \subseteq Ids
<1>1. ASSUME NEW k \in Listed, NEW r \in Named(g, k)
      PROVE  r[2] \in Ids
  BY Zenon, NamedPairs, OrderFact
<1>2. QED  BY Zenon, <1>1 DEF SecretsOf

----------------------------------------------------------------------------
LEMMA InitIInv == Init => IInv
<1> SUFFICES ASSUME Init PROVE IInv
  BY Zenon
<1>1. Nothing \in Content
  BY Zenon DEF Nothing, EmptyCollection, Content, Collection
<1>2. TypeOK
  <2>1. StoreTypeOK
    BY DEF Init, StoreInit, StoreTypeOK
  <2>2. step \in [Capturers -> 0..7]
    BY DEF Init, Waiting
  <2>3. got \in [Capturers -> Content]
    BY Zenon, <1>1 DEF Init
  <2>4. wanted \in [Capturers -> SUBSET Ids]
    BY Zenon DEF Init
  <2>5. quiet \in [Capturers -> BOOLEAN] /\ undeleted \in [Capturers -> BOOLEAN]
    BY Zenon DEF Init
  <2>6. whole \subseteq SnapshotIds
    BY Zenon DEF Init
  <2>7. QED  BY Zenon, <2>1, <2>2, <2>3, <2>4, <2>5, <2>6 DEF TypeOK
<1>3. Closed(data)
  <2>1. \A k \in Kinds, i \in Ids : data[k][i] = Absent
    BY Zenon DEF Init, Nothing, EmptyCollection
  <2>2. QED  BY <2>1, NamedFact DEF Closed
<1>4. \A c \in Capturers : step[c] = 0
  BY Zenon DEF Init, Waiting
<1>5. \A c \in Capturers, k \in Kinds : ~Read(c, k)
  BY <1>4, OrderFact DEF Read
<1>6. NamedStored /\ NamedCaptured /\ SecretsFound /\ QuietCurrent
  BY <1>4, <1>5 DEF NamedStored, NamedCaptured, SecretsFound, QuietCurrent, Saving
<1>7. WholeIssued /\ LaterReferencesHeld
  BY Zenon DEF Init, WholeIssued, LaterReferencesHeld
<1>8. QED  BY Zenon, <1>2, <1>3, <1>6, <1>7 DEF IInv

----------------------------------------------------------------------------
LEMMA BeginIInv ==
  ASSUME IInv, NEW c \in Capturers, BeginCapture(c)
  PROVE  IInv'
<1>1. step'[c] = 1 /\ \A d \in Capturers \ {c} :
        step'[d] = step[d] /\ quiet'[d] = quiet[d] /\ undeleted'[d] = undeleted[d]
  BY Zenon DEF IInv, TypeOK, BeginCapture
<1>2. TypeOK'
  <2>1. StoreTypeOK'
    BY Zenon DEF IInv, TypeOK, StoreTypeOK, BeginCapture, storeVars
  <2>2. step' \in [Capturers -> 0..7]
    BY DEF IInv, TypeOK, BeginCapture
  <2>4. quiet' \in [Capturers -> BOOLEAN] /\ undeleted' \in [Capturers -> BOOLEAN]
    BY Zenon DEF IInv, TypeOK, BeginCapture
  <2>5. QED  BY <2>1 DEF IInv, TypeOK, BeginCapture
<1>3. \A k \in Kinds : ~Read(c, k)'
  BY <1>1, OrderFact DEF Read
<1>4. \A d \in Capturers \ {c}, k \in Kinds : Read(d, k)' = Read(d, k)
  BY Zenon, <1>1 DEF Read
<1>5. Closed(data)' /\ WholeIssued' /\ LaterReferencesHeld'
  BY Zenon DEF IInv, WholeIssued, LaterReferencesHeld, BeginCapture, storeVars
<1>6. NamedStored'
  BY <1>3, <1>4 DEF IInv, NamedStored, BeginCapture, storeVars
<1>7. NamedCaptured'
  BY <1>3, <1>4 DEF IInv, NamedCaptured, BeginCapture
<1>8. SecretsFound'
  BY DEF IInv, SecretsFound, Saving, BeginCapture
<1>9. QuietCurrent'
  BY <1>3, <1>4 DEF IInv, QuietCurrent, BeginCapture, storeVars
<1>10. QED  BY Zenon, <1>2, <1>5, <1>6, <1>7, <1>8, <1>9 DEF IInv

----------------------------------------------------------------------------
\* The List of kind k: k becomes read, and everything else stays as it was.
LEMMA ReadKindFact ==
  ASSUME IInv, NEW c \in Capturers, NEW k \in Kinds, ReadKind(c, k)
  PROVE  /\ TypeOK'
         /\ step'[c] = CaptureOrder[k] + 1
         /\ got'[c][k] = data[k]
         /\ \A j \in Kinds \ {k} : got'[c][j] = got[c][j]
         /\ \A j \in Kinds : Read(c, j)' <=> Read(c, j) \/ j = k
         /\ \A d \in Capturers \ {c} :
              /\ step'[d] = step[d] /\ got'[d] = got[d] /\ wanted'[d] = wanted[d]
              /\ \A j \in Kinds : Read(d, j)' <=> Read(d, j)
<1>1. k \in Listed /\ CaptureOrder[k] \in 1..5 /\ step[c] = CaptureOrder[k]
  BY Zenon, OrderFact DEF ReadKind
<1>2. step' \in [Capturers -> 0..7] /\ step'[c] = CaptureOrder[k] + 1
  BY <1>1 DEF IInv, TypeOK, ReadKind
<1>3. got'[c] = [got[c] EXCEPT ![k] = data[k]] /\ got' \in [Capturers -> Content]
  BY Zenon DEF IInv, TypeOK, StoreTypeOK, Content, ReadKind
<1>4. \A d \in Capturers \ {c} : step'[d] = step[d] /\ got'[d] = got[d]
  BY DEF ReadKind
<1>5. wanted' \in [Capturers -> SUBSET Ids] /\ \A d \in Capturers \ {c} : wanted'[d] = wanted[d]
  <2>1. got'[c] \in Content
    BY Zenon, <1>3
  <2>2. SecretsOf(got'[c]) \subseteq Ids
    BY Zenon, <2>1, SecretsAreIds
  <2>3. QED  BY Zenon, <2>2 DEF IInv, TypeOK, ReadKind
<1>7. TypeOK'
  BY Zenon, <1>2, <1>3, <1>5 DEF IInv, TypeOK, StoreTypeOK, ReadKind, storeVars
<1>8. \A j \in Kinds : Read(c, j)' <=> Read(c, j) \/ j = k
  <2>1. ASSUME NEW j \in Listed
        PROVE  CaptureOrder[j] < CaptureOrder[k] + 1 <=> CaptureOrder[j] < CaptureOrder[k] \/ j = k
    <3>1. CaptureOrder[j] \in 1..5 /\ (CaptureOrder[j] = CaptureOrder[k] => j = k)
      BY OrderFact
    <3>2. QED  BY <3>1, <1>1
  <2>2. QED  BY Zenon, <1>1, <1>2, <2>1 DEF Read
<1>9. \A d \in Capturers \ {c}, j \in Kinds : Read(d, j)' <=> Read(d, j)
  BY Zenon, <1>4 DEF Read
<1>10. got'[c][k] = data[k] /\ \A j \in Kinds \ {k} : got'[c][j] = got[c][j]
  BY Zenon, <1>3 DEF Content
<1>11. QED  BY Zenon, <1>2, <1>4, <1>5, <1>7, <1>8, <1>9, <1>10

LEMMA ReadKindIInv ==
  ASSUME IInv, NEW c \in Capturers, NEW k \in Kinds, ReadKind(c, k)
  PROVE  IInv'
<1>1. k \in Listed /\ CaptureOrder[k] \in 1..5 /\ step[c] = CaptureOrder[k]
  BY Zenon, OrderFact DEF ReadKind
<1>2. UNCHANGED <<data, snapshots, issued, whole, quiet, undeleted>>
  BY Zenon DEF ReadKind, storeVars
<1>3. Closed(data)' /\ WholeIssued' /\ LaterReferencesHeld'
  <2>1. Closed(data)'
    BY Zenon, <1>2 DEF IInv
  <2>2. WholeIssued'
    BY Zenon, <1>2 DEF IInv, WholeIssued
  <2>3. LaterReferencesHeld'
    BY Zenon, <1>2 DEF IInv, LaterReferencesHeld
  <2>4. QED  BY Zenon, <2>1, <2>2, <2>3
<1>4. Named(got'[c], k) = Named(data, k)
  BY ReadKindFact, NamedSame
<1>5. ASSUME NEW j \in Kinds, j # k
      PROVE  Named(got'[c], j) = Named(got[c], j)
  BY <1>5, ReadKindFact, NamedSame
<1>6. got'[c] \in Content /\ got[c] \in Content /\ data \in Content
  BY ReadKindFact DEF IInv, TypeOK, StoreTypeOK
<1>7. NamedStored'
  <2> SUFFICES ASSUME NEW d \in Capturers, undeleted[d], NEW j \in Kinds, Read(d, j)',
                      NEW r \in Named(got'[d], j)
               PROVE  Holds(data, r)
    BY Zenon, <1>2 DEF NamedStored
  <2>1. CASE d # c
    BY <2>1, ReadKindFact DEF IInv, NamedStored
  <2>2. CASE d = c /\ j = k
    BY Zenon, <2>2, <1>4 DEF IInv, Closed
  <2>3. CASE d = c /\ j # k
    <3>1. Read(c, j) /\ r \in Named(got[c], j)
      BY Zenon, <2>3, <1>5, ReadKindFact
    <3>2. QED  BY Zenon, <3>1, <2>3 DEF IInv, NamedStored
  <2>4. QED  BY Zenon, <2>1, <2>2, <2>3
<1>8. NamedCaptured'
  <2> SUFFICES ASSUME NEW d \in Capturers, undeleted[d], NEW j \in Kinds, NEW l \in Kinds,
                      Read(d, j)', Read(d, l)', <<j, l>> \in Guaranteed,
                      NEW r \in Named(got'[d], j), r[1] = l
               PROVE  Holds(got'[d], r)
    BY Zenon, <1>2 DEF NamedCaptured
  <2>1. CASE d # c
    <3>1. Read(d, j) /\ Read(d, l) /\ got'[d] = got[d]
      BY <2>1, ReadKindFact
    <3>2. QED  BY Zenon, <3>1 DEF IInv, NamedCaptured
  <2>2. CASE d = c
    <3>0. l \in Listed /\ j \in Listed /\ CaptureOrder[j] < CaptureOrder[l]
      <4>1. l \in Listed
        BY Zenon DEF Read
      <4>2. QED  BY Zenon, <4>1, GuaranteedFact, OrderFact
    <3>1. j # k
      <4>1. SUFFICES ASSUME j = k PROVE FALSE
        BY Zenon
      <4>2. l # k /\ Read(c, l)
        BY <4>1, <3>0, <1>1, <2>2, ReadKindFact
      <4>3. CaptureOrder[l] \in 1..5 /\ CaptureOrder[l] < CaptureOrder[k]
        BY Zenon, <4>2, <1>1, OrderFact DEF Read
      <4>4. QED  BY <4>1, <4>3, <3>0, <1>1
    <3>2. r \in Named(got[c], j) /\ Read(c, j)
      BY <3>1, <2>2, <1>5, ReadKindFact
    <3>3. CASE l = k
      <4>1. Holds(data, r)
        BY Zenon, <3>2, <2>2 DEF IInv, NamedStored
      <4>2. QED  BY <4>1, <3>3, <2>2, ReadKindFact DEF Holds
    <3>4. CASE l # k
      <4>1. Read(c, l)
        BY <3>4, <2>2, ReadKindFact
      <4>2. Holds(got[c], r)
        BY Zenon, <4>1, <3>2, <2>2 DEF IInv, NamedCaptured
      <4>3. QED  BY <4>2, <3>4, <2>2, ReadKindFact DEF Holds
    <3>5. QED  BY Zenon, <3>3, <3>4
  <2>3. QED  BY Zenon, <2>1, <2>2
<1>9. SecretsFound'
  <2> SUFFICES ASSUME NEW d \in Capturers, step'[d] \in {6, Saving}, NEW j \in Listed,
                      NEW r \in Named(got'[d], j), r[1] = "secrets"
               PROVE  (step'[d] = 6 /\ r[2] \in wanted'[d]) \/ Holds(got'[d], r)
    BY Zenon DEF SecretsFound
  <2>1. CASE d # c
    BY <2>1, ReadKindFact DEF IInv, SecretsFound
  <2>2. CASE d = c
    <3>1. step'[c] = 6 /\ CaptureOrder[k] = 5
      <4>1. step'[c] = CaptureOrder[k] + 1
        BY ReadKindFact
      <4>2. QED  BY <4>1, <2>2, <1>1 DEF Saving
    <3>2. k = "middlewares"
      BY <3>1, OrderFact
    <3>3. wanted'[c] = SecretsOf(got'[c])
      BY Zenon, <3>2 DEF ReadKind, IInv, TypeOK
    <3>4. r[2] \in SecretsOf(got'[c])
      BY Zenon, <2>2 DEF SecretsOf
    <3>5. QED  BY Zenon, <2>2, <3>1, <3>3, <3>4
  <2>3. QED  BY Zenon, <2>1, <2>2
<1>10. QuietCurrent'
  BY <1>2, ReadKindFact DEF IInv, QuietCurrent
<1>11. QED  BY Zenon, <1>3, <1>7, <1>8, <1>9, <1>10, ReadKindFact DEF IInv

----------------------------------------------------------------------------
\* A capture that is over has read nothing.
LEMMA EndFact ==
  ASSUME IInv, NEW c \in Capturers, EndCapture(c)
  PROVE  /\ step' \in [Capturers -> 0..7] /\ got' \in [Capturers -> Content]
         /\ wanted' \in [Capturers -> SUBSET Ids]
         /\ UNCHANGED <<quiet, undeleted>>
         /\ step'[c] = 0
         /\ \A j \in Kinds : ~Read(c, j)'
         /\ \A d \in Capturers \ {c} :
              /\ step'[d] = step[d] /\ got'[d] = got[d] /\ wanted'[d] = wanted[d]
              /\ \A j \in Kinds : Read(d, j)' <=> Read(d, j)
<1>1. Nothing \in Content
  BY Zenon DEF Nothing, EmptyCollection, Content, Collection
<1>2. step' \in [Capturers -> 0..7] /\ step'[c] = 0
  BY DEF IInv, TypeOK, Waiting, EndCapture
<1>3. got' \in [Capturers -> Content]
  BY Zenon, <1>1 DEF IInv, TypeOK, EndCapture
<1>4. wanted' \in [Capturers -> SUBSET Ids]
  BY Zenon DEF IInv, TypeOK, EndCapture
<1>5. \A d \in Capturers \ {c} : step'[d] = step[d] /\ got'[d] = got[d] /\ wanted'[d] = wanted[d]
  BY DEF EndCapture
<1>6. \A j \in Kinds : ~Read(c, j)'
  BY <1>2, OrderFact DEF Read
<1>7. QED  BY Zenon, <1>2, <1>3, <1>4, <1>6 DEF Read, EndCapture

\* The end of one capture, in a step that leaves the configuration alone,
\* keeps what is said of captures in progress.
LEMMA EndKeeps ==
  ASSUME IInv, NEW c \in Capturers, EndCapture(c), UNCHANGED data
  PROVE  Closed(data)' /\ NamedStored' /\ NamedCaptured' /\ SecretsFound' /\ QuietCurrent'
<1>1. Closed(data)'
  BY Zenon DEF IInv
<1>2. NamedStored'
  <2>1. UNCHANGED undeleted /\ (\A j \in Kinds : ~Read(c, j)')
    BY Zenon, EndFact
  <2>2. \A d \in Capturers \ {c} : got'[d] = got[d] /\ \A j \in Kinds : Read(d, j)' <=> Read(d, j)
    BY Zenon, EndFact
  <2>3. QED  BY Zenon, <2>1, <2>2 DEF IInv, NamedStored
<1>3. NamedCaptured'
  <2> SUFFICES ASSUME NEW d \in Capturers, undeleted[d], NEW j \in Kinds, NEW l \in Kinds,
                      Read(d, j)', Read(d, l)', <<j, l>> \in Guaranteed,
                      NEW r \in Named(got'[d], j), r[1] = l
               PROVE  Holds(got'[d], r)
    <3>1. UNCHANGED undeleted
      BY Zenon, EndFact
    <3>2. QED  BY Zenon, <3>1 DEF NamedCaptured
  <2>1. d # c /\ got'[d] = got[d] /\ Read(d, j) /\ Read(d, l)
    BY Zenon, EndFact
  <2>2. QED  BY Zenon, <2>1 DEF IInv, NamedCaptured
<1>4. SecretsFound'
  <2>1. step'[c] = 0
    BY Zenon, EndFact
  <2>2. \A d \in Capturers \ {c} :
          step'[d] = step[d] /\ got'[d] = got[d] /\ wanted'[d] = wanted[d]
    BY Zenon, EndFact
  <2> SUFFICES ASSUME NEW d \in Capturers, step'[d] \in {6, Saving}, NEW j \in Listed,
                      NEW r \in Named(got'[d], j), r[1] = "secrets"
               PROVE  (step'[d] = 6 /\ r[2] \in wanted'[d]) \/ Holds(got'[d], r)
    BY Zenon DEF SecretsFound
  <2>3. d # c
    BY <2>1 DEF Saving
  <2>4. QED  BY Zenon, <2>2, <2>3 DEF IInv, SecretsFound
<1>5. QuietCurrent'
  <2>1. UNCHANGED quiet /\ (\A j \in Kinds : ~Read(c, j)')
    BY Zenon, EndFact
  <2>2. \A d \in Capturers \ {c} : got'[d] = got[d] /\ \A j \in Kinds : Read(d, j)' <=> Read(d, j)
    BY Zenon, EndFact
  <2>3. QED  BY <2>1, <2>2 DEF IInv, QuietCurrent
<1>6. QED  BY Zenon, <1>1, <1>2, <1>3, <1>4, <1>5

LEMMA ReadSecretIInv ==
  ASSUME IInv, NEW c \in Capturers, NEW i \in Ids, ReadSecret(c, i)
  PROVE  IInv'
<1>1. UNCHANGED <<storeVars, whole>>
  BY Zenon DEF ReadSecret
<1>2. WholeIssued' /\ LaterReferencesHeld' /\ StoreTypeOK' /\ Closed(data)'
  <2>1. StoreTypeOK'
    BY Zenon, <1>1 DEF storeVars, IInv, TypeOK, StoreTypeOK
  <2>2. WholeIssued' /\ LaterReferencesHeld'
    <3>1. UNCHANGED <<snapshots, whole, issued>>
      BY Zenon, <1>1 DEF storeVars
    <3>2. WholeIssued'
      BY Zenon, <3>1 DEF IInv, WholeIssued
    <3>3. LaterReferencesHeld'
      BY Zenon, <3>1 DEF IInv, LaterReferencesHeld
    <3>4. QED  BY Zenon, <3>2, <3>3
  <2>3. Closed(data)'
    BY Zenon, <1>1 DEF storeVars, IInv
  <2>4. QED  BY Zenon, <2>1, <2>2, <2>3
<1>3. CASE data["secrets"][i] = Absent
  <2>1. EndCapture(c)
    BY Zenon, <1>3 DEF ReadSecret
  <2>2. TypeOK'
    BY Zenon, <2>1, <1>1, <1>2, EndFact DEF IInv, TypeOK
  <2>3. UNCHANGED data
    BY Zenon, <1>1 DEF storeVars
  <2>4. QED  BY Zenon, <1>2, <2>1, <2>2, <2>3, EndKeeps DEF IInv
<1>4. CASE data["secrets"][i] # Absent
  <2> DEFINE g == got[c]
  <2>1. /\ got' = [got EXCEPT ![c]["secrets"][i] = data["secrets"][i]]
        /\ wanted' = [wanted EXCEPT ![c] = @ \ {i}]
        /\ UNCHANGED <<step, quiet, undeleted, data>>
        /\ step[c] = 6
    BY Zenon, <1>4, OrderFact DEF ReadSecret, storeVars
  <2>2. got' \in [Capturers -> Content]
    <3>1. got \in [Capturers -> Content] /\ data \in Content
      BY Zenon DEF IInv, TypeOK, StoreTypeOK
    <3>2. data["secrets"][i] \in Values \cup {Absent}
      BY <3>1, OrderFact DEF Content, Collection
    <3>3. got[c]["secrets"] \in Collection
      BY <3>1, OrderFact DEF Content
    <3>4. [got[c]["secrets"] EXCEPT ![i] = data["secrets"][i]] \in Collection
      BY Zenon, <3>2, <3>3 DEF Collection
    <3>5. [got[c] EXCEPT !["secrets"] = [got[c]["secrets"] EXCEPT ![i] = data["secrets"][i]]]
            \in Content
      BY Zenon, <3>1, <3>4, OrderFact DEF Content
    <3>6. QED  BY Zenon, <3>1, <3>5, <2>1
  <2>3. wanted' \in [Capturers -> SUBSET Ids]
    BY Zenon, <2>1 DEF IInv, TypeOK
  <2>4. TypeOK'
    BY Zenon, <1>1, <1>2, <2>1, <2>2 DEF IInv, TypeOK
  <2>5. /\ \A j \in Listed : got'[c][j] = got[c][j]
        /\ got'[c]["secrets"] = [got[c]["secrets"] EXCEPT ![i] = data["secrets"][i]]
        /\ wanted'[c] = wanted[c] \ {i}
        /\ \A d \in Capturers \ {c} : got'[d] = got[d] /\ wanted'[d] = wanted[d]
    BY Zenon, <2>1, OrderFact DEF IInv, TypeOK, Content
  <2>6. \A d \in Capturers, j \in Kinds : Read(d, j)' <=> Read(d, j)
    BY Zenon, <2>1 DEF Read
  <2>7. \A d \in Capturers, j \in Listed : Named(got'[d], j) = Named(got[d], j)
    <3>1. \A d \in Capturers, j \in Listed : got'[d][j] = got[d][j]
      BY Zenon, <2>5
    <3>2. QED  BY <3>1, NamedSame
  <2>8. \A d \in Capturers, l \in Listed : got'[d][l] = got[d][l]
    BY Zenon, <2>5
  <2>9. NamedStored'
    <3> SUFFICES ASSUME NEW d \in Capturers, undeleted[d], NEW j \in Kinds, Read(d, j)',
                        NEW r \in Named(got'[d], j)
                 PROVE  Holds(data, r)
      BY Zenon, <2>1 DEF NamedStored
    <3>1. j \in Listed /\ Read(d, j)
      BY Zenon, <2>6 DEF Read
    <3>2. QED  BY Zenon, <3>1, <2>7 DEF IInv, NamedStored
  <2>10. NamedCaptured'
    <3> SUFFICES ASSUME NEW d \in Capturers, undeleted[d], NEW j \in Kinds, NEW l \in Kinds,
                        Read(d, j)', Read(d, l)', <<j, l>> \in Guaranteed,
                        NEW r \in Named(got'[d], j), r[1] = l
                 PROVE  Holds(got'[d], r)
      BY ZenonT(30), <2>1 DEF NamedCaptured, Holds
    <3>1. j \in Listed /\ l \in Listed /\ Read(d, j) /\ Read(d, l)
      BY Zenon, <2>6 DEF Read
    <3>2. Holds(got[d], r)
      BY Zenon, <3>1, <2>7 DEF IInv, NamedCaptured
    <3>3. QED  BY ZenonT(30), <3>1, <3>2, <2>8 DEF Holds
  <2>11. SecretsFound'
    <3> SUFFICES ASSUME NEW d \in Capturers, step[d] \in {6, Saving}, NEW j \in Listed,
                        NEW r \in Named(got'[d], j), r[1] = "secrets"
                 PROVE  (step[d] = 6 /\ r[2] \in wanted'[d]) \/ Holds(got'[d], r)
      BY ZenonT(30), <2>1 DEF SecretsFound, Holds
    <3>1. (step[d] = 6 /\ r[2] \in wanted[d]) \/ Holds(got[d], r)
      BY Zenon, <2>7 DEF IInv, SecretsFound
    <3>2. CASE d # c
      BY Zenon, <3>1, <3>2, <2>5
    <3>3. CASE d = c
      <4>1. r[2] \in Ids
        BY Zenon, <2>2, NamedPairs, OrderFact
      <4>2. got[c]["secrets"] \in Collection
        BY OrderFact DEF IInv, TypeOK, Content
      <4>3. CASE r[2] = i
        BY <4>3, <4>2, <3>3, <2>5, <1>4 DEF Holds, Collection
      <4>4. CASE r[2] # i
        <5>1. got'[c]["secrets"][r[2]] = got[c]["secrets"][r[2]]
          BY <4>4, <2>5
        <5>2. r[2] \in wanted[c] => r[2] \in wanted'[c]
          BY Zenon, <4>4, <2>5
        <5>3. QED  BY Zenon, <5>1, <5>2, <3>1, <3>3 DEF Holds
      <4>5. QED  BY Zenon, <4>3, <4>4
    <3>4. QED  BY Zenon, <3>2, <3>3
  <2>12. QuietCurrent'
    <3>1. \A d \in Capturers, j \in Kinds : Read(d, j) => j \in Listed
      BY Zenon DEF Read
    <3>2. QED  BY <3>1, <2>1, <2>6, <2>8 DEF IInv, QuietCurrent
  <2>13. QED  BY Zenon, <1>2, <2>4, <2>9, <2>10, <2>11, <2>12 DEF IInv
<1>5. QED  BY Zenon, <1>3, <1>4

----------------------------------------------------------------------------
LEMMA ResolvedIInv ==
  ASSUME IInv, NEW c \in Capturers, Resolved(c)
  PROVE  IInv'
<1>1. /\ UNCHANGED <<data, snapshots, issued, got, wanted, quiet, undeleted, whole>>
      /\ step[c] = 6 /\ wanted[c] = {} /\ step' \in [Capturers -> 0..7] /\ step'[c] = 7
      /\ \A d \in Capturers \ {c} : step'[d] = step[d]
  BY OrderFact DEF Resolved, storeVars, history, Saving, IInv, TypeOK
<1>2. TypeOK'
  BY Zenon, <1>1 DEF Resolved, storeVars, IInv, TypeOK, StoreTypeOK
<1>3. \A d \in Capturers, j \in Kinds : Read(d, j)' <=> Read(d, j)
  <2>1. \A j \in Listed : CaptureOrder[j] < 6 /\ CaptureOrder[j] < 7
    BY OrderFact
  <2>2. \A j \in Kinds : Read(c, j)' <=> Read(c, j)
    BY Zenon, <1>1, <2>1 DEF Read
  <2>3. \A d \in Capturers \ {c}, j \in Kinds : Read(d, j)' <=> Read(d, j)
    BY Zenon, <1>1 DEF Read
  <2>4. QED  BY Zenon, <2>2, <2>3
<1>4. Closed(data)' /\ WholeIssued' /\ LaterReferencesHeld'
  BY Zenon, <1>1 DEF IInv, Closed, WholeIssued, LaterReferencesHeld
<1>5. NamedStored'
  BY Zenon, <1>1, <1>3 DEF IInv, NamedStored
<1>6. NamedCaptured'
  BY <1>1, <1>3 DEF IInv, NamedCaptured
<1>7. SecretsFound'
  BY <1>1 DEF IInv, SecretsFound
<1>8. QuietCurrent'
  BY Zenon, <1>1, <1>3 DEF IInv, QuietCurrent
<1>9. QED  BY Zenon, <1>2, <1>4, <1>5, <1>6, <1>7, <1>8 DEF IInv

----------------------------------------------------------------------------
\* What a finished capture holds, if nothing was deleted meanwhile.
LEMMA CapturedWhole ==
  ASSUME IInv, NEW c \in Capturers, step[c] = Saving, undeleted[c],
         NEW k \in Listed, NEW r \in Named(got[c], k), <<k, r[1]>> \in Guaranteed
  PROVE  Holds(got[c], r)
<1>1. got[c] \in Content /\ k \in Kinds
  BY Zenon, OrderFact DEF IInv, TypeOK
<1>2. r[1] \in Kinds
  BY Zenon, <1>1, NamedPairs
<1>3. CASE r[1] = "secrets"
  BY <1>3 DEF IInv, SecretsFound, Saving
<1>4. CASE r[1] # "secrets"
  <2>1. r[1] \in Listed
    BY Zenon, <1>2, <1>4, OrderFact
  <2>2. Read(c, k) /\ Read(c, r[1])
    <3>1. \A j \in Listed : CaptureOrder[j] < 7
      BY OrderFact
    <3>2. QED  BY Zenon, <3>1, <2>1 DEF Read, Saving
  <2>3. QED  BY Zenon, <1>1, <1>2, <2>2 DEF IInv, NamedCaptured
<1>5. QED  BY Zenon, <1>3, <1>4

LEMMA SaveCaptureIInv ==
  ASSUME IInv, NEW c \in Capturers, NEW s \in SnapshotIds, SaveCapture(c, s)
  PROVE  IInv'
<1>1. c \in Writers /\ got[c] \in Content
  BY Zenon, CapturersAssumption DEF IInv, TypeOK
<1>2. StoreTypeOK'
  BY Zenon, <1>1, WriteFact DEF AnyWrite, IInv, TypeOK, SaveCapture
<1>3. UNCHANGED data /\ snapshots' = [snapshots EXCEPT ![s] = got[c]]
      /\ issued' = issued \cup {s} /\ s \notin issued
  BY Zenon DEF SaveSnapshot, SaveCapture
<1>4. TypeOK'
  BY Zenon, <1>2, EndFact DEF IInv, TypeOK, SaveCapture
<1>5. WholeIssued'
  BY Zenon, <1>3 DEF IInv, WholeIssued, SaveCapture
<1>6. LaterReferencesHeld'
  <2> SUFFICES ASSUME NEW t \in whole', snapshots'[t] # Absent, NEW k \in Listed,
                      NEW r \in Named(snapshots'[t], k), <<k, r[1]>> \in Guaranteed
               PROVE  Holds(snapshots'[t], r)
    BY Zenon DEF LaterReferencesHeld
  <2>1. CASE t = s
    <3>1. undeleted[c]
      BY Zenon, <2>1, <1>3 DEF IInv, WholeIssued, SaveCapture
    <3>2. snapshots'[t] = got[c]
      BY Zenon, <2>1, <1>3 DEF IInv, TypeOK, StoreTypeOK
    <3>3. QED  BY Zenon, <3>1, <3>2, CapturedWhole DEF SaveCapture
  <2>2. CASE t # s
    <3>1. t \in whole /\ snapshots'[t] = snapshots[t]
      BY <2>2, <1>3 DEF SaveCapture
    <3>2. QED  BY Zenon, <3>1 DEF IInv, LaterReferencesHeld
  <2>3. QED  BY Zenon, <2>1, <2>2
<1>7. QED  BY Zenon, <1>3, <1>4, <1>5, <1>6, EndKeeps DEF IInv, SaveCapture

----------------------------------------------------------------------------
\* A write of another request: no capture in progress stays quiet, and none
\* moves.
LEMMA ObserveFact ==
  ASSUME IInv, StoreTypeOK', Observe, UNCHANGED <<captureVars, snapshots, issued, whole>>,
         undeleted' \in [Capturers -> BOOLEAN]
  PROVE  /\ TypeOK' /\ QuietCurrent' /\ SecretsFound' /\ WholeIssued' /\ LaterReferencesHeld'
         /\ \A c \in Capturers, k \in Kinds : Read(c, k)' <=> Read(c, k)
<1>1. UNCHANGED <<step, got, wanted>>
  BY Zenon DEF captureVars
<1>2. quiet' = [c \in Capturers |-> quiet[c] /\ step[c] = 0]
  BY Zenon DEF Observe, Waiting
<1>3. quiet' \in [Capturers -> BOOLEAN]
  BY Zenon, <1>2
<1>5. TypeOK'
  BY Zenon, <1>1, <1>3 DEF IInv, TypeOK
<1>6. \A c \in Capturers, k \in Kinds : Read(c, k)' <=> Read(c, k)
  BY Zenon, <1>1 DEF Read
<1>7. QuietCurrent'
  <2>1. \A c \in Capturers, k \in Kinds : step[c] = 0 => ~Read(c, k)
    BY OrderFact DEF Read
  <2>2. \A c \in Capturers : quiet'[c] => step[c] = 0
    BY Zenon, <1>2
  <2>3. QED  BY Zenon, <1>6, <2>1, <2>2 DEF QuietCurrent
<1>8. SecretsFound'
  BY Zenon, <1>1 DEF IInv, SecretsFound
<1>9. WholeIssued' /\ LaterReferencesHeld'
  BY Zenon DEF IInv, WholeIssued, LaterReferencesHeld
<1>10. QED  BY Zenon, <1>5, <1>6, <1>7, <1>8, <1>9

LEMMA SaveEntityIInv ==
  ASSUME IInv, NEW w \in Writers, NEW k \in Kinds, NEW i \in Ids, NEW v \in Values,
         SaveEntity(w, k, i, v)
  PROVE  IInv'
<1>1. StoreTypeOK'
  BY Zenon, WriteFact DEF AnyWrite, EntityWrite, IInv, TypeOK, SaveEntity
<1>2. data' = [data EXCEPT ![k][i] = v] /\ UNCHANGED <<snapshots, issued>>
  BY Zenon DEF Save, SaveEntity
<1>3. /\ TypeOK' /\ QuietCurrent' /\ SecretsFound' /\ WholeIssued' /\ LaterReferencesHeld'
      /\ \A c \in Capturers, j \in Kinds : Read(c, j)' <=> Read(c, j)
  <2>1. undeleted' \in [Capturers -> BOOLEAN]
    BY Zenon DEF IInv, TypeOK, SaveEntity
  <2>2. UNCHANGED <<captureVars, snapshots, issued, whole>>
    BY Zenon, <1>2 DEF SaveEntity
  <2>3. QED  BY Zenon, <1>1, <2>1, <2>2, ObserveFact DEF SaveEntity
<1>4. data \in Content /\ v # Absent
  BY Zenon, AbsentAssumption DEF IInv, TypeOK, StoreTypeOK
<1>5. ASSUME NEW r \in Pairs, Holds(data, r)
      PROVE  Holds(data', r)
  BY <1>2, <1>4, <1>5 DEF Holds
<1>6. Closed(data')
  <2> SUFFICES ASSUME NEW j \in Kinds, NEW r \in Named(data', j)
               PROVE  Holds(data', r)
    BY Zenon DEF Closed
  <2>1. PICK n \in Ids : data'[j][n] # Absent /\ r \in References[j][data'[j][n]]
    BY Zenon, NamedFact
  <2>2. r \in Pairs
    BY Zenon, <1>1, NamedPairs DEF StoreTypeOK
  <2>3. CASE j = k /\ n = i
    <3>1. data'[j][n] = v
      BY Zenon, <2>3, <1>2, <1>4 DEF Content, Collection
    <3>2. QED  BY Zenon, <3>1, <2>1, <2>2, <2>3, <1>5 DEF SaveEntity
  <2>4. CASE ~(j = k /\ n = i)
    <3>1. data'[j][n] = data[j][n]
      BY <2>4, <1>2
    <3>2. r \in Named(data, j)
      BY Zenon, <3>1, <2>1, NamedFact
    <3>3. QED  BY Zenon, <3>2, <2>2, <1>5 DEF IInv, Closed
  <2>5. QED  BY Zenon, <2>3, <2>4
<1>7. UNCHANGED <<got, undeleted>>
  BY Zenon DEF captureVars, SaveEntity
<1>8. NamedStored'
  <2> SUFFICES ASSUME NEW c \in Capturers, undeleted[c], NEW j \in Kinds, Read(c, j),
                      NEW r \in Named(got[c], j)
               PROVE  Holds(data', r)
    BY Zenon, <1>3, <1>7 DEF NamedStored
  <2>1. r \in Pairs
    BY ZenonT(30), NamedPairs DEF IInv, TypeOK
  <2>2. QED  BY Zenon, <2>1, <1>5 DEF IInv, NamedStored
<1>9. NamedCaptured'
  <2>1. \A c \in Capturers, n \in Kinds : Read(c, n)' <=> Read(c, n)
    BY Zenon, <1>3
  <2> SUFFICES ASSUME NEW c \in Capturers, undeleted[c], NEW j \in Kinds, NEW l \in Kinds,
                      Read(c, j)', Read(c, l)', <<j, l>> \in Guaranteed,
                      NEW r \in Named(got[c], j), r[1] = l
               PROVE  Holds(got[c], r)
    BY Zenon, <1>7 DEF NamedCaptured, Guaranteed, SaveEntity
  <2>2. QED  BY Zenon, <2>1 DEF IInv, NamedCaptured
<1>10. Closed(data)'
  BY Zenon, <1>6
<1>11. QED  BY Zenon, <1>3, <1>8, <1>9, <1>10 DEF IInv

LEMMA DeleteEntityIInv ==
  ASSUME IInv, NEW w \in Writers, NEW k \in Kinds, NEW i \in Ids, DeleteEntity(w, k, i)
  PROVE  IInv'
<1>1. StoreTypeOK'
  BY Zenon, WriteFact DEF AnyWrite, EntityWrite, IInv, TypeOK, DeleteEntity
<1>2. data' = [data EXCEPT ![k][i] = Absent] /\ UNCHANGED <<snapshots, issued>>
  BY Zenon DEF Delete, DeleteEntity
<1>3. undeleted' = [c \in Capturers |-> undeleted[c] /\ step[c] = 0]
  BY Zenon DEF Waiting, DeleteEntity
<1>4. /\ TypeOK' /\ QuietCurrent' /\ SecretsFound' /\ WholeIssued' /\ LaterReferencesHeld'
      /\ \A c \in Capturers, j \in Kinds : Read(c, j)' <=> Read(c, j)
  <2>1. undeleted' \in [Capturers -> BOOLEAN]
    BY Zenon, <1>3 DEF IInv
  <2>2. UNCHANGED <<captureVars, snapshots, issued, whole>>
    BY Zenon, <1>2 DEF DeleteEntity
  <2>3. QED  BY Zenon, <1>1, <2>2, ObserveFact DEF DeleteEntity
<1>5. data \in Content
  BY Zenon DEF IInv, TypeOK, StoreTypeOK
<1>6. Closed(data')
  <2> SUFFICES ASSUME NEW j \in Kinds, NEW r \in Named(data', j)
               PROVE  Holds(data', r)
    BY Zenon DEF Closed
  <2>1. PICK n \in Ids : data'[j][n] # Absent /\ r \in References[j][data'[j][n]]
    BY Zenon, NamedFact
  <2>2. r \in Pairs
    BY Zenon, <1>1, NamedPairs DEF StoreTypeOK
  <2>3. data'[j][n] = data[j][n]
    BY <2>1, <1>2, <1>5 DEF Content
  <2>4. r \in Named(data, j)
    BY Zenon, <2>1, <2>3, NamedFact
  <2>5. r # <<k, i>> /\ Holds(data, r)
    BY Zenon, <2>4 DEF IInv, Closed, DeleteEntity
  <2>6. QED  BY <2>2, <2>5, <1>2 DEF Pairs, Holds
<1>7. UNCHANGED got
  BY Zenon DEF captureVars, DeleteEntity
<1>8. \A c \in Capturers, j \in Kinds : undeleted'[c] => ~Read(c, j)'
  <2>1. \A c \in Capturers, j \in Kinds : step[c] = 0 => ~Read(c, j)
    BY OrderFact DEF Read
  <2>2. QED  BY Zenon, <2>1, <1>3, <1>4
<1>9. NamedStored' /\ NamedCaptured'
  BY Zenon, <1>8 DEF NamedStored, NamedCaptured
<1>10. Closed(data)'
  BY Zenon, <1>6
<1>11. QED  BY Zenon, <1>4, <1>9, <1>10 DEF IInv

LEMMA UnchangedIInv ==
  ASSUME IInv, StoreTypeOK', UNCHANGED <<data, snapshots, issued, captureVars, history>>
  PROVE  IInv'
<1>1. TypeOK'
  BY Zenon DEF IInv, TypeOK, captureVars, history
<1>2. Closed(data)' /\ WholeIssued' /\ LaterReferencesHeld'
  <2>1. Closed(data)'
    BY Zenon DEF IInv
  <2>2. WholeIssued'
    BY Zenon DEF IInv, WholeIssued, history
  <2>3. LaterReferencesHeld'
    BY Zenon DEF IInv, LaterReferencesHeld, history
  <2>4. QED  BY Zenon, <2>1, <2>2, <2>3
<1>3. \A c \in Capturers, k \in Kinds : Read(c, k)' <=> Read(c, k)
  BY Zenon DEF Read, captureVars
<1>4. NamedStored'
  BY Zenon, <1>3 DEF IInv, NamedStored, captureVars, history
<1>5. NamedCaptured'
  BY Zenon, <1>3 DEF IInv, NamedCaptured, captureVars, history
<1>6. SecretsFound'
  BY Zenon DEF IInv, SecretsFound, captureVars
<1>7. QuietCurrent'
  BY Zenon, <1>3 DEF IInv, QuietCurrent, captureVars, history
<1>8. QED  BY Zenon, <1>1, <1>2, <1>4, <1>5, <1>6, <1>7 DEF IInv

LEMMA Inductive == IInv /\ [Next]_vars => IInv'
<1> SUFFICES ASSUME IInv, [Next]_vars PROVE IInv'
  BY Zenon
<1>1. CASE \E c \in Capturers : CaptureStep(c)
  BY Zenon, <1>1, BeginIInv, ReadKindIInv, ReadSecretIInv, ResolvedIInv, SaveCaptureIInv
  DEF CaptureStep
<1>2. CASE \E w \in Writers \ Capturers : ClientStep(w)
  BY Zenon, <1>2, SaveEntityIInv, DeleteEntityIInv DEF ClientStep
<1>3. CASE PublishStep
  <2>1. PICK w \in Writers : publish(w)
    BY Zenon, <1>3 DEF PublishStep
  <2>2. StoreTypeOK' /\ UNCHANGED <<data, snapshots, issued>>
    BY Zenon, <2>1, PublishFact DEF IInv, TypeOK, publish
  <2>3. QED  BY Zenon, <1>3, <2>2, UnchangedIInv DEF PublishStep
<1>4. CASE UNCHANGED vars
  <2>1. StoreTypeOK' /\ UNCHANGED <<data, snapshots, issued, captureVars, history>>
    BY Zenon, <1>4 DEF vars, storeVars, IInv, TypeOK, StoreTypeOK
  <2>2. QED  BY Zenon, <2>1, UnchangedIInv
<1>5. QED  BY Zenon, <1>1, <1>2, <1>3, <1>4 DEF Next

----------------------------------------------------------------------------
(* Every variable of CreateSnapshot and of the store keeps its type, for    *)
(* any references between entities and any number of requests.              *)
THEOREM CaptureTypeCorrect == Spec => []TypeOK
<1>1. IInv => TypeOK
  BY Zenon DEF IInv
<1>2. QED  BY <1>1, InitIInv, Inductive, PTL DEF Spec

(* buildSnapshot's reads are not one transaction, and yet what a snapshot's *)
(* entities name of a kind that is read after them is in the snapshot,      *)
(* unless something was deleted while CreateSnapshot ran.                   *)
THEOREM CaptureLaterReferencesHeld == Spec => []LaterReferencesHeld
<1>1. IInv => LaterReferencesHeld
  BY Zenon DEF IInv
<1>2. QED  BY <1>1, InitIInv, Inductive, PTL DEF Spec

(* When nothing is written while CreateSnapshot runs, what it saves equals  *)
(* the store's configuration, kind by kind.                                 *)
THEOREM CaptureQuietExact == Spec => QuietCaptureExact
<1>1. ASSUME IInv, NEW c \in Capturers, NEW s \in SnapshotIds, SaveCapture(c, s), quiet[c],
             NEW k \in Listed
      PROVE  snapshots'[s][k] = data[k]
  <2>1. snapshots'[s] = got[c]
    BY Zenon, <1>1 DEF SaveCapture, SaveSnapshot, IInv, TypeOK, StoreTypeOK
  <2>2. Read(c, k)
    <3>1. CaptureOrder[k] < 7
      BY OrderFact
    <3>2. QED  BY Zenon, <3>1, <1>1 DEF Read, SaveCapture, Saving
  <2>3. k \in Kinds
    BY Zenon, OrderFact
  <2>4. QED  BY Zenon, <1>1, <2>1, <2>2, <2>3 DEF IInv, QuietCurrent
<1> DEFINE Step == \A c \in Capturers, s \in SnapshotIds :
                     SaveCapture(c, s) /\ quiet[c] =>
                       \A k \in Listed : snapshots'[s][k] = data[k]
<1>2. IInv => Step
  BY Zenon, <1>1
<1>3. QED  BY <1>2, InitIInv, Inductive, PTL DEF Spec, QuietCaptureExact
=============================================================================
