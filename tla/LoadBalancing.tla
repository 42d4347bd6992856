---------------------------- MODULE LoadBalancing ----------------------------
(***************************************************************************)
(* The selection algorithms of the proxy (server/internal/proxy:           *)
(* balancer.go, pinning.go, endpoint.go, pool.go) as operators on the data *)
(* they select from.  A choice that the code makes with a random number is *)
(* the set of its possible results.  crc32 and md5 are external: what the  *)
(* algorithms need of them is a number for every key, which the modules    *)
(* that use these operators provide.                                       *)
(***************************************************************************)
EXTENDS Naturals, Sequences, FiniteSets, FiniteSetsExt, SequencesExt

CONSTANTS
  Nil,            \* no endpoint, no destination, no pin
  WeightModulus   \* 2^32: weights are added in a uint32

\* pickRandomEndpoint and rand.Intn over a set of endpoints.
pickRandomEndpoint(es) == IF es = {} THEN {Nil} ELSE es

----------------------------------------------------------------------------
\* A ring is a sequence of virtual nodes [hash, id] sorted by hash.
SortedRing(vnodes) == SetToSortSeq(vnodes, LAMBDA a, b : a.hash < b.hash)

\* RingHashBalancer.Build: an equal number of virtual nodes, at least one.
RingBuild(ids, ringSize, hash) ==
  LET most == ringSize \div Cardinality(ids)
      n == IF most < 1 THEN 1 ELSE most
  IN SortedRing({[hash |-> hash[id][i], id |-> id] : id \in ids, i \in 1 .. n})

\* buildDestinationRing: virtual nodes by weight, and one for weight zero.
buildDestinationRing(dests, multiplier, hash) ==
  SortedRing(UNION {
    {[hash |-> hash[d.id][i], id |-> d.id] :
       i \in 1 .. (IF d.weight * multiplier < 1 THEN 1 ELSE d.weight * multiplier)}
    : d \in Range(dests)})

\* sort.Search for the first virtual node at or after the hash, around the end.
RingSearch(ring, h) ==
  LET after == {i \in DOMAIN ring : ring[i].hash >= h}
  IN IF after = {} THEN 1 ELSE Min(after)

\* Mutant of RingPickByHash: the ring is searched among the healthy endpoints.
RingPickOfHealthy(ring, h, healthy) ==
  LET live == SelectSeq(ring, LAMBDA v : v.id \in healthy)
  IN IF live = << >> THEN {Nil} ELSE {live[RingSearch(live, h)].id}

\* RingHashBalancer.PickByHash: the ring knows every endpoint, the map given
\* to it only the healthy ones, and a miss is a nil endpoint.
RingPickByHash(ring, h, healthy) ==
  IF ring = << >> THEN pickRandomEndpoint(healthy)
  ELSE LET id == ring[RingSearch(ring, h)].id
       IN IF id \in healthy THEN {id} ELSE {Nil}

\* destinationRing.PickValid walks on until it meets a valid destination.
PickValid(ring, h, valid) ==
  LET start == RingSearch(ring, h)
      at(k) == ring[((start + k - 2) % Len(ring)) + 1].id
      hits == {k \in 1 .. Len(ring) : at(k) \in valid}
  IN IF ring = << >> \/ hits = {} THEN Nil ELSE at(Min(hits))

\* MaglevBalancer.Build fills one slot per turn, the destinations taking turns;
\* a destination whose skip leads it past every free slot never finds one.
MaglevBuild(ids, size, offset, skip) ==
  LET place[k \in 0 .. size] ==
        IF k = 0
        THEN [table |-> [c \in 0 .. size - 1 |-> Nil], next |-> offset, hangs |-> FALSE]
        ELSE LET s == place[k - 1]
                 id == ids[((k - 1) % Len(ids)) + 1]
                 slot(j) == (s.next[id] + j * skip[id]) % size
                 free == {j \in 0 .. size - 1 : s.table[slot(j)] = Nil}
             IN IF s.hangs \/ free = {} THEN [s EXCEPT !.hangs = TRUE]
                ELSE [s EXCEPT !.table[slot(Min(free))] = id,
                               !.next[id] = slot(Min(free) + 1)]
  IN place[size]

MaglevPickByHash(table, size, h, healthy) ==
  IF table[h % size] \in healthy THEN {table[h % size]} ELSE {Nil}

----------------------------------------------------------------------------
\* RoundRobinBalancer.Pick, after its counter was raised to n.
RoundRobinPick(order, n) == order[(n % Len(order)) + 1]

\* LeastRequestBalancer.Pick: the first endpoint with the smallest count.
LeastRequestPick(order, inflight) ==
  order[Min({i \in DOMAIN order :
               \A j \in DOMAIN order : inflight[order[i]] <= inflight[order[j]]})]

\* SelectDestination: weighted random; a total that wraps to zero divides by it.
SelectDestination(dests) ==
  LET total == FoldLeft(LAMBDA t, d : (t + d.weight) % WeightModulus, 0, dests)
      cumulative(k) == FoldLeft(LAMBDA t, d : (t + d.weight) % WeightModulus, 0, SubSeq(dests, 1, k))
      first(x) == {k \in DOMAIN dests : x < cumulative(k)}
  IN CASE dests = << >> -> {Nil}
       [] Len(dests) = 1 -> {dests[1].id}
       [] Len(dests) > 1 /\ (\A k \in DOMAIN dests : dests[k].weight = 0) ->
            {dests[k].id : k \in DOMAIN dests}
       [] Len(dests) > 1 /\ (\E k \in DOMAIN dests : dests[k].weight > 0) /\ total > 0 ->
            {IF first(x) = {} THEN dests[Len(dests)].id ELSE dests[Min(first(x))].id :
               x \in 0 .. total - 1}
       [] OTHER -> {"panic"}
=============================================================================
