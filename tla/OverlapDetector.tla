--------------------------- MODULE OverlapDetector ---------------------------
(* The controller's detector of routes that match the same traffic           *)
(* (clients/controller/internal/dedup). A path is the sequence of its        *)
(* segments, and does not end in "/" unless it is the root; a header matcher *)
(* is [type, name, value] with its name in lower case.                       *)
EXTENDS Naturals, Sequences, SequencesExt

prefixCovers(prefix, path) == IsPrefix(prefix, path)

pathsOverlap(a, b) ==
  CASE a.type = "Exact" /\ b.type = "Exact" -> a.path = b.path
    [] a.type = "PathPrefix" /\ b.type = "PathPrefix" ->
         prefixCovers(a.path, b.path) \/ prefixCovers(b.path, a.path)
    [] a.type = "PathPrefix" /\ b.type = "Exact" -> prefixCovers(a.path, b.path)
    [] a.type = "Exact" /\ b.type = "PathPrefix" -> prefixCovers(b.path, a.path)
    [] OTHER -> FALSE

\* An empty method stands for all of them.
methodsOverlap(m, n) == m = "" \/ n = "" \/ m = n

\* A type that is not given means Exact.
normalizeHeaders(headers) ==
  {[h EXCEPT !.type = IF @ = "" THEN "Exact" ELSE @] : h \in headers}

sameHeaders(g, h) == normalizeHeaders(g) = normalizeHeaders(h)

entriesOverlap(a, b) ==
  /\ methodsOverlap(a.method, b.method)
  /\ sameHeaders(a.headers, b.headers)
  /\ pathsOverlap(a, b)

\* The entries of one route: every match of every rule on every hostname. No
\* match means the prefix "/", no hostname means "*", and regular expressions
\* are left out.
DefaultMatch == [type |-> "PathPrefix", path |-> << >>, method |-> "", headers |-> {}]

MatchesOf(rule) == IF rule.matches = << >> THEN <<DefaultMatch>> ELSE rule.matches

Hostnames(input) == IF input.hostnames = {} THEN {"*"} ELSE input.hostnames

Entries(source, input) ==
  {[type |-> m.type, path |-> m.path, method |-> m.method, headers |-> m.headers,
    host |-> h, source |-> source] :
     m \in {n \in UNION {ToSet(MatchesOf(input.rules[i])) : i \in DOMAIN input.rules} :
              n.type # "RegularExpression"},
     h \in Hostnames(input)}

\* Only entries of the same hostname and of another source are compared.
findOverlaps(registered, entry) ==
  {e \in registered : e.host = entry.host /\ e.source # entry.source /\ entriesOverlap(e, entry)}

\* Check: whether the route overlaps what is registered, and what is
\* registered after it (its entries are, whatever the answer).
Check(registered, source, input) ==
  LET entries == Entries(source, input) IN
  [overlaps |-> \E e \in entries : findOverlaps(registered, e) # {},
   registered |-> registered \cup entries]
=============================================================================
