------------------------------ MODULE RouteTable ------------------------------
(***************************************************************************)
(* The routing table (server/internal/proxy: table.go, router.go): how     *)
(* routes and groups are compiled into a list, and how a request is        *)
(* matched against it.  A path is a sequence of characters.  A regular     *)
(* expression is the sequence of its alternatives (x|y), each a literal;   *)
(* that is enough to tell apart what the composition with a prefix and the *)
(* anchor do to it.                                                        *)
(*                                                                         *)
(* A route is [id, kind, text, methods, hosts, compiles]: kind is "path",  *)
(* "prefix", "regex" or "none"; compiles is false if a regular expression  *)
(* or a CEL expression of it is invalid.  A group is [kind, text, hosts,   *)
(* routes, compiles], kind "prefix" or "regex".  An entity has at most one *)
(* kind of path.                                                           *)
(***************************************************************************)
EXTENDS Naturals, Sequences, Functions

\* strings.HasPrefix.
HasPrefix(s, prefix) == Len(prefix) <= Len(s) /\ SubSeq(s, 1, Len(prefix)) = prefix

\* The alternatives of "^" + pattern: the anchor binds to the first one.
Anchored(alternatives) ==
  {[anchored |-> i = 1, text |-> alternatives[i]] : i \in DOMAIN alternatives}

\* Mutant of Composed: the two expressions are put together without parentheses.
ComposedUngrouped(outer, inner) ==
  Anchored(SubSeq(outer, 1, Len(outer) - 1) \o <<outer[Len(outer)] \o Head(inner)>> \o Tail(inner))

\* "^(?:G)(?:R)" and "^(?:G)R" with the alternatives of both in parentheses.
Composed(outer, inner) ==
  {[anchored |-> TRUE, text |-> o \o i] : o \in Range(outer), i \in Range(inner)}

NoGroup == [kind |-> "prefix", text |-> << >>, hosts |-> {}, routes |-> << >>,
            compiles |-> TRUE]

\* compileRoute: the path of group and route, and the union of their hostnames.
compileRoute(r, g) ==
  LET compiled(kind, pattern) ==
        [route |-> r, group |-> g, kind |-> kind, pattern |-> pattern,
         methods |-> r.methods, hosts |-> g.hosts \union r.hosts]
  IN CASE g.kind = "regex" /\ r.kind = "none" -> compiled("regex", Anchored(g.text))
       [] g.kind = "regex" /\ r.kind = "regex" -> compiled("regex", Composed(g.text, r.text))
       [] g.kind = "regex" /\ r.kind \in {"path", "prefix"} ->
            compiled("regex", Composed(g.text, <<r.text>>))
       [] g.kind = "prefix" /\ r.kind \in {"path", "prefix"} -> compiled(r.kind, g.text \o r.text)
       [] g.kind = "prefix" /\ r.kind = "regex" ->
            compiled("regex", Anchored(<<g.text \o Head(r.text)>> \o Tail(r.text)))
       [] OTHER -> compiled("prefix", IF g.text = << >> THEN <<"/">> ELSE g.text)

\* BuildTable: the routes of the groups, group by group, then the routes that
\* no group lists; a route that does not compile is left out.
BuildTable(routes, groups) ==
  LET byID(id) == CHOOSE r \in Range(routes) : r.id = id
      compiled(rs, g) == LET ok == SelectSeq(rs, LAMBDA r : r.compiles /\ g.compiles)
                         IN [i \in DOMAIN ok |-> compileRoute(ok[i], g)]
      listed(g) == LET known == SelectSeq(g.routes, LAMBDA id : \E r \in Range(routes) : r.id = id)
                   IN [i \in DOMAIN known |-> byID(known[i])]
      inGroups == UNION {Range(groups[i].routes) : i \in DOMAIN groups}
      alone == SelectSeq(routes, LAMBDA r : r.id \notin inGroups)
      grouped[n \in 0 .. Len(groups)] ==
        IF n = 0 THEN << >> ELSE grouped[n - 1] \o compiled(listed(groups[n]), groups[n])
  IN grouped[Len(groups)] \o compiled(alone, NoGroup)

----------------------------------------------------------------------------
\* regexp.MatchString: an alternative at the start, or anywhere if not anchored.
MatchString(pattern, path) ==
  \E a \in pattern :
    IF a.anchored THEN HasPrefix(path, a.text)
    ELSE \E k \in 1 .. Len(path) + 1 : HasPrefix(SubSeq(path, k, Len(path)), a.text)

\* compiledRoute.match; headers, query parameters and CEL are further
\* conjuncts over data the model does not have.
match(cr, request) ==
  /\ cr.hosts = {} \/ "*" \in cr.hosts \/ request.host \in cr.hosts
  /\ CASE cr.kind = "regex" -> MatchString(cr.pattern, request.path)
       [] cr.kind = "path" -> request.path = cr.pattern
       [] OTHER -> HasPrefix(request.path, cr.pattern)
  /\ cr.methods = {} \/ request.method \in cr.methods

\* Router.ServeHTTP: the index of the first route that matches, or 0.
FirstMatch(table, request) ==
  LET hits == {i \in DOMAIN table : match(table[i], request)}
  IN IF hits = {} THEN 0 ELSE CHOOSE i \in hits : \A j \in hits : i <= j
=============================================================================
