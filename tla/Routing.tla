------------------------------ MODULE Routing ------------------------------
(***************************************************************************)
(* internal/routing/match.go and the three places that look for the route  *)
(* of a path: the router, the rate limiter and the access log.  They get   *)
(* the same table but scan it differently.                                 *)
(*                                                                         *)
(* A path is a sequence of characters; only "/" matters.  A route is a     *)
(* record with (at least) its PathPrefix and its RateOverride, the set of  *)
(* at most one limit.                                                      *)
(***************************************************************************)
EXTENDS Integers, Sequences, FiniteSets, SequencesExt

HasPrefix(path, prefix) ==
    Len(prefix) <= Len(path) /\ \A i \in 1..Len(prefix) : path[i] = prefix[i]

\* Fault: no boundary after the prefix.
MatchesAnyPrefix(path, prefix) == prefix # <<>> /\ HasPrefix(path, prefix)

MatchesPrefix(path, prefix) ==
    /\ prefix # <<>>
    /\ HasPrefix(path, prefix)
    /\ \/ Len(path) = Len(prefix)
       \/ prefix[Len(prefix)] = "/"
       \/ path[Len(prefix) + 1] = "/"

\* The routes as proxy.New leaves them: a permutation of the table with the longest
\* prefixes first (sort.Slice is not stable, so in any such order).
Sorted(routes) ==
    \A i, j \in DOMAIN routes : i < j => Len(routes[i].PathPrefix) >= Len(routes[j].PathPrefix)

\* Router.matchRoute: the first route that matches, as a set of at most one.
matchRoute(routes, path) ==
    {routes[i] : i \in {i \in DOMAIN routes :
        /\ MatchesPrefix(path, routes[i].PathPrefix)
        /\ \A j \in 1..(i - 1) : ~MatchesPrefix(path, routes[j].PathPrefix)}}

\* The test of the two scans below, for the best prefix so far.
Better(path, route, best) ==
    MatchesPrefix(path, route.PathPrefix) /\ Len(route.PathPrefix) > Len(best)

\* Limiter.limitsForPath, one turn of its loop: the best prefix and the override of the
\* last route that was the best so far and has one.
limitTurn(path, best, route) ==
    IF Better(path, route, best.prefix)
    THEN [prefix |-> route.PathPrefix,
          override |-> IF route.RateOverride # {} THEN route.RateOverride ELSE best.override]
    ELSE best

limitsForPath(routes, path) ==
    LET best[i \in 0..Len(routes)] ==
            IF i = 0 THEN [prefix |-> <<>>, override |-> {}]
            ELSE limitTurn(path, best[i - 1], routes[i])
    IN  best[Len(routes)]

\* routeLogLevel, one turn of its loop, and the route whose level is used, as a set of at
\* most one.
levelTurn(path, best, route) ==
    IF Better(path, route, best.prefix) THEN [prefix |-> route.PathPrefix, of |-> {route}] ELSE best

routeLogLevel(routes, path) ==
    LET best[i \in 0..Len(routes)] ==
            IF i = 0 THEN [prefix |-> <<>>, of |-> {}]
            ELSE levelTurn(path, best[i - 1], routes[i])
    IN  best[Len(routes)].of

-----------------------------------------------------------------------------
\* The reference: the beginnings of a path that end where one of its segments does,
\* with or without the slash, and the routes that have one of them for a prefix.
Beginnings(path) ==
    {SubSeq(path, 1, n) : n \in {n \in 1..Len(path) :
        n = Len(path) \/ path[n] = "/" \/ path[n + 1] = "/"}}

Matching(routes, path) == {r \in ToSet(routes) : r.PathPrefix \in Beginnings(path)}

Longest(routes, path) ==
    {r \in Matching(routes, path) :
        \A s \in Matching(routes, path) : Len(s.PathPrefix) <= Len(r.PathPrefix)}
=============================================================================
