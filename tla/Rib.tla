--------------------------------- MODULE Rib ---------------------------------
(***************************************************************************)
(* The Routing Information Base and the computation of FIB updates from it *)
(* (daemon/rib/rib.cpp, rib-entry.cpp, the computing half of               *)
(* fib-updater.cpp).  A route with ChildInherit is passed down to the      *)
(* entries below its name; a route with Capture keeps the routes from      *)
(* above out.                                                              *)
(*                                                                         *)
(* Here a RIB update is computed, applied to the FIB and to the RIB in one *)
(* step; the module FibUpdater takes these steps apart.  Of an inherited   *)
(* route only the face is kept: nothing reads its cost.  Updates for       *)
(* different pairs of name and face do not affect each other, so lists of  *)
(* them are functions on such pairs.                                       *)
(***************************************************************************)
EXTENDS Integers, Sequences, FiniteSets

CONSTANTS
    Name, Face,
    PrefixOf,     \* PrefixOf[n]: the proper prefixes of n
    Offer,        \* registrations asked for: [name, face, route]
    CounterSize,  \* the capture counter is unsigned and wraps here
    None

\* The prefixes of a name are finitely many, each one of the others or longer.
ASSUME RibAssumption ==
    /\ IsFiniteSet(Name) /\ IsFiniteSet(Face) /\ None \notin Name
    /\ PrefixOf \in [Name -> SUBSET Name]
    /\ \A n \in Name : n \notin PrefixOf[n]
    /\ \A n \in Name : \A p \in PrefixOf[n] : PrefixOf[p] \subseteq PrefixOf[n]
    /\ \A n \in Name : \A p, q \in PrefixOf[n] : p = q \/ p \in PrefixOf[q] \/ q \in PrefixOf[p]
    /\ \A o \in Offer : o.name \in Name /\ o.face \in Face
    /\ CounterSize \in Nat \ {0}

VARIABLES
    rib,          \* m_routes by face, and m_nRoutesWithCaptureSet, of each entry
    parent,       \* RibEntry::m_parent
    inherited,    \* faces of m_inheritedRoutes
    fib           \* cost of each next hop in the FIB

ribVars == <<rib, parent, inherited, fib>>

-----------------------------------------------------------------------------
\* Sequences: without the element at place j; the listings of a finite
\* set, and one of them

WithoutAt(s, j) == SubSeq(s, 1, j - 1) \o SubSeq(s, j + 1, Len(s))
Listings(S) == {s \in [1 .. Cardinality(S) -> S] : \A j, k \in DOMAIN s : s[j] = s[k] => j = k}
Listing(S) == CHOOSE s \in Listings(S) : TRUE

-----------------------------------------------------------------------------
\* One entry e: [routes: Face -> sequence of [origin, cost, inherit, capture],
\* captures]

NoEntry == [routes |-> [f \in Face |-> <<>>], captures |-> 0]
RoutesOn(e, f) == {e.routes[f][j] : j \in DOMAIN e.routes[f]}
Position(e, f, origin) == {j \in DOMAIN e.routes[f] : e.routes[f][j].origin = origin}

hasFaceId(e, f) == e.routes[f] # <<>>
FaceIds(e) == {f \in Face : hasFaceId(e, f)}
hasCapture(e) == e.captures # 0
hasChildInheritOnFaceId(e, f) == \E r \in RoutesOn(e, f) : r.inherit
getNRoutes(e) == Cardinality(UNION {{f} \X DOMAIN e.routes[f] : f \in Face})

Least(C) == CHOOSE c \in C : \A d \in C : c =< d
LowestCost(e, f) == Least({r.cost : r \in RoutesOn(e, f)})
LowestInheritCost(e, f) ==
    IF hasChildInheritOnFaceId(e, f)
    THEN Least({r.cost : r \in {q \in RoutesOn(e, f) : q.inherit}}) ELSE None

\* getRouteWithSecondLowestCostByFaceId: which of several routes of equal cost
\* std::nth_element leaves in second place is open.
SecondLowest(e, f) ==
    {r \in RoutesOn(e, f) :
        /\ Cardinality({j \in DOMAIN e.routes[f] : e.routes[f][j].cost < r.cost}) =< 1
        /\ Cardinality({j \in DOMAIN e.routes[f] : e.routes[f][j].cost =< r.cost}) >= 2}

\* RibEntry::insertRoute, and the update of an existing route in Rib::insert,
\* which leaves the counter alone
WithRoute(e, f, r) ==
    IF Position(e, f, r.origin) = {}
    THEN [routes |-> [e.routes EXCEPT ![f] = Append(@, r)],
          captures |-> IF r.capture THEN (e.captures + 1) % CounterSize ELSE e.captures]
    ELSE [e EXCEPT !.routes[f] = [j \in DOMAIN @ |-> IF @[j].origin = r.origin THEN r ELSE @[j]]]

\* RibEntry::eraseRoute
WithoutRoute(e, f, origin) ==
    LET j == Least(Position(e, f, origin))
    IN  IF Position(e, f, origin) = {} THEN e
        ELSE [routes |-> [e.routes EXCEPT ![f] = WithoutAt(@, j)],
              captures |-> IF e.routes[f][j].capture
                           THEN (e.captures + CounterSize - 1) % CounterSize ELSE e.captures]

-----------------------------------------------------------------------------
\* The tree of entries.  A set of routes with one route per face is a function
\* to costs.

Entries == {n \in Name : getNRoutes(rib[n]) # 0}
findParent(n) ==
    LET P == PrefixOf[n] \cap Entries
    IN  IF P = {} THEN None ELSE CHOOSE p \in P : P \subseteq PrefixOf[p] \cup {p}
Children(n) == {c \in Entries : parent[c] = n}

NoRoutes == [f \in Face |-> None]
Only(f, cost) == [NoRoutes EXCEPT ![f] = cost]
FacesOf(routes) == {f \in Face : routes[f] # None}
FirstInherit(e, f) ==
    LET s == SelectSeq(e.routes[f], LAMBDA r : r.inherit)
    IN  IF s = <<>> THEN None ELSE Head(s).cost

\* Rib::getAncestorRoutes, from the parent p on
AncestorRoutes[p \in Name \cup {None}] ==
    IF p = None THEN NoRoutes
    ELSE LET above == IF hasCapture(rib[p]) THEN NoRoutes ELSE AncestorRoutes[parent[p]]
         IN  [f \in Face |-> IF FirstInherit(rib[p], f) # None
                             THEN FirstInherit(rib[p], f) ELSE above[f]]

-----------------------------------------------------------------------------
\* Updates u: to the FIB (m_updatesForBatchFaceId and m_updatesForNonBatchFaceId)
\* and to the inherited routes (m_inheritedRoutes); the last one for a pair of
\* name and face stands.

Pair == Name \X Face
NoUpdates == [fib |-> [x \in Pair |-> None], inherited |-> [x \in Pair |-> None]]
AddNextHop(cost) == [action |-> "add", cost |-> cost]
RemoveNextHop == [action |-> "remove", cost |-> 0]
addFibUpdate(u, n, f, update) == [fib |-> [u.fib EXCEPT ![<<n, f>>] = update], inherited |-> u.inherited]
Inherit(u, S, routes) ==
    [fib |-> [x \in Pair |-> IF x \in S THEN AddNextHop(routes[x[2]]) ELSE u.fib[x]],
     inherited |-> [x \in Pair |-> IF x \in S THEN "add" ELSE u.inherited[x]]]
Disinherit(u, S) ==
    [fib |-> [x \in Pair |-> IF x \in S THEN RemoveNextHop ELSE u.fib[x]],
     inherited |-> [x \in Pair |-> IF x \in S THEN "remove" ELSE u.inherited[x]]]

addInheritedRoutes(u, n, e, routes) == Inherit(u, {n} \X (FacesOf(routes) \ FaceIds(e)), routes)
removeInheritedRoutes(u, n, routes) == Disinherit(u, {n} \X (FacesOf(routes) \cap inherited[n]))

\* traverseSubTree: a route on face f passes down until an entry captures or
\* passes down a route of its own on the face.
Reached(children, f) ==
    LET open == {x \in Entries : ~hasCapture(rib[x]) /\ ~hasChildInheritOnFaceId(rib[x], f)}
        Closed(S) == \A x \in open : x \in children \/ parent[x] \in S => x \in S
    IN  {x \in open : \A S \in SUBSET open : Closed(S) => x \in S}

modifyChildrensInheritedRoutes(u, children, routesToAdd, facesToRemove) ==
    LET reached == [f \in Face |-> Reached(children, f)]
        removed == {x \in Name \X facesToRemove : x[1] \in reached[x[2]] /\ x[2] \in inherited[x[1]]}
        added == {x \in Name \X FacesOf(routesToAdd) : x[1] \in reached[x[2]] /\ ~hasFaceId(rib[x[1]], x[2])}
    IN  Inherit(Disinherit(u, removed), added, routesToAdd)

createFibUpdatesForNewRibEntry(n, f, r, children) ==
    LET u == addFibUpdate(NoUpdates, n, f, AddNextHop(r.cost))
        ancestors == AncestorRoutes[findParent(n)]
        self == Inherit(u, {n} \X (FacesOf(ancestors) \ {f}), ancestors)
    IN  CASE ~r.inherit /\ ~r.capture -> self
          [] r.inherit /\ r.capture ->
                modifyChildrensInheritedRoutes(u, children, Only(f, r.cost), FacesOf(ancestors))
          [] r.inherit /\ ~r.capture ->
                modifyChildrensInheritedRoutes(self, children, [ancestors EXCEPT ![f] = r.cost], {})
          [] ~r.inherit /\ r.capture ->
                modifyChildrensInheritedRoutes(u, children, NoRoutes, FacesOf(ancestors))

createFibUpdatesForNewRoute(u, n, e, f, r, captureWasTurnedOn) ==
    LET prev == LowestInheritCost(e, f)
        ancestors == AncestorRoutes[parent[n]]
        add == IF r.inherit /\ (prev = None \/ r.cost =< prev) THEN Only(f, r.cost) ELSE NoRoutes
        below == IF captureWasTurnedOn
                 THEN modifyChildrensInheritedRoutes(removeInheritedRoutes(u, n, ancestors),
                                                     Children(n), add, FacesOf(ancestors))
                 ELSE modifyChildrensInheritedRoutes(u, Children(n), add, {})
    IN  IF ~hasFaceId(e, f) \/ r.cost =< LowestCost(e, f)
        THEN addFibUpdate(below, n, f, AddNextHop(r.cost)) ELSE below

\* e has the new route r in the place of the existing one, old.  The cost of a
\* missing prevRoute is None.
createFibUpdatesForUpdatedRoute(n, e, f, r, old) ==
    LET prev == LowestInheritCost(e, f)
        ancestors == AncestorRoutes[parent[n]]
        isBest == prev = None \/ r.cost =< prev
        sameFlags == r.inherit = old.inherit /\ r.capture = old.capture
        Modify(u, add, remove) == modifyChildrensInheritedRoutes(u, Children(n), add, remove)
        own == CASE r.cost = old.cost -> NoUpdates
                 [] r.cost # old.cost /\ r.cost =< LowestCost(e, f) ->
                       addFibUpdate(NoUpdates, n, f, AddNextHop(r.cost))
                 [] r.cost # old.cost /\ old.cost < LowestCost(e, f) /\ LowestCost(e, f) < r.cost ->
                       addFibUpdate(NoUpdates, n, f, AddNextHop(prev))
                 [] OTHER -> NoUpdates
        ChildInherit(u) ==
            CASE ~old.inherit /\ r.inherit /\ isBest -> Modify(u, Only(f, r.cost), {})
              [] old.inherit /\ ~r.inherit ->
                    Modify(u, Only(f, IF prev # None THEN prev ELSE ancestors[f]), {f})
              [] OTHER -> u
        Capture(u) ==
            CASE ~old.capture /\ r.capture ->
                    Modify(removeInheritedRoutes(u, n, ancestors), NoRoutes, FacesOf(ancestors))
              [] old.capture /\ ~r.capture ->
                    Modify(addInheritedRoutes(u, n, e, ancestors), ancestors, {})
              [] OTHER -> u
    IN  IF sameFlags /\ r.cost # old.cost /\ isBest /\ r.inherit
        THEN Modify(own, Only(f, r.cost), {}) ELSE Capture(ChildInherit(own))

\* e is the entry without the erased route r.
createFibUpdatesForErasedRoute(n, e, f, r, captureWasTurnedOff) ==
    LET u == addFibUpdate(NoUpdates, n, f, RemoveNextHop)
        ancestors == AncestorRoutes[parent[n]]
        opened == r.capture /\ captureWasTurnedOff /\ getNRoutes(e) # 0
        self == IF opened THEN addInheritedRoutes(u, n, e, ancestors) ELSE u
        add == IF opened \/ (r.inherit /\ ~r.capture /\ ~hasCapture(e)) THEN ancestors ELSE NoRoutes
        below == IF r.inherit \/ r.capture
                 THEN modifyChildrensInheritedRoutes(self, Children(n), add,
                                                     IF r.inherit THEN {f} ELSE {})
                 ELSE u
    IN  IF ~hasCapture(e) /\ getNRoutes(e) # 0 /\ ancestors[f] # None
        THEN Inherit(below, {<<n, f>>}, ancestors) ELSE below

\* Mutated form, used only to show that a property can fail.
KeepInheritedNextHops(u, n) == u
createFibUpdatesForErasedRibEntry(u, n) ==
    [fib |-> [x \in Pair |-> IF x \in {n} \X inherited[n] THEN RemoveNextHop ELSE u.fib[x]],
     inherited |-> u.inherited]

\* The entries that will get n for their parent
childrenOfNewEntry(n) == {c \in Entries : n \in PrefixOf[c] /\ parent[c] = findParent(n)}

computeUpdatesForRegistration(n, f, r) ==
    LET J == Position(rib[n], f, r.origin)
        e == [rib[n] EXCEPT !.routes[f] = [j \in DOMAIN @ |-> IF j \in J THEN r ELSE @[j]]]
    IN  IF n \notin Entries THEN createFibUpdatesForNewRibEntry(n, f, r, childrenOfNewEntry(n))
        ELSE IF J = {}
        THEN createFibUpdatesForNewRoute(NoUpdates, n, rib[n], f, r, ~hasCapture(rib[n]) /\ r.capture)
        ELSE createFibUpdatesForUpdatedRoute(n, e, f, r, rib[n].routes[f][Least(J)])

\* The set of possible results; see SecondLowest.
computeUpdatesForUnregistration(n, f, origin) ==
    LET J == Position(rib[n], f, origin)
        e == WithoutRoute(rib[n], f, origin)
        u == createFibUpdatesForErasedRoute(n, e, f, rib[n].routes[f][Least(J)],
                                            hasCapture(rib[n]) /\ ~hasCapture(e))
        next == SecondLowest(rib[n], f)
    IN  IF J = {} THEN {NoUpdates}
        ELSE IF next # {} THEN {createFibUpdatesForNewRoute(u, n, e, f, r, FALSE) : r \in next}
        ELSE IF getNRoutes(rib[n]) = 1 THEN {createFibUpdatesForErasedRibEntry(u, n)} ELSE {u}

-----------------------------------------------------------------------------
\* Rib::insert
insert(n, f, r) ==
    /\ rib' = [rib EXCEPT ![n] = WithRoute(@, f, r)]
    /\ parent' = [m \in Name |->
                     CASE n \notin Entries /\ m = n -> findParent(n)
                       [] n \notin Entries /\ n \in PrefixOf[m] /\ parent[m] = findParent(n) /\ m \in Entries -> n
                       [] OTHER -> parent[m]]

\* Mutated form, used only to show that a property can fail.
EraseWithoutReparenting(n, f, origin) ==
    IF Position(rib[n], f, origin) # {} /\ getNRoutes(rib[n]) = 1
    THEN rib' = [rib EXCEPT ![n] = NoEntry] /\ parent' = [parent EXCEPT ![n] = None]
    ELSE rib' = [rib EXCEPT ![n] = WithoutRoute(@, f, origin)] /\ UNCHANGED parent

\* Rib::erase and Rib::eraseEntry
erase(n, f, origin) ==
    IF Position(rib[n], f, origin) # {} /\ getNRoutes(rib[n]) = 1
    THEN /\ rib' = [rib EXCEPT ![n] = NoEntry]
         /\ parent' = [m \in Name |-> IF m = n THEN None
                                      ELSE IF parent[m] = n THEN parent[n] ELSE parent[m]]
    ELSE rib' = [rib EXCEPT ![n] = WithoutRoute(@, f, origin)] /\ UNCHANGED parent

\* Rib::modifyInheritedRoutes; an entry that has been erased has no routes.
modifyInheritedRoutes(updates, erased) ==
    inherited' = [n \in Name |->
        {f \in Face : /\ n \notin erased
                      /\ updates[<<n, f>>] = "add" \/ (updates[<<n, f>>] = None /\ f \in inherited[n])}]
ErasedEntries(n, f, origin) ==
    IF Position(rib[n], f, origin) # {} /\ getNRoutes(rib[n]) = 1 THEN {n} ELSE {}

\* FibManager::addNextHop and removeNextHop
Commanded(nexthop, update) ==
    IF update = None THEN nexthop ELSE IF update.action = "add" THEN update.cost ELSE None
ApplyToFib(updates) ==
    fib' = [n \in Name |-> [f \in Face |-> Commanded(fib[n][f], updates[<<n, f>>])]]

RibInit ==
    /\ rib = [n \in Name |-> NoEntry] /\ parent = [n \in Name |-> None]
    /\ inherited = [n \in Name |-> {}] /\ fib = [n \in Name |-> NoRoutes]

\* The update that follows a null prevRoute never gets that far.
Register(n, f, r) ==
    LET u == computeUpdatesForRegistration(n, f, r)
    IN  /\ u.fib[<<n, f>>] # AddNextHop(None)
        /\ insert(n, f, r) /\ modifyInheritedRoutes(u.inherited, {}) /\ ApplyToFib(u.fib)

Unregister(n, f, origin) ==
    \E u \in computeUpdatesForUnregistration(n, f, origin) :
        /\ erase(n, f, origin)
        /\ modifyInheritedRoutes(u.inherited, ErasedEntries(n, f, origin)) /\ ApplyToFib(u.fib)

RibNext == \E o \in Offer : \/ Register(o.name, o.face, o.route)
                            \/ Unregister(o.name, o.face, o.route.origin)
RibSpec == RibInit /\ [][RibNext]_ribVars

-----------------------------------------------------------------------------
\* Properties

\* The links between entries, kept up to date by insert and eraseEntry, always
\* lead to the longest prefix that has an entry.
ParentIsLongestPrefix == \A n \in Entries : parent[n] = findParent(n)

PassedDown(n, f) == \E p \in PrefixOf[n] \cap Entries : hasChildInheritOnFaceId(rib[p], f)

\* No next hop is left behind: what the FIB forwards to is a route of the entry
\* itself or one that a prefix passes down, over any order of registrations,
\* updates of costs and of ChildInherit, and removals above and below.  (The
\* instances keep Capture and second origins to entries with nothing below;
\* with a Capture flag that changes, or two origins above other entries, the
\* updates computed do leave next hops behind.)
NextHopsHaveRoutes ==
    \A n \in Name, f \in Face : fib[n][f] # None =>
        n \in Entries /\ (hasFaceId(rib[n], f) \/ PassedDown(n, f))

=============================================================================
