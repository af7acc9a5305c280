------------------------------ MODULE BestRoute ------------------------------
(***************************************************************************)
(* The Forwarder with the best-route strategy (daemon/fw/                  *)
(* best-route-strategy.cpp, retx-suppression-exponential.cpp,              *)
(* process-nack-traits.cpp, algorithm.cpp).                                *)
(*                                                                         *)
(* The FIB is a ranking of next hops per name; a removed face leaves it,   *)
(* and a face that is added comes with its routes.                         *)
(***************************************************************************)
EXTENDS Forwarder

CONSTANTS
    Rank,              \* Rank[n][f]: position of f among n's next hops, 0 if none
    Localhop,          \* names under /localhop
    InitialInterval, Multiplier, MaxInterval   \* of the retransmission suppression

ASSUME SuppressionAssumption ==
    /\ InitialInterval \in Nat \ {0} /\ Multiplier \in Nat \ {0}
    /\ MaxInterval \in Nat /\ InitialInterval =< MaxInterval
    /\ MaxInterval =< AgeBound /\ MaxLifetime =< AgeBound
    /\ Rank \in [Name -> [Face -> Nat]]
    /\ NO_ROUTE \in Reason

VARIABLE suppression   \* suppressionInterval in the strategy info of each entry

brVars == <<vars, suppression>>

-----------------------------------------------------------------------------
nexthops(n) == {f \in up : Rank[n][f] # 0}
Lowest(n, S) == CHOOSE f \in S : \A g \in S : Rank[n][f] =< Rank[n][g]

\* Mutated form, used only to show that a property can fail.
LocalhostScopeOnly(f, n, u) == u \notin Local /\ n \in Localhost

\* fw::wouldViolateScope
wouldViolateScope(f, n, u) ==
    /\ u \notin Local
    /\ n \in Localhost \/ (n \in Localhop /\ f \notin Local)

\* Mutated form, used only to show that a property can fail.
EligibleEvenDownstream(f, n) ==
    {u \in nexthops(n) : ~wouldViolateScope(f, n, u)}

\* fw::isNextHopEligible, and with wantUnused
Eligible(f, n) ==
    {u \in nexthops(n) : (u # f \/ u \in AdHoc) /\ ~wouldViolateScope(f, n, u)}
Unused(e, S) == {u \in S : e.out[u] = None \/ e.out[u].ttl =< 0}

\* fw::findEligibleNextHopWithEarliestOutRecord for eligible next hops S
EarliestUsed(e, n, S) ==
    Lowest(n, {u \in S : \A w \in S : e.out[w].age =< e.out[u].age})

\* RetxSuppressionExponential::decidePerPitEntry
SinceLastOutgoing(e) ==
    CHOOSE a \in 0 .. AgeBound : /\ \E u \in Upstreams(e) : e.out[u].age = a
                                 /\ \A u \in Upstreams(e) : a =< e.out[u].age
decidePerPitEntry(k, e) ==
    IF ~hasPendingOutRecords(e) THEN "NEW"
    ELSE IF SinceLastOutgoing(e) < suppression[k] THEN "SUPPRESS" ELSE "FORWARD"

NextInterval(t) == IF t * Multiplier < MaxInterval THEN t * Multiplier ELSE MaxInterval

\* BestRouteStrategy::afterReceiveInterest
afterReceiveInterest(f, i) ==
    LET e == MissEntry(f, i)
        verdict == decidePerPitEntry(KeyOf(i), e)
        S == Eligible(f, i.name)
        unused == Unused(e, S)
    IN  CASE verdict = "NEW" /\ S # {} -> SendTo({Lowest(i.name, S)}, i.nonce)
          [] verdict = "NEW" /\ S = {} -> [SendTo({}, i.nonce) EXCEPT !.nack = {f},
                                              !.reject = TRUE]
          [] verdict = "FORWARD" /\ unused # {} ->
                SendTo({Lowest(i.name, unused)}, i.nonce)
          [] verdict = "FORWARD" /\ unused = {} /\ S # {} ->
                SendTo({EarliestUsed(e, i.name, S)}, i.nonce)
          [] OTHER -> SendTo({}, i.nonce)

\* The suppression interval grows when a retransmission is let through.
Backoff(f, i) ==
    IF i.nextHop = None /\ decidePerPitEntry(KeyOf(i), MissEntry(f, i)) = "FORWARD"
    THEN [suppression EXCEPT ![KeyOf(i)] = NextInterval(@)]
    ELSE suppression

\* ProcessNackTraitsBase::processNack on the entry with the Nack recorded
NotNacked(e) == {u \in Upstreams(e) : e.out[u].nack = 0}
LeastSevere(e) ==
    LET R == {e.out[u].nack : u \in Upstreams(e) \ NotNacked(e)}
    IN  CHOOSE r \in R : \A s \in R : r =< s
\* Mutated form, used only to show that a property can fail.
RejectOnNack(e) == [NackTo({}, LeastSevere(e)) EXCEPT !.reject = TRUE]
processNack(e) ==
    IF NotNacked(e) = {} THEN NackTo(Downstreams(e), LeastSevere(e))
    ELSE IF Cardinality(NotNacked(e)) = 1
    THEN NackTo(NotNacked(e) \cap Downstreams(e), LeastSevere(e))
    ELSE NackTo({}, LeastSevere(e))

-----------------------------------------------------------------------------
BRInit == Init /\ suppression = [k \in Key |-> InitialInterval]

BRInterest ==
    \E f \in Face, i \in Interest :
        \/ DropInterest(f, i) /\ UNCHANGED suppression
        \/ onInterestLoop(f, i) /\ UNCHANGED suppression
        \/ \E d \in Data : onContentStoreHit(f, i, d) /\ UNCHANGED suppression
        \/ /\ onContentStoreMiss(f, i, {afterReceiveInterest(f, i)})
           /\ suppression' = Backoff(f, i)
BRNack ==
    \E f \in Face, k \in Key, nonce \in Nonce, r \in Reason :
        /\ onIncomingNack(f, k, nonce, r, {processNack(NackedEntry(k, f, r))})
        /\ UNCHANGED suppression
BRFinalize ==
    \E k \in Key : /\ onInterestFinalize(k)
                   /\ suppression' = [suppression EXCEPT ![k] = InitialInterval]
Other ==
    /\ \/ IncomingData \/ Environment \/ Tick
       \/ \E f \in Face, k \in Key, nonce \in Nonce : DropNack(f, k, nonce)
    /\ UNCHANGED suppression

BRNext == BRInterest \/ BRNack \/ BRFinalize \/ Other
BRSpec == BRInit /\ [][BRNext]_brVars

-----------------------------------------------------------------------------
\* Properties

\* Suppression intervals stay between their limits.
BRTypeOK == TypeOK /\ suppression \in [Key -> InitialInterval .. MaxInterval]

\* best-route is one of the strategies that Forwarder allows.
ImplementsForwarder == Spec

\* Whoever waits with a nonce is never sent that nonce: between them, the check
\* for the incoming face in isNextHopEligible and the duplicate nonce check
\* keep an Interest from going back where it came from, over retransmissions,
\* expiry and face changes.  (Not for ad hoc faces.)
NeverBackToSender ==
    \A k \in Key : \A f \in Downstreams(pit[k]) \cap Upstreams(pit[k]) :
        f \notin AdHoc => pit[k].in[f].nonce # pit[k].out[f].nonce

\* Scope control: a /localhop Interest leaves on a non-local face only if the
\* downstream waiting with its nonce is local; a /localhost Interest never does.
ScopeRespected ==
    [][\A p \in sent' : p.type = "Interest" /\ p.face \notin Local =>
         /\ p.key.name \notin Localhost
         /\ p.key.name \in Localhop =>
              \E g \in Local \cap Downstreams(pit'[p.key]) :
                  pit'[p.key].in[g].nonce = p.nonce]_brVars

\* Nobody gives up early: when a Nack other than for a loop ends the waiting of a
\* downstream, the out-record of every other upstream of the entry holds a Nack
\* or has run out of time.  It is what decidePerPitEntry and processNack, which
\* count out-records differently, have in common.  The Nack may be older than the
\* last transmission to that upstream, since an update of the record keeps it.
NacksWaitForUpstreams ==
    [][\A p \in sent' : p.type = "Nack" =>
         \/ p.reason = DUPLICATE /\ UNCHANGED pit
         \/ \A u \in Upstreams(pit'[p.key]) \ {p.face} :
                pit'[p.key].out[u].nack # 0 \/ pit'[p.key].out[u].ttl < 0]_brVars
=============================================================================
