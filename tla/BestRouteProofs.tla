--------------------------- MODULE BestRouteProofs ---------------------------
(***************************************************************************)
(* Proofs about BestRoute: the forwarder with the best-route strategy is   *)
(* the forwarder with some strategy, so that all that ForwarderProofs says *)
(* holds of it; and what only this strategy ensures.                       *)
(***************************************************************************)
EXTENDS BestRoute, ForwarderProofs, FiniteSetTheorems

USE InterestAssumption, SuppressionAssumption
\* The provers a leaf that names none is tried with.
USE SMTT(30), ZenonT(30), SMTT(60)

\* No Interest carries a NextHopFaceId tag, which overrides the strategy.
Untagged == \A i \in Interest : i.nextHop = None

\* NeverBackToSender for one entry.
Apart(e) ==
    \A f \in Downstreams(e) \cap Upstreams(e) :
        f \notin AdHoc => e.in[f].nonce # e.out[f].nonce

BRInv ==
    /\ IInv
    /\ suppression \in [Key -> InitialInterval .. MaxInterval]
    /\ Untagged => \A k \in Key : Apart(pit[k])

-----------------------------------------------------------------------------
\* Lowest finds one of the next hops it is given.
LEMMA LowestIn ==
    ASSUME NEW n \in Name, NEW S, S \subseteq Face, S # {}
    PROVE  Lowest(n, S) \in S
<1> DEFINE T == {Rank[n][f] : f \in S}
<1>1. \A f \in S : Rank[n][f] \in Nat
  OBVIOUS
<1>2. T \subseteq Nat /\ T # {}
  BY <1>1
<1>3. PICK x \in T : \A y \in T : x =< y
  <2> HIDE DEF T
  <2> QED BY ZenonT(60), <1>2, LeastExists
<1>4. PICK f \in S : x = Rank[n][f]
  OBVIOUS
<1>5. \A g \in S : Rank[n][f] =< Rank[n][g]
  BY <1>3, <1>4
<1> QED BY <1>5 DEF Lowest

\* So does findEligibleNextHopWithEarliestOutRecord.
LEMMA EarliestIn ==
    ASSUME NEW e \in Entry, NEW n \in Name, NEW S, S \subseteq Upstreams(e), S # {}
    PROVE  EarliestUsed(e, n, S) \in S
<1> DEFINE A == {e.out[u].age : u \in S}
           E == {u \in S : \A w \in S : e.out[w].age =< e.out[u].age}
<1>1. \A u \in S : u \in Face /\ e.out[u] \in OutRecord
  BY DEF Upstreams, Entry
<1>2. \A u \in S : e.out[u].age \in 0 .. AgeBound
  BY <1>1 DEF OutRecord
<1>3. A \subseteq 0 .. AgeBound /\ A # {}
  BY <1>2
<1>4. PICK a \in A : \A b \in A : b =< a
  <2> HIDE DEF A
  <2> QED BY ZenonT(60), <1>3, GreatestExists
<1>5. PICK u \in S : a = e.out[u].age
  OBVIOUS
<1>6. \A w \in S : e.out[w].age =< e.out[u].age
  BY <1>4, <1>5
<1>7. E # {} /\ E \subseteq S /\ E \subseteq Face
  BY <1>1, <1>6
<1>8. Lowest(n, E) \in E
  <2> HIDE DEF E
  <2> QED BY <1>7, LowestIn
<1> QED BY <1>7, <1>8 DEF EarliestUsed

-----------------------------------------------------------------------------
\* What best-route decides about an Interest: it is sent to eligible next hops,
\* or returned to its sender and rejected.
LEMMA InterestDecision ==
    ASSUME up \subseteq Face, NEW f \in Face, NEW i \in Interest, MissEntry(f, i) \in Entry
    PROVE  \/ \E U \in SUBSET Eligible(f, i.name) :
                  afterReceiveInterest(f, i) = SendTo(U, i.nonce)
           \/ afterReceiveInterest(f, i) =
                  [SendTo({}, i.nonce) EXCEPT !.nack = {f}, !.reject = TRUE]
<1> DEFINE e == MissEntry(f, i)
           S == Eligible(f, i.name)
           unused == Unused(e, S)
           d == afterReceiveInterest(f, i)
<1>1. S \subseteq Face /\ i.name \in Name
  BY DEF Eligible, nexthops
<1>2. S # {} => Lowest(i.name, S) \in S
  <2> HIDE DEF S
  <2> QED BY <1>1, LowestIn
<1>3. unused \subseteq S
  BY DEF Unused
<1>4. unused # {} => Lowest(i.name, unused) \in S
  <2> HIDE DEF S, unused
  <2> QED BY <1>1, <1>3, LowestIn
<1>5. unused = {} /\ S # {} => EarliestUsed(e, i.name, S) \in S
  <2>1. unused = {} => S \subseteq Upstreams(e)
    BY <1>1 DEF Unused, Upstreams
  <2> HIDE DEF S, unused, e
  <2> QED BY <1>1, <2>1, EarliestIn DEF e
<1>6. \/ S # {} /\ d = SendTo({Lowest(i.name, S)}, i.nonce)
      \/ d = [SendTo({}, i.nonce) EXCEPT !.nack = {f}, !.reject = TRUE]
      \/ unused # {} /\ d = SendTo({Lowest(i.name, unused)}, i.nonce)
      \/ unused = {} /\ S # {} /\ d = SendTo({EarliestUsed(e, i.name, S)}, i.nonce)
      \/ d = SendTo({}, i.nonce)
  <2> HIDE DEF S, unused, e
  <2> QED BY DEF afterReceiveInterest, S, unused, e
<1> HIDE DEF S, unused, e, d
<1>7. \/ \E U \in SUBSET S : d = SendTo(U, i.nonce)
      \/ d = [SendTo({}, i.nonce) EXCEPT !.nack = {f}, !.reject = TRUE]
  BY <1>2, <1>4, <1>5, <1>6
<1> QED BY <1>7 DEF S, d

\* Nacks to other than point-to-point faces make no difference.
LEMMA NacksFiltered ==
    ASSUME NEW e, NEW k, NEW d, NEW c, NEW hopLimit, NEW lifetime,
           c.to = d.to, c.nonce = d.nonce, c.reason = d.reason, c.reject = d.reject,
           c.nack = d.nack \cap P2P
    PROVE  /\ Decided(e, d, hopLimit, lifetime) = Decided(e, c, hopLimit, lifetime)
           /\ DecidedSent(k, e, d, hopLimit) = DecidedSent(k, e, c, hopLimit)
<1>1. Nackable(e, d.nack) = Nackable(e, c.nack)
  BY DEF Nackable
<1> QED BY <1>1 DEF Decided, DecidedSent

\* Whatever best-route does with an Interest, some strategy could do.
LEMMA MissRefined ==
    ASSUME IInv, NEW f \in Face, NEW i \in Interest,
           onContentStoreMiss(f, i, {afterReceiveInterest(f, i)})
    PROVE  onContentStoreMiss(f, i, AnyInterestDecision(i))
<1> DEFINE e == MissEntry(f, i)
           k == KeyOf(i)
           d == afterReceiveInterest(f, i)
           c == [SendTo({}, i.nonce) EXCEPT !.nack = {f} \cap P2P, !.reject = TRUE]
           Gives(x) == /\ sent' = DecidedSent(k, e, x, i.hopLimit)
                       /\ pit' = [pit EXCEPT ![k] = Decided(e, x, i.hopLimit, i.lifetime)]
<1>1. CASE i.nextHop # None
  BY ZenonT(60), <1>1 DEF onContentStoreMiss
<1>2. CASE i.nextHop = None
  <2>1. Gives(d)
    BY <1>2 DEF onContentStoreMiss
  <2>2. SUFFICES \E x \in AnyInterestDecision(i) : Gives(x)
    BY ZenonT(60), <1>2 DEF onContentStoreMiss
  <2>3. up \subseteq Face /\ MissEntry(f, i) \in Entry
    BY MissTyped DEF IInv, Sound, onContentStoreMiss
  <2>4. CASE \E U \in SUBSET Eligible(f, i.name) : d = SendTo(U, i.nonce)
    <3>1. PICK U \in SUBSET Eligible(f, i.name) : d = SendTo(U, i.nonce)
      BY <2>4
    <3>2. U \subseteq Face
      BY <2>3 DEF Eligible, nexthops
    <3>3. [u \in Face |-> i.nonce] \in [Face -> {i.nonce} \cup ProbeNonce]
      OBVIOUS
    <3>4. SendTo(U, i.nonce) \in AnyInterestDecision(i)
      BY <3>2, <3>3 DEF SendTo, AnyInterestDecision
    <3> QED BY ZenonT(60), <2>1, <3>1, <3>4
  <2>5. CASE d = [SendTo({}, i.nonce) EXCEPT !.nack = {f}, !.reject = TRUE]
    <3>1. c \in AnyInterestDecision(i)
      BY ZenonT(60) DEF SendTo, AnyInterestDecision
    <3>2. /\ c.to = d.to /\ c.nonce = d.nonce /\ c.reason = d.reason
          /\ c.reject = d.reject /\ c.nack = d.nack \cap P2P
      BY <2>5 DEF SendTo
    <3> HIDE DEF c, d, e, k
    <3>3. /\ Decided(e, d, i.hopLimit, i.lifetime) = Decided(e, c, i.hopLimit, i.lifetime)
          /\ DecidedSent(k, e, d, i.hopLimit) = DecidedSent(k, e, c, i.hopLimit)
      <4> DEFINE hop == i.hopLimit
                 life == i.lifetime
      <4> HIDE DEF hop, life
      <4>1. /\ Decided(e, d, hop, life) = Decided(e, c, hop, life)
            /\ DecidedSent(k, e, d, hop) = DecidedSent(k, e, c, hop)
        BY <3>2, NacksFiltered
      <4> QED BY <4>1 DEF hop, life
    <3>4. Gives(c)
      BY <2>1, <3>3
    <3> QED BY ZenonT(60), <3>1, <3>4
  <2> QED BY ZenonT(60), <2>3, <2>4, <2>5, InterestDecision
<1> QED BY <1>1, <1>2

\* The same for a Nack: the reason it passes on is one that a peer gave.
LEMMA NackRefined ==
    ASSUME IInv, NEW f \in Face, NEW k \in Key, NEW nonce \in Nonce, NEW r \in Reason,
           onIncomingNack(f, k, nonce, r, {processNack(NackedEntry(k, f, r))})
    PROVE  onIncomingNack(f, k, nonce, r, AnyNackDecision)
<1> DEFINE e == NackedEntry(k, f, r)
           d == processNack(e)
           Gives(x) == /\ pit' = [pit EXCEPT ![k] = Decided(e, x, 2, 0)]
                       /\ sent' = DecidedSent(k, e, x, 2)
<1>1. Gives(d)
  BY DEF onIncomingNack
<1>2. SUFFICES \E x \in AnyNackDecision : Gives(x)
  BY ZenonT(60) DEF onIncomingNack
<1>3. pit[k] \in Entry /\ f \in Upstreams(pit[k])
  BY DEF IInv, Sound, onIncomingNack, AnswersOutRecord
<1>4. PICK N \in SUBSET Face : d = NackTo(N, LeastSevere(e))
  BY ZenonT(60) DEF processNack, Downstreams, NotNacked, Upstreams
<1>5. LeastSevere(e) \in Reason
  <2> DEFINE R == {e.out[u].nack : u \in Upstreams(e) \ NotNacked(e)}
  <2>1. e \in Entry
    <3>1. Sound(pit[k], up) /\ Armed(pit[k])
      BY <1>3, RecordsMeanArmed DEF IInv
    <3> QED BY <1>3, <3>1, NackedSound DEF Sound
  <2>2. e.out[f].nack = r /\ e.out[f] # None
    <3>1. e.out = [pit[k].out EXCEPT ![f] = [pit[k].out[f] EXCEPT !.nack = r]]
      BY <1>3 DEF NackedEntry, Entry
    <3>2. pit[k].out[f] \in OutRecord
      BY <1>3 DEF Upstreams, Entry
    <3>3. e.out[f] = [pit[k].out[f] EXCEPT !.nack = r]
      BY <1>3, <3>1 DEF Entry
    <3>4. e.out[f].nack = r /\ e.out[f] \in OutRecord
      BY <3>2, <3>3 DEF OutRecord
    <3> QED BY <3>4, NoneFacts
  <2>3. r # 0
    BY DEF CONGESTION, DUPLICATE, NO_ROUTE
  <2>4. r \in R
    BY <2>2, <2>3 DEF Upstreams, NotNacked
  <2>5. R \subseteq Reason
    <3>1. \A u \in Upstreams(e) : e.out[u] \in OutRecord
      BY <2>1 DEF Upstreams, Entry
    <3> QED BY <3>1 DEF NotNacked, OutRecord
  <2>6. \E x \in R : \A y \in R : x =< y
    <3> HIDE DEF R
    <3>1. R \subseteq {50, 100, 150}
      BY <2>5 DEF CONGESTION, DUPLICATE, NO_ROUTE
    <3>2. CASE 50 \in R
      BY <3>1, <3>2
    <3>3. CASE 50 \notin R /\ 100 \in R
      BY <3>1, <3>3
    <3>4. CASE R \subseteq {150}
      BY <2>4, <3>4
    <3> QED BY <3>1, <3>2, <3>3, <3>4
  <2>7. LeastSevere(e) \in R
    BY <2>6 DEF LeastSevere
  <2> QED BY <2>5, <2>7
<1> DEFINE c == NackTo(N \cap P2P, LeastSevere(e))
<1>6. c \in AnyNackDecision
  BY <1>5 DEF AnyNackDecision
<1>7. /\ c.to = d.to /\ c.nonce = d.nonce /\ c.reason = d.reason
      /\ c.reject = d.reject /\ c.nack = d.nack \cap P2P
  BY <1>4 DEF NackTo
<1> HIDE DEF c, d, e
<1>8. /\ Decided(e, d, 2, 0) = Decided(e, c, 2, 0)
      /\ DecidedSent(k, e, d, 2) = DecidedSent(k, e, c, 2)
  BY <1>7, NacksFiltered
<1>9. Gives(c)
  BY ZenonT(60), <1>1, <1>8
<1> QED BY ZenonT(60), <1>6, <1>9

\* Every step of the forwarder with best-route is one of the forwarder.
LEMMA StepRefined == IInv /\ [BRNext]_brVars => [Next]_vars
<1> SUFFICES ASSUME IInv, [BRNext]_brVars PROVE Next \/ UNCHANGED vars
  OBVIOUS
<1>1. CASE BRInterest
  BY <1>1, MissRefined DEF BRInterest, Next, IncomingInterest
<1>2. CASE BRNack
  BY <1>2, NackRefined DEF BRNack, Next, IncomingNack
<1>3. CASE BRFinalize
  BY <1>3 DEF BRFinalize, Next, Finalize
<1>4. CASE Other
  BY <1>4 DEF Other, Next, IncomingNack
<1>5. CASE UNCHANGED brVars
  BY <1>5 DEF brVars
<1> QED BY <1>1, <1>2, <1>3, <1>4, <1>5 DEF BRNext

\* Suppression intervals grow up to MaxInterval and start again from the
\* initial one.
LEMMA SuppressionStep ==
    ASSUME suppression \in [Key -> InitialInterval .. MaxInterval], [BRNext]_brVars
    PROVE  suppression' \in [Key -> InitialInterval .. MaxInterval]
<1>1. CASE UNCHANGED suppression
  BY <1>1
<1>2. ASSUME NEW f \in Face, NEW i \in Interest, suppression' = Backoff(f, i)
      PROVE  suppression' \in [Key -> InitialInterval .. MaxInterval]
  <2>1. ASSUME NEW t \in InitialInterval .. MaxInterval
        PROVE  NextInterval(t) \in InitialInterval .. MaxInterval
    <3>1. t \in Nat /\ Multiplier \in Nat /\ Multiplier >= 1
      OBVIOUS
    <3>2. t * Multiplier >= t /\ t * Multiplier \in Nat
      BY <3>1
    <3> QED BY SMTT(60), ZenonT(60), <3>2 DEF NextInterval
  <2> QED BY <1>2, <2>1, KeyFacts DEF Backoff
<1>3. ASSUME NEW k \in Key, suppression' = [suppression EXCEPT ![k] = InitialInterval]
      PROVE  suppression' \in [Key -> InitialInterval .. MaxInterval]
  BY <1>3
<1> QED BY ZenonT(60), <1>1, <1>2, <1>3 DEF BRNext, BRInterest, BRNack, BRFinalize, Other, brVars

-----------------------------------------------------------------------------
\* Entry r has no records that e has not, with the same nonces.
Within(r, e) ==
    \A f \in Face :
        /\ r.in[f] # None => e.in[f] # None /\ r.in[f].nonce = e.in[f].nonce
        /\ r.out[f] # None => e.out[f] # None /\ r.out[f].nonce = e.out[f].nonce

\* Taking records away keeps an entry's nonces apart.
LEMMA FewerApart ==
    ASSUME NEW e, NEW r, Within(r, e), Apart(e)
    PROVE  Apart(r)
BY DEF Apart, Within, Downstreams, Upstreams

\* The operations that only take records away or leave them alone.
LEMMA WithinFacts ==
    ASSUME NEW e \in Entry, NEW S, NEW f \in Face
    PROVE  /\ Within(deleteInRecords(e, S), e)
           /\ Within(deleteOutRecord(e, f), e)
           /\ Within(deleteOutRecord(deleteInRecords(e, S), f), e)
           /\ Within(insert(e), e)
<1>1. Within(deleteInRecords(e, S), e)
  BY DEF Within, deleteInRecords, Entry
<1>2. Within(deleteOutRecord(e, f), e)
  BY DEF Within, deleteOutRecord, Entry
<1>3. Within(deleteOutRecord(deleteInRecords(e, S), f), e)
  BY DEF Within, deleteOutRecord, deleteInRecords, Entry
<1>4. Within(insert(e), e)
  BY DEF Within, insert, Entry
<1> QED BY <1>1, <1>2, <1>3, <1>4

\* Time takes no records away and changes no nonce.
LEMMA OlderWithin == ASSUME NEW e \in Entry PROVE Within(Older(e), e)
<1>1. ASSUME NEW g \in Face, e.in[g] # None
      PROVE  OlderIn(e.in[g]).nonce = e.in[g].nonce
  <2>1. e.in[g] \in InRecord
    BY <1>1 DEF Entry
  <2> QED BY <2>1 DEF OlderIn, InRecord
<1>2. ASSUME NEW g \in Face, e.out[g] # None
      PROVE  OlderOut(e.out[g]).nonce = e.out[g].nonce
  <2>1. e.out[g] \in OutRecord
    BY <1>2 DEF Entry
  <2> QED BY <1>2, <2>1 DEF OlderOut, OutRecord
<1>3. \A g \in Face : /\ e.in[g] = None => OlderIn(e.in[g]) = None
                      /\ e.out[g] = None => OlderOut(e.out[g]) = None
  BY DEF OlderIn, OlderOut
<1>4. /\ Older(e).in = [g \in Face |-> OlderIn(e.in[g])]
      /\ Older(e).out = [g \in Face |-> OlderOut(e.out[g])]
  BY DEF Older, Entry
<1> QED BY <1>1, <1>2, <1>3, <1>4 DEF Within

\* The pipelines that take records away.
LEMMA SatisfyApart ==
    ASSUME NEW k \in Key, pit[k] \in Entry, Apart(pit[k]), NEW f \in Face, NEW d, NEW S
    PROVE  Apart(SatisfiedEntry(k, d, f, S))
<1> DEFINE e == pit[k]
           r == [e EXCEPT !.timer = 0, !.isSatisfied = TRUE,
                          !.dataFreshnessPeriod = d.freshness]
           q == deleteOutRecord(deleteInRecords(r, S), f)
<1>1. r.in = e.in /\ r.out = e.out
  BY DEF Entry
<1>2. /\ q.in = [g \in Face |-> IF g \in S THEN None ELSE e.in[g]]
      /\ q.out = [e.out EXCEPT ![f] = None]
  BY <1>1 DEF deleteOutRecord, deleteInRecords, Entry
<1>3. Within(q, e)
  <2> HIDE DEF q, e
  <2> QED BY <1>2 DEF Within, Entry, e
<1>4. SatisfiedEntry(k, d, f, S) = q
  BY DEF SatisfiedEntry
<1> HIDE DEF q
<1> QED BY <1>3, <1>4, FewerApart

LEMMA HitApart ==
    ASSUME NEW f \in Face, NEW i \in Interest, NEW d,
           pit[KeyOf(i)] \in Entry, Apart(pit[KeyOf(i)])
    PROVE  Apart(HitEntry(f, i, d))
<1> DEFINE e == pit[KeyOf(i)]
           r == [insert(e) EXCEPT !.timer = 0, !.isSatisfied = TRUE,
                                  !.dataFreshnessPeriod = d.freshness]
           q == deleteInRecords(r, {f})
<1>1. r.in = e.in /\ r.out = e.out
  BY DEF insert, Entry
<1>2. q.in = [g \in Face |-> IF g \in {f} THEN None ELSE e.in[g]] /\ q.out = e.out
  BY <1>1 DEF deleteInRecords, insert, Entry
<1>3. Within(q, e)
  <2> HIDE DEF q, e
  <2> QED BY <1>2 DEF Within
<1>4. HitEntry(f, i, d) = q
  BY DEF HitEntry
<1> HIDE DEF q
<1> QED BY <1>3, <1>4, FewerApart

\* A decision that sends no Interest takes records away at most.
LEMMA NothingSent ==
    ASSUME NEW e \in Entry, NEW d, d.to = {}, NEW hopLimit, NEW lifetime
    PROVE  Within(Decided(e, d, hopLimit, lifetime), e)
<1> DEFINE N == Nackable(e, d.nack)
           e1 == insertOrUpdateOutRecords(e, {}, d.nonce, lifetime)
           e2 == deleteInRecords(e1, N)
           r == IF d.reject THEN [e2 EXCEPT !.timer = 0] ELSE e2
<1>1. Sendable(hopLimit, d.to) = {}
  BY DEF Sendable
<1>2. Decided(e, d, hopLimit, lifetime) = r
  BY ZenonT(60), <1>1 DEF Decided
<1>3. e1.in = e.in /\ e1.out = e.out
  BY DEF insertOrUpdateOutRecords, Entry
<1>4. e2.in = [g \in Face |-> IF g \in N THEN None ELSE e.in[g]] /\ e2.out = e.out
  BY <1>3 DEF deleteInRecords, insertOrUpdateOutRecords, Entry
<1>5. r.in = e2.in /\ r.out = e2.out
  BY DEF deleteInRecords, insertOrUpdateOutRecords, Entry
<1> HIDE DEF r, e2, N
<1> QED BY <1>2, <1>4, <1>5 DEF Within

LEMMA NackApart ==
    ASSUME NEW k \in Key, pit[k] \in Entry, Apart(pit[k]), NEW f \in Upstreams(pit[k]),
           NEW r, NackedEntry(k, f, r) \in Entry, NEW d, d.to = {}
    PROVE  Apart(Decided(NackedEntry(k, f, r), d, 2, 0))
<1> DEFINE e == pit[k]
           n == NackedEntry(k, f, r)
<1>1. /\ n.in = e.in
      /\ n.out = [e.out EXCEPT ![f] = [e.out[f] EXCEPT !.nack = r]]
  BY DEF NackedEntry, Entry
<1>2. f \in Face /\ e.out[f] \in OutRecord
  BY DEF Upstreams, Entry
<1>3. [e.out[f] EXCEPT !.nack = r].nonce = e.out[f].nonce
  BY <1>2 DEF OutRecord
<1>4. Within(n, e)
  <2> HIDE DEF n, e
  <2>1. e.out[f] # None /\ e.out \in [Face -> OutRecord \cup {None}]
    BY DEF Upstreams, Entry, e
  <2> QED BY <1>1, <1>2, <1>3, <2>1 DEF Within
<1>5. Apart(n)
  BY <1>4, FewerApart
<1>6. Within(Decided(n, d, 2, 0), n)
  BY NothingSent
<1> QED BY <1>5, <1>6, FewerApart

\* An accepted Interest: its in-record does not repeat the nonce of an
\* out-record to the same face, and no one but f waits with its nonce.
LEMMA MissApart ==
    ASSUME IInv, NEW f \in Face, NEW i \in Interest, Accepted(f, i), ~Looped(f, i),
           Apart(pit[KeyOf(i)])
    PROVE  /\ Apart(MissEntry(f, i))
           /\ f \in Downstreams(MissEntry(f, i)) /\ MissEntry(f, i).in[f].nonce = i.nonce
           /\ \A g \in Downstreams(MissEntry(f, i)) :
                  MissEntry(f, i).in[g].nonce = i.nonce => g = f
<1> DEFINE e == pit[KeyOf(i)]
           m == MissEntry(f, i)
           x == [nonce |-> i.nonce, ttl |-> i.lifetime]
<1>1. e \in Entry /\ Unrepeated(e)
  BY KeyFacts DEF IInv, Sound
<1>2. m.in = [e.in EXCEPT ![f] = x] /\ m.out = e.out
  BY <1>1 DEF MissEntry, insertOrUpdateInRecord, insert, Entry
<1>3. x # None /\ x.nonce = i.nonce
  BY NoneFacts DEF InRecord
<1>4. ~HasDuplicateNonce(e, i.nonce, f)
  BY DEF Looped
<1> HIDE DEF m, x
<1>5. f \in Downstreams(m) /\ m.in[f].nonce = i.nonce
  BY <1>1, <1>2, <1>3 DEF Downstreams, Entry
<1>6. \A g \in Face \ {f} : m.in[g] = e.in[g]
  BY <1>1, <1>2 DEF Entry
<1>7. ASSUME NEW g \in Downstreams(m), g # f PROVE m.in[g].nonce # i.nonce
  <2>1. g \in Downstreams(e) /\ m.in[g] = e.in[g]
    BY <1>6, <1>7 DEF Downstreams
  <2> QED BY <1>1, <1>4, <1>7, <2>1 DEF HasDuplicateNonce, Unrepeated
<1>8. ASSUME NEW g \in Downstreams(m) \cap Upstreams(m), g \notin AdHoc
      PROVE  m.in[g].nonce # m.out[g].nonce
  <2>1. g \in Upstreams(e)
    BY <1>2 DEF Upstreams
  <2>2. CASE g = f
    <3>1. CASE f \in Downstreams(e) /\ e.in[f].nonce = i.nonce
      BY <1>2, <1>5, <1>8, <2>1, <2>2, <3>1 DEF Apart
    <3>2. CASE ~(f \in Downstreams(e) /\ e.in[f].nonce = i.nonce)
      BY ZenonT(60), SMTT(60), <1>2, <1>4, <1>5, <2>1, <2>2, <3>2 DEF HasDuplicateNonce
    <3> QED BY <3>1, <3>2
  <2>3. CASE g # f
    <3>1. g \in Downstreams(e) /\ m.in[g] = e.in[g]
      BY <1>6, <2>3 DEF Downstreams
    <3> QED BY <1>2, <1>8, <2>1, <3>1 DEF Apart
  <2> QED BY <2>2, <2>3
<1> QED BY <1>5, <1>7, <1>8 DEF Apart, m

\* What is sent to eligible next hops leaves an entry's nonces apart.
LEMMA SendApart ==
    ASSUME NEW e \in Entry, Apart(e), NEW f \in Face, NEW nonce, NEW U,
           NEW hopLimit, NEW lifetime,
           \A g \in Downstreams(e) : e.in[g].nonce = nonce => g = f,
           \A u \in U : u # f \/ u \in AdHoc
    PROVE  Apart(Decided(e, SendTo(U, nonce), hopLimit, lifetime))
<1> DEFINE d == SendTo(U, nonce)
           S == Sendable(hopLimit, U)
           o(u) == [nonce |-> nonce, ttl |-> lifetime, age |-> 0,
                    nack |-> IF e.out[u] = None THEN 0 ELSE e.out[u].nack]
           r == Decided(e, d, hopLimit, lifetime)
<1>1. d.to = U /\ d.nack = {} /\ d.reject = FALSE /\ d.nonce = [u \in Face |-> nonce]
  BY ZenonT(60), SMTT(60) DEF SendTo
<1>2. Nackable(e, {}) = {} /\ S \subseteq U
  BY DEF Nackable, Sendable
<1>3. r = deleteInRecords(insertOrUpdateOutRecords(e, S, d.nonce, lifetime), {})
  BY ZenonT(60), <1>1, <1>2 DEF Decided
<1>4. /\ r.in = [g \in Face |-> e.in[g]]
      /\ r.out = [u \in Face |-> IF u \notin S THEN e.out[u] ELSE o(u)]
  BY <1>1, <1>3 DEF deleteInRecords, insertOrUpdateOutRecords, Entry
<1> HIDE DEF r, S
<1>5. ASSUME NEW g \in Downstreams(r) \cap Upstreams(r), g \notin AdHoc
      PROVE  r.in[g].nonce # r.out[g].nonce
  <2>1. g \in Downstreams(e) /\ r.in[g] = e.in[g] /\ g \in Face
    BY <1>4 DEF Downstreams
  <2>2. CASE g \in S
    <3>1. r.out[g].nonce = nonce
      BY <1>4, <2>1, <2>2
    <3> QED BY <1>2, <1>5, <2>1, <2>2, <3>1
  <2>3. CASE g \notin S
    <3>1. r.out[g] = e.out[g] /\ g \in Upstreams(e)
      BY <1>4, <2>1, <2>3 DEF Upstreams
    <3> QED BY <1>5, <2>1, <3>1 DEF Apart
  <2> QED BY <2>2, <2>3
<1> QED BY ZenonT(60), SMTT(60), <1>5 DEF Apart, r

\* No step of the forwarder with best-route lets an entry's nonces meet.
LEMMA ApartStep ==
    ASSUME IInv, \A k \in Key : Apart(pit[k]), Untagged, [BRNext]_brVars
    PROVE  \A k \in Key : Apart(pit'[k])
<1>1. /\ up \subseteq Face /\ DOMAIN pit = Key
      /\ \A k \in Key : pit[k] \in Entry /\ Sound(pit[k], up) /\ Kept(pit[k])
  BY DEF IInv, Sound
<1>2. ASSUME NEW j \in Key, NEW e, pit' = [pit EXCEPT ![j] = e], Apart(e)
      PROVE  \A k \in Key : Apart(pit'[k])
  BY <1>1, <1>2
<1>3. CASE pit' = pit
  BY <1>3
<1>4. ASSUME NEW f \in Face, NEW i \in Interest, onInterestLoop(f, i)
      PROVE  \A k \in Key : Apart(pit'[k])
  <2>1. KeyOf(i) \in Key
    BY KeyFacts
  <2>2. Apart(insert(pit[KeyOf(i)]))
    BY ZenonT(60), <1>1, <2>1, WithinFacts, FewerApart
  <2>3. pit' = pit \/ pit' = [pit EXCEPT ![KeyOf(i)] = insert(pit[KeyOf(i)])]
    BY <1>4 DEF onInterestLoop
  <2> QED BY <1>2, <1>3, <2>1, <2>2, <2>3
<1>5. ASSUME NEW f \in Face, NEW i \in Interest, NEW d \in Data, onContentStoreHit(f, i, d)
      PROVE  \A k \in Key : Apart(pit'[k])
  <2>1. KeyOf(i) \in Key
    BY KeyFacts
  <2>2. Apart(HitEntry(f, i, d))
    BY <1>1, <2>1, HitApart
  <2> QED BY <1>2, <1>5, <2>1, <2>2 DEF onContentStoreHit
<1>6. ASSUME NEW f \in Face, NEW i \in Interest,
             onContentStoreMiss(f, i, {afterReceiveInterest(f, i)})
      PROVE  \A k \in Key : Apart(pit'[k])
  <2> DEFINE m == MissEntry(f, i)
             d == afterReceiveInterest(f, i)
  <2>1. KeyOf(i) \in Key
    BY KeyFacts
  <2>2. /\ Accepted(f, i) /\ ~Looped(f, i)
        /\ pit' = [pit EXCEPT ![KeyOf(i)] = Decided(m, d, i.hopLimit, i.lifetime)]
    BY ZenonT(60), <1>6 DEF onContentStoreMiss, Untagged
  <2>3. /\ m \in Entry /\ Apart(m)
        /\ \A g \in Downstreams(m) : m.in[g].nonce = i.nonce => g = f
    BY ZenonT(60), SMTT(60), <2>1, <2>2, MissTyped, MissApart DEF Sound
  <2>4. CASE \E U \in SUBSET Eligible(f, i.name) : d = SendTo(U, i.nonce)
    <3>1. PICK U \in SUBSET Eligible(f, i.name) : d = SendTo(U, i.nonce)
      BY <2>4
    <3>2. \A u \in U : u # f \/ u \in AdHoc
      BY DEF Eligible
    <3> HIDE DEF m, d
    <3>3. Apart(Decided(m, d, i.hopLimit, i.lifetime))
      BY <2>3, <3>1, <3>2, SendApart
    <3> QED BY <1>2, <2>1, <2>2, <3>3
  <2>5. CASE d = [SendTo({}, i.nonce) EXCEPT !.nack = {f}, !.reject = TRUE]
    <3>1. d.to = {}
      BY <2>5 DEF SendTo
    <3> HIDE DEF m, d
    <3>2. Apart(Decided(m, d, i.hopLimit, i.lifetime))
      BY <2>3, <3>1, NothingSent, FewerApart
    <3> QED BY <1>2, <2>1, <2>2, <3>2
  <2> QED BY ZenonT(60), <1>1, <2>3, <2>4, <2>5, InterestDecision
<1>7. ASSUME NEW f \in Face, NEW k \in Key, NEW nonce \in Nonce, NEW r \in Reason,
             onIncomingNack(f, k, nonce, r, {processNack(NackedEntry(k, f, r))})
      PROVE  \A j \in Key : Apart(pit'[j])
  <2> DEFINE n == NackedEntry(k, f, r)
             d == processNack(n)
  <2>1. f \in Upstreams(pit[k]) /\ pit' = [pit EXCEPT ![k] = Decided(n, d, 2, 0)]
    BY <1>7 DEF onIncomingNack, AnswersOutRecord
  <2>2. n \in Entry
    BY <1>1, <2>1, RecordsMeanArmed, NackedSound DEF Sound
  <2>3. d.to = {}
    BY DEF processNack, NackTo
  <2>4. Apart(Decided(n, d, 2, 0))
    <3> HIDE DEF d
    <3> QED BY <1>1, <2>1, <2>2, <2>3, NackApart
  <2> QED BY <1>2, <2>1, <2>4
<1>8. ASSUME NEW k \in Key, onInterestFinalize(k) PROVE \A j \in Key : Apart(pit'[j])
  <2>1. Apart(Absent)
    BY DEF Apart, Absent, Downstreams
  <2> QED BY <1>2, <1>8, <2>1 DEF onInterestFinalize
<1>9. ASSUME NEW f \in Face, NEW d, NEW same, onIncomingData(f, d, same)
      PROVE  \A k \in Key : Apart(pit'[k])
  <2>1. PICK o : pit' = [k \in Key |-> IF k \in Matches(d)
                             THEN SatisfiedEntry(k, d, f, SatisfiedUpTo(o, k)) ELSE pit[k]]
    BY ZenonT(60), <1>9 DEF onIncomingData
  <2> QED BY <1>1, <2>1, SatisfyApart
<1>10. ASSUME NEW f \in Face, removeFace(f) PROVE \A k \in Key : Apart(pit'[k])
  <2>1. pit' = [k \in Key |-> deleteOutRecord(deleteInRecords(pit[k], {f}), f)]
    BY <1>10 DEF removeFace
  <2>2. ASSUME NEW k \in Key PROVE Apart(deleteOutRecord(deleteInRecords(pit[k], {f}), f))
    BY <1>1, WithinFacts, FewerApart
  <2> QED BY ZenonT(60), <2>1, <2>2
<1>11. CASE Tick
  <2>1. pit' = [k \in Key |-> Older(pit[k])]
    BY <1>11 DEF Tick
  <2>2. ASSUME NEW k \in Key PROVE Apart(Older(pit[k]))
    BY <1>1, OlderWithin, FewerApart
  <2> QED BY <2>1, <2>2
<1>12. CASE BRInterest
  BY <1>3, <1>4, <1>5, <1>6, <1>12 DEF BRInterest, DropInterest
<1>13. CASE BRNack
  BY <1>7, <1>13 DEF BRNack
<1>14. CASE BRFinalize
  BY <1>8, <1>14 DEF BRFinalize
<1>15. CASE Other
  <2>1. CASE IncomingData
    <3>1. PICK f \in Face, d \in Data :
            \/ DropData(f, d)
            \/ \E same \in IF f \in P2P THEN {TRUE} ELSE BOOLEAN :
                   onIncomingData(f, d, same)
            \/ onDataUnsolicited(f, d)
      BY ZenonT(60), <2>1 DEF IncomingData
    <3>2. DropData(f, d) \/ onDataUnsolicited(f, d) => pit' = pit
      BY DEF DropData, onDataUnsolicited
    <3> QED BY ZenonT(60), <1>3, <1>9, <3>1, <3>2
  <2>2. CASE Environment
    <3>1. pit' = pit \/ \E f \in Face : removeFace(f)
      BY <2>2 DEF Environment, addFace, ageOrEvict, forget
    <3> QED BY <1>3, <1>10, <3>1
  <2> QED BY <1>3, <1>11, <1>15, <2>1, <2>2 DEF Other, DropNack
<1>16. CASE UNCHANGED brVars
  BY <1>3, <1>16 DEF brVars, vars
<1> QED BY <1>12, <1>13, <1>14, <1>15, <1>16 DEF BRNext

-----------------------------------------------------------------------------
\* The inductive invariant of the forwarder with best-route.
LEMMA BRInvariant == BRSpec => []BRInv
<1>1. BRInit => BRInv
  <2> SUFFICES ASSUME BRInit PROVE BRInv
    OBVIOUS
  <2>1. IInv
    BY IInvInit DEF BRInit
  <2>2. suppression \in [Key -> InitialInterval .. MaxInterval]
    BY DEF BRInit
  <2>3. \A k \in Key : Apart(pit[k])
    BY DEF BRInit, Init, Apart, Absent, Downstreams
  <2> QED BY <2>1, <2>2, <2>3 DEF BRInv
<1>2. BRInv /\ [BRNext]_brVars => BRInv'
  <2> SUFFICES ASSUME BRInv, [BRNext]_brVars PROVE BRInv'
    OBVIOUS
  <2>1. IInv'
    BY StepRefined, IInvStep DEF BRInv
  <2>2. suppression' \in [Key -> InitialInterval .. MaxInterval]
    BY SuppressionStep DEF BRInv
  <2>3. Untagged => \A k \in Key : Apart(pit'[k])
    BY ApartStep DEF BRInv
  <2> QED BY <2>1, <2>2, <2>3 DEF BRInv, Untagged
<1> QED BY <1>1, <1>2, PTL DEF BRSpec

\* The forwarder with best-route implements the forwarder with any strategy:
\* each step of the one is a step of the other.
THEOREM BestRouteRefines == BRSpec => ImplementsForwarder
<1>1. BRInit => Init
  BY DEF BRInit
<1>2. BRInv => IInv
  BY DEF BRInv
<1> QED BY <1>1, <1>2, StepRefined, BRInvariant, PTL DEF BRSpec, Spec, ImplementsForwarder

\* decidePerPitEntry keeps the suppression intervals within their limits, and
\* the tables keep their types.
THEOREM BRTypeCorrect == BRSpec => []BRTypeOK
<1>1. BRInv => BRTypeOK
  <2> SUFFICES ASSUME BRInv PROVE BRTypeOK
    OBVIOUS
  <2>1. \A k \in Key : pit[k] \in Entry
    BY DEF BRInv, IInv, Sound
  <2>2. pit \in [Key -> Entry]
    BY <2>1 DEF BRInv, IInv
  <2> QED BY <2>2 DEF BRInv, IInv, TypeOK, BRTypeOK
<1> QED BY <1>1, BRInvariant, PTL

\* isNextHopEligible and findDuplicateNonce together never send an Interest
\* back to the face that waits with its nonce, as long as no application
\* chooses the next hop itself.
THEOREM NoEcho == BRSpec => [](Untagged => NeverBackToSender)
<1>1. BRInv => (Untagged => NeverBackToSender)
  BY DEF BRInv, Apart, NeverBackToSender
<1> QED BY <1>1, BRInvariant, PTL

\* Interest p was let out by scope control.
InScope(p) ==
    p.type = "Interest" /\ p.face \notin Local =>
        /\ p.key.name \notin Localhost
        /\ p.key.name \in Localhop =>
             \E g \in Local \cap Downstreams(pit'[p.key]) :
                 pit'[p.key].in[g].nonce = p.nonce

\* Nacks and Data are not Interests.
LEMMA OthersInScope ==
    /\ \A k, f, nonce, reason : InScope(OutNack(k, f, nonce, reason))
    /\ \A d, S : \A p \in outgoingData(d, S) : InScope(p)
BY DEF InScope, OutNack, outgoingData

\* A decision without Interests sends none.
LEMMA NoInterestSent ==
    ASSUME NEW k, NEW e, NEW d, d.to = {}, NEW hopLimit
    PROVE  \A p \in DecidedSent(k, e, d, hopLimit) : InScope(p)
<1>1. Sendable(hopLimit, d.to) = {}
  BY DEF Sendable
<1> QED BY <1>1, OthersInScope DEF DecidedSent

\* wouldViolateScope holds back what an Interest from f may not reach.
LEMMA MissInScope ==
    ASSUME IInv, NEW f \in Face, NEW i \in Interest, i.nextHop = None,
           onContentStoreMiss(f, i, {afterReceiveInterest(f, i)})
    PROVE  \A p \in sent' : InScope(p)
<1> DEFINE m == MissEntry(f, i)
           k == KeyOf(i)
           d == afterReceiveInterest(f, i)
<1>1. /\ Accepted(f, i) /\ ~Looped(f, i)
      /\ sent' = DecidedSent(k, m, d, i.hopLimit)
      /\ pit' = [pit EXCEPT ![k] = Decided(m, d, i.hopLimit, i.lifetime)]
  BY DEF onContentStoreMiss
<1>2. /\ k \in Key /\ DOMAIN pit = Key /\ up \subseteq Face
      /\ k.name = i.name /\ pit[k] \in Entry
  BY KeyFacts DEF IInv, Sound, KeyOf
<1>3. m \in Entry
  BY <1>1, MissTyped DEF Sound
<1>4. m.in[f] = [nonce |-> i.nonce, ttl |-> i.lifetime] /\ m.in[f] # None
  <2>1. m.in = [pit[k].in EXCEPT ![f] = [nonce |-> i.nonce, ttl |-> i.lifetime]]
    BY <1>2 DEF MissEntry, insertOrUpdateInRecord, insert, Entry
  <2> QED BY <1>2, <2>1, NoneFacts DEF Entry, InRecord
<1>5. CASE \E U \in SUBSET Eligible(f, i.name) : d = SendTo(U, i.nonce)
  <2>1. PICK U \in SUBSET Eligible(f, i.name) : d = SendTo(U, i.nonce)
    BY <1>5
  <2>2. d.to = U /\ d.nack = {} /\ d.reject = FALSE /\ d.nonce = [u \in Face |-> i.nonce]
    BY <2>1 DEF SendTo
  <2>3. Nackable(m, d.nack) = {} /\ Sendable(i.hopLimit, d.to) \subseteq U
    BY <2>2 DEF Nackable, Sendable
  <2>4. Decided(m, d, i.hopLimit, i.lifetime).in = [g \in Face |-> m.in[g]]
    BY <1>3, <2>2, <2>3 DEF Decided, deleteInRecords, insertOrUpdateOutRecords, Entry
  <2>5. f \in Downstreams(pit'[k]) /\ pit'[k].in[f].nonce = i.nonce
    <3>1. pit'[k] = Decided(m, d, i.hopLimit, i.lifetime)
      BY <1>1, <1>2
    <3> HIDE DEF m, d, k
    <3>2. pit'[k].in[f] = m.in[f]
      BY <2>4, <3>1
    <3> QED BY <1>4, <3>2 DEF Downstreams
  <2>6. ASSUME NEW p \in sent' PROVE InScope(p)
    <3>1. PICK u \in U : p = OutInterest(k, u, i.nonce)
      <4>1. U \subseteq Face
        BY <1>2 DEF Eligible, nexthops
      <4> QED BY <1>1, <2>2, <2>3, <4>1 DEF DecidedSent
    <3>2. p.face = u /\ p.key = k /\ p.nonce = i.nonce
      BY <3>1 DEF OutInterest
    <3>3. ~wouldViolateScope(f, i.name, u)
      BY DEF Eligible
    <3> HIDE DEF k
    <3> QED BY <1>2, <2>5, <3>2, <3>3 DEF wouldViolateScope, InScope
  <2> QED BY <2>6
<1>6. CASE d = [SendTo({}, i.nonce) EXCEPT !.nack = {f}, !.reject = TRUE]
  <2>1. d.to = {}
    BY <1>6 DEF SendTo
  <2> HIDE DEF d
  <2> QED BY <1>1, <2>1, NoInterestSent
<1> QED BY ZenonT(60), <1>2, <1>3, <1>5, <1>6, InterestDecision

\* Scope control holds at every step: whatever is aggregated, retransmitted or
\* sent on, a /localhop Interest leaves the node only on behalf of a local
\* downstream that waits with its nonce, and a /localhost Interest never does,
\* as long as no application chooses the next hop itself.
THEOREM ScopeHolds ==
    ASSUME Untagged
    PROVE  BRSpec => ScopeRespected
<1>1. BRInv /\ [BRNext]_brVars => [\A p \in sent' : InScope(p)]_brVars
  <2> SUFFICES ASSUME BRInv, BRNext PROVE \A p \in sent' : InScope(p)
    OBVIOUS
  <2>1. CASE sent' = {}
    BY <2>1
  <2>2. CASE BRInterest
    <3>1. PICK f \in Face, i \in Interest :
            \/ DropInterest(f, i) \/ onInterestLoop(f, i)
            \/ \E d \in Data : onContentStoreHit(f, i, d)
            \/ onContentStoreMiss(f, i, {afterReceiveInterest(f, i)})
      BY ZenonT(60), <2>2 DEF BRInterest
    <3>2. CASE DropInterest(f, i)
      BY <2>1, <3>2 DEF DropInterest
    <3>3. CASE onInterestLoop(f, i)
      BY <3>3, OthersInScope DEF onInterestLoop
    <3>4. CASE \E d \in Data : onContentStoreHit(f, i, d)
      BY <3>4, OthersInScope DEF onContentStoreHit
    <3>5. CASE onContentStoreMiss(f, i, {afterReceiveInterest(f, i)})
      BY <3>5, MissInScope DEF BRInv, Untagged
    <3> QED BY <3>1, <3>2, <3>3, <3>4, <3>5
  <2>3. CASE BRNack
    <3>1. PICK k \in Key, f \in Face, r \in Reason :
            sent' = DecidedSent(k, NackedEntry(k, f, r),
                                processNack(NackedEntry(k, f, r)), 2)
      BY <2>3 DEF BRNack, onIncomingNack
    <3>2. processNack(NackedEntry(k, f, r)).to = {}
      BY ZenonT(60) DEF processNack, NackTo
    <3> QED BY <3>1, <3>2, NoInterestSent
  <2>4. CASE BRFinalize
    BY <2>1, <2>4 DEF BRFinalize, onInterestFinalize
  <2>5. CASE Other
    <3>1. CASE IncomingData
      <4>1. sent' = {} \/ \E d, S : sent' = outgoingData(d, S)
        BY ZenonT(60), <3>1 DEF IncomingData, DropData, onIncomingData, onDataUnsolicited
      <4> QED BY <2>1, <4>1, OthersInScope
    <3>2. Environment \/ Tick => sent' = {}
      BY ZenonT(60) DEF Environment, removeFace, addFace, ageOrEvict, forget, Tick
    <3>3. (\E f \in Face, k \in Key, nonce \in Nonce : DropNack(f, k, nonce)) => sent' = {}
      BY DEF DropNack
    <3> QED BY <2>1, <2>5, <3>1, <3>2, <3>3 DEF Other
  <2> QED BY <2>2, <2>3, <2>4, <2>5 DEF BRNext
<1>2. BRSpec => [][\A p \in sent' : InScope(p)]_brVars
  BY <1>1, BRInvariant, PTL DEF BRSpec
<1> QED BY <1>2 DEF ScopeRespected, InScope

-----------------------------------------------------------------------------
\* Also with best-route, a Nack returns the Interest its downstream waited with.
THEOREM BRNacksReturn == BRSpec => NackReturnsInterest
BY BestRouteRefines, NacksReturnInterests DEF ImplementsForwarder

\* The out-record of every upstream of e but g holds a Nack or has run out of time.
GaveUp(e, g) == \A u \in Upstreams(e) \ {g} : e.out[u].nack # 0 \/ e.out[u].ttl < 0

\* NacksWaitForUpstreams as a statement about one packet of a step.
Timely(p) ==
    p.type = "Nack" =>
        \/ p.reason = DUPLICATE /\ UNCHANGED pit
        \/ GaveUp(pit'[p.key], p.face)

\* An Interest is nacked at once only if the entry has nothing pending.
LEMMA NackedAtOnce ==
    ASSUME NEW f \in Face, NEW i \in Interest, afterReceiveInterest(f, i).nack # {}
    PROVE  ~hasPendingOutRecords(MissEntry(f, i))
<1> DEFINE e == MissEntry(f, i)
           verdict == decidePerPitEntry(KeyOf(i), e)
           S == Eligible(f, i.name)
           unused == Unused(e, S)
<1>1. SUFFICES ASSUME hasPendingOutRecords(e) PROVE FALSE
  OBVIOUS
<1>2. verdict # "NEW"
  <2> HIDE DEF e
  <2> QED BY <1>1 DEF decidePerPitEntry
<1>3. afterReceiveInterest(f, i) =
        CASE verdict = "NEW" /\ S # {} -> SendTo({Lowest(i.name, S)}, i.nonce)
          [] verdict = "NEW" /\ S = {} -> [SendTo({}, i.nonce) EXCEPT !.nack = {f},
                                              !.reject = TRUE]
          [] verdict = "FORWARD" /\ unused # {} ->
                SendTo({Lowest(i.name, unused)}, i.nonce)
          [] verdict = "FORWARD" /\ unused = {} /\ S # {} ->
                SendTo({EarliestUsed(e, i.name, S)}, i.nonce)
          [] OTHER -> SendTo({}, i.nonce)
  BY ZenonT(60) DEF afterReceiveInterest
<1> HIDE DEF e, verdict, S, unused
<1>4. \E U : afterReceiveInterest(f, i) = SendTo(U, i.nonce)
  BY SMTT(60), ZenonT(60), <1>2, <1>3
<1> QED BY <1>4 DEF SendTo

\* A decision that sends no Interest keeps the out-records.
LEMMA OutKept ==
    ASSUME NEW e \in Entry, NEW d, d.to = {}, NEW hopLimit, NEW lifetime
    PROVE  Decided(e, d, hopLimit, lifetime).out = e.out
<1> DEFINE N == Nackable(e, d.nack)
           e1 == insertOrUpdateOutRecords(e, {}, d.nonce, lifetime)
           e2 == deleteInRecords(e1, N)
           r == IF d.reject THEN [e2 EXCEPT !.timer = 0] ELSE e2
<1>1. Sendable(hopLimit, d.to) = {}
  BY DEF Sendable
<1>2. Decided(e, d, hopLimit, lifetime) = r
  BY ZenonT(60), <1>1 DEF Decided
<1>3. e1.out = e.out
  BY DEF insertOrUpdateOutRecords, Entry
<1>4. e2.out = e.out
  BY <1>3 DEF deleteInRecords, insertOrUpdateOutRecords, Entry
<1>5. r.out = e2.out
  BY DEF deleteInRecords, insertOrUpdateOutRecords, Entry
<1> QED BY <1>2, <1>4, <1>5

\* Whom processNack nacks is the only upstream, if any, without a recorded Nack.
LEMMA NacksLast ==
    ASSUME IsFiniteSet(Face), NEW e, NEW g \in processNack(e).nack
    PROVE  GaveUp(e, g)
<1> DEFINE W == NotNacked(e)
<1>1. IsFiniteSet(W)
  BY FS_Subset DEF NotNacked, Upstreams
<1>2. \A u \in Upstreams(e) \ W : e.out[u].nack # 0
  BY DEF NotNacked
<1>3. CASE W = {}
  BY <1>2, <1>3 DEF GaveUp
<1>4. CASE W # {} /\ Cardinality(W) = 1
  <2>1. processNack(e) = NackTo(W \cap Downstreams(e), LeastSevere(e))
    BY ZenonT(60), <1>4 DEF processNack
  <2>2. g \in W
    BY <2>1 DEF NackTo
  <2>3. \E x : W = {x}
    BY <1>1, <1>4, FS_Singleton
  <2> HIDE DEF W
  <2>4. W = {g}
    BY <2>2, <2>3
  <2> QED BY <1>2, <2>4 DEF GaveUp
<1>5. CASE W # {} /\ Cardinality(W) # 1
  <2>1. processNack(e) = NackTo({}, LeastSevere(e))
    BY ZenonT(60), <1>5 DEF processNack
  <2> QED BY <2>1 DEF NackTo
<1> QED BY <1>3, <1>4, <1>5

\* A Nack among the packets of a decision goes to a face the decision nacks.
LEMMA NackDecided ==
    ASSUME NEW k, NEW e, NEW d, NEW hopLimit, NEW p \in DecidedSent(k, e, d, hopLimit),
           p.type = "Nack"
    PROVE  p.key = k /\ p.face \in d.nack
<1>1. \/ \E u \in Sendable(hopLimit, d.to) : p = OutInterest(k, u, d.nonce[u])
      \/ \E g \in Nackable(e, d.nack) : p = OutNack(k, g, e.in[g].nonce, d.reason)
  BY DEF DecidedSent
<1> QED BY <1>1 DEF OutInterest, OutNack, Nackable

\* Nacks that answer an arriving Interest.
LEMMA MissTimely ==
    ASSUME IInv, NEW f \in Face, NEW i \in Interest,
           onContentStoreMiss(f, i, {afterReceiveInterest(f, i)}), NEW p \in sent'
    PROVE  Timely(p)
<1> DEFINE k == KeyOf(i)
           e == MissEntry(f, i)
           a == afterReceiveInterest(f, i)
<1>1. SUFFICES ASSUME p.type = "Nack" PROVE GaveUp(pit'[p.key], p.face)
  BY ZenonT(60), SMTT(60) DEF Timely
<1>2. k \in Key
  BY KeyFacts
<1>3. e \in Entry /\ up \subseteq Face
  BY MissTyped DEF onContentStoreMiss, Sound, IInv
<1>4. PICK d \in IF i.nextHop = None THEN {a} ELSE {SendTo({i.nextHop}, i.nonce)} :
        /\ sent' = DecidedSent(k, e, d, i.hopLimit)
        /\ pit' = [pit EXCEPT ![k] = Decided(e, d, i.hopLimit, i.lifetime)]
  BY ZenonT(60) DEF onContentStoreMiss
<1>5. p.key = k /\ p.face \in d.nack
  <2> HIDE DEF k, e
  <2> QED BY <1>1, <1>4, NackDecided
<1>6. d = a
  <2>1. SendTo({i.nextHop}, i.nonce).nack = {}
    BY DEF SendTo
  <2> HIDE DEF a
  <2> QED BY ZenonT(60), SMTT(60), <1>4, <1>5, <2>1
<1>7. ~hasPendingOutRecords(e)
  BY ZenonT(60), SMTT(60), <1>5, <1>6, NackedAtOnce
<1>8. d.to = {}
  <2>1. \/ \E U : d = SendTo(U, i.nonce)
        \/ d = [SendTo({}, i.nonce) EXCEPT !.nack = {f}, !.reject = TRUE]
    <3> HIDE DEF e
    <3> QED BY ZenonT(60), SMTT(60), <1>3, <1>6, InterestDecision DEF e
  <2>2. ASSUME NEW U, d = SendTo(U, i.nonce) PROVE FALSE
    BY <1>5, <2>2 DEF SendTo
  <2> QED BY ZenonT(60), SMTT(60), <2>1, <2>2 DEF SendTo
<1> HIDE DEF k, e, a
<1>9. pit'[k].out = e.out
  <2>1. pit'[k] = Decided(e, d, i.hopLimit, i.lifetime)
    BY <1>2, <1>4 DEF IInv
  <2> QED BY <1>3, <1>8, <2>1, OutKept
<1>10. ASSUME NEW u \in Upstreams(e) PROVE e.out[u].nack # 0 \/ e.out[u].ttl < 0
  <2>1. e.out[u].ttl \in Int
    BY <1>3 DEF Upstreams, Entry, OutRecord
  <2> QED BY <1>7, <2>1 DEF hasPendingOutRecords
<1> QED BY <1>5, <1>9, <1>10 DEF GaveUp, Upstreams

\* Nacks that pass on an arriving Nack.
LEMMA NackTimely ==
    ASSUME IsFiniteSet(Face), IInv, NEW f \in Face, NEW k \in Key, NEW nonce \in Nonce,
           NEW r \in Reason,
           onIncomingNack(f, k, nonce, r, {processNack(NackedEntry(k, f, r))}),
           NEW p \in sent'
    PROVE  Timely(p)
<1> DEFINE e == NackedEntry(k, f, r)
           d == processNack(e)
<1>1. SUFFICES ASSUME p.type = "Nack" PROVE GaveUp(pit'[p.key], p.face)
  BY ZenonT(60), SMTT(60) DEF Timely
<1>2. e \in Entry
  <2>1. pit[k] \in Entry /\ f \in Upstreams(pit[k])
    BY DEF IInv, Sound, onIncomingNack, AnswersOutRecord
  <2>2. Sound(pit[k], up) /\ Armed(pit[k])
    BY <2>1, RecordsMeanArmed DEF IInv
  <2> QED BY ZenonT(60), SMTT(60), <2>1, <2>2, NackedSound DEF Sound
<1>3. /\ pit' = [pit EXCEPT ![k] = Decided(e, d, 2, 0)]
      /\ sent' = DecidedSent(k, e, d, 2)
  BY DEF onIncomingNack
<1>4. d.to = {}
  BY ZenonT(60) DEF processNack, NackTo
<1>5. p.key = k /\ p.face \in d.nack
  <2> HIDE DEF d, e
  <2> QED BY <1>1, <1>3, NackDecided
<1>6. GaveUp(e, p.face)
  <2> HIDE DEF e
  <2> QED BY <1>5, NacksLast
<1> HIDE DEF d, e
<1>7. pit'[k].out = e.out
  <2>1. pit'[k] = Decided(e, d, 2, 0)
    BY <1>3 DEF IInv
  <2> QED BY <1>2, <1>4, <2>1, OutKept
<1> QED BY <1>5, <1>6, <1>7 DEF GaveUp, Upstreams

\* With finitely many faces nobody gives up early: a downstream is told that its
\* Interest failed only when the out-record of every other upstream holds a Nack
\* or has run out of time, whatever Nacks, retransmissions, expiries and face
\* removals came before.
THEOREM NobodyGivesUpEarly ==
    ASSUME IsFiniteSet(Face)
    PROVE  BRSpec => NacksWaitForUpstreams
<1>1. ASSUME BRInv, BRNext, NEW p \in sent' PROVE Timely(p)
  <2>1. IInv
    BY <1>1 DEF BRInv
  <2>2. CASE BRInterest
    <3>1. PICK f \in Face, i \in Interest :
            \/ DropInterest(f, i) \/ onInterestLoop(f, i)
            \/ \E d \in Data : onContentStoreHit(f, i, d)
            \/ onContentStoreMiss(f, i, {afterReceiveInterest(f, i)})
      BY ZenonT(60), <2>2 DEF BRInterest
    <3>2. CASE DropInterest(f, i)
      BY <1>1, <3>2 DEF DropInterest
    <3>3. CASE onInterestLoop(f, i)
      <4>1. pit' = pit
        BY <2>1, <3>3, LoopKeepsPit
      <4>2. p.reason = DUPLICATE
        BY <1>1, <3>3 DEF onInterestLoop, OutNack
      <4> QED BY <4>1, <4>2 DEF Timely
    <3>4. CASE \E d \in Data : onContentStoreHit(f, i, d)
      <4>1. p.type = "Data"
        BY <1>1, <3>4, OutgoingDataFacts DEF onContentStoreHit
      <4> QED BY <4>1 DEF Timely
    <3>5. CASE onContentStoreMiss(f, i, {afterReceiveInterest(f, i)})
      BY ZenonT(60), SMTT(60), <1>1, <2>1, <3>5, MissTimely
    <3> QED BY <3>1, <3>2, <3>3, <3>4, <3>5
  <2>3. CASE BRNack
    BY ZenonT(60), SMTT(60), <1>1, <2>1, <2>3, NackTimely DEF BRNack
  <2>4. CASE BRFinalize
    BY <1>1, <2>4 DEF BRFinalize, onInterestFinalize
  <2>5. CASE Other
    <3>1. CASE IncomingData
      <4>1. sent' = {} \/ \E d, S : sent' = outgoingData(d, S)
        BY ZenonT(60), <3>1 DEF IncomingData, DropData, onIncomingData, onDataUnsolicited
      <4>2. p.type = "Data"
        BY <1>1, <4>1, OutgoingDataFacts
      <4> QED BY <4>2 DEF Timely
    <3>2. Environment \/ Tick => sent' = {}
      BY ZenonT(60) DEF Environment, removeFace, addFace, ageOrEvict, forget, Tick
    <3>3. (\E f \in Face, k \in Key, nonce \in Nonce : DropNack(f, k, nonce)) => sent' = {}
      BY DEF DropNack
    <3> QED BY <1>1, <2>5, <3>1, <3>2, <3>3 DEF Other
  <2> QED BY <1>1, <2>2, <2>3, <2>4, <2>5 DEF BRNext
<1>2. BRInv /\ [BRNext]_brVars => [\A p \in sent' : Timely(p)]_brVars
  BY <1>1
<1>3. BRSpec => [][\A p \in sent' : Timely(p)]_brVars
  BY <1>2, BRInvariant, PTL DEF BRSpec
<1> QED BY <1>3 DEF NacksWaitForUpstreams, Timely, GaveUp
=============================================================================
