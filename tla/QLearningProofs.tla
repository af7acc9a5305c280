--------------------------- MODULE QLearningProofs ---------------------------
(***************************************************************************)
(* Proofs about QLearning: the forwarder with the Q-learning strategy is   *)
(* the forwarder with some strategy, its table holds nothing that a choice *)
(* for a downstream would read, and it has one Interest out at a time.     *)
(***************************************************************************)
EXTENDS QLearning, ForwarderProofs, FiniteSetTheorems

USE InterestAssumption, RewardAssumption
\* The provers a leaf that names none is tried with.
USE SMTT(30), ZenonT(30), SMTT(60)

\* No Interest carries a NextHopFaceId tag, which overrides the strategy.
Untagged == \A i \in Interest : i.nextHop = None

\* The upstreams of e that may still answer, as hasPendingOutRecords counts
\* them, and OneUpstreamPending for one entry.
Waiting(e) == {u \in Upstreams(e) : e.out[u].ttl >= 0 /\ e.out[u].nack = 0}
AtMostOne(e) == \A u, w \in Waiting(e) : u = w

\* Values are those of one update from zero or of no update, and only the
\* upstream that a state names has one.
TableTyped == m_qTable \in [QLearningState -> [Face -> -NackPenalty .. 0]]
OnlyOwnFace ==
    \A s \in QLearningState, u \in Face : m_qTable[s][u] # 0 => u = s[2]

QInv ==
    /\ IInv
    /\ TableTyped
    /\ OnlyOwnFace
    /\ Untagged => \A k \in Key : AtMostOne(pit[k])

-----------------------------------------------------------------------------
\* First finds one of the next hops it is given.
LEMMA FirstIn ==
    ASSUME NEW n \in Name, NEW S, S \subseteq Face, S # {}
    PROVE  First(n, S) \in S
<1> DEFINE T == {Rank[n][f] : f \in S}
<1>1. \A f \in S : Rank[n][f] \in Nat
  OBVIOUS
<1>2. T \subseteq Nat /\ T # {}
  BY <1>1
<1>3. PICK x \in T : \A y \in T : x =< y
  <2> HIDE DEF T
  <2> QED BY ZenonT(60), <1>2, LeastExists
<1>4. PICK f \in S : x = Rank[n][f]
  OBVIOUS
<1>5. \A g \in S : Rank[n][f] =< Rank[n][g]
  BY <1>3, <1>4
<1> QED BY <1>5 DEF First

\* So does the greedy choice, as one of the hops has the highest value.
LEMMA GreedyIn ==
    ASSUME TableTyped, NEW s \in QLearningState, NEW S, S \subseteq Face, S # {}
    PROVE  Greedy(s, S) \in S
<1> DEFINE v(u) == m_qTable[s][u] + NackPenalty
           T == {v(u) : u \in S}
           B == {u \in S : \A w \in S : m_qTable[s][w] =< m_qTable[s][u]}
<1>1. \A u \in S : m_qTable[s][u] \in -NackPenalty .. 0
  BY DEF TableTyped
<1>2. \A u \in S : v(u) \in 0 .. NackPenalty
  BY <1>1
<1>3. T \subseteq 0 .. NackPenalty /\ T # {}
  <2> HIDE DEF v
  <2> QED BY <1>2
<1>4. PICK x \in T : \A y \in T : y =< x
  <2> HIDE DEF T
  <2> QED BY ZenonT(60), <1>3, GreatestExists
<1>5. PICK u \in S : x = v(u)
  OBVIOUS
<1>6. ASSUME NEW w \in S PROVE m_qTable[s][w] =< m_qTable[s][u]
  <2>1. v(w) =< v(u)
    BY <1>4, <1>5
  <2> QED BY <1>1, <2>1
<1>7. B # {} /\ B \subseteq S /\ s[1] \in Name
  BY <1>6 DEF QLearningState
<1> HIDE DEF B
<1>8. First(s[1], B) \in B
  BY <1>7, FirstIn
<1> QED BY <1>7, <1>8 DEF Greedy, B

\* What Q-learning decides about an Interest: it is sent to one face when no
\* out-record is pending, or to none.
LEMMA InterestDecision ==
    ASSUME TableTyped, up \subseteq Face, NEW f \in Face, NEW i \in Interest,
           NEW d \in afterReceiveInterest(f, i)
    PROVE  /\ d \in AnyInterestDecision(i)
           /\ \A u, w \in d.to : u = w
           /\ d.to # {} => ~hasPendingOutRecords(MissEntry(f, i))
           /\ d.nack = {}
<1> DEFINE S == getAvailableNextHops(i.name)
           s == <<i.name, f>>
<1>1. S \subseteq Face /\ s \in QLearningState
  BY DEF getAvailableNextHops, QLearningState
<1>2. S # {} => selectAction(s, S) \subseteq Face
  <2> HIDE DEF S, s
  <2> QED BY <1>1, GreedyIn DEF selectAction
<1>3. \/ d = SendTo({}, i.nonce)
      \/ d = [SendTo({}, i.nonce) EXCEPT !.reject = TRUE]
      \/ /\ ~hasPendingOutRecords(MissEntry(f, i))
         /\ S # {} /\ \E u \in selectAction(s, S) : d = SendTo({u}, i.nonce)
  <2> DEFINE A == {SendTo({u}, i.nonce) : u \in selectAction(s, S)}
  <2>1. afterReceiveInterest(f, i) =
            IF hasPendingOutRecords(MissEntry(f, i)) THEN {SendTo({}, i.nonce)}
            ELSE IF S = {} THEN {[SendTo({}, i.nonce) EXCEPT !.reject = TRUE]} ELSE A
    BY ZenonT(60) DEF afterReceiveInterest
  <2>2. \/ d = SendTo({}, i.nonce)
        \/ d = [SendTo({}, i.nonce) EXCEPT !.reject = TRUE]
        \/ ~hasPendingOutRecords(MissEntry(f, i)) /\ S # {} /\ d \in A
    <3> HIDE DEF A, S
    <3> QED BY <2>1
  <2>3. d \in A => \E u \in selectAction(s, S) : d = SendTo({u}, i.nonce)
    BY ZenonT(60)
  <2> HIDE DEF A, S, s
  <2> QED BY ZenonT(60), <2>2, <2>3
<1> HIDE DEF S, s
<1>4. [u \in Face |-> i.nonce] \in [Face -> {i.nonce} \cup ProbeNonce]
  OBVIOUS
<1>5. CASE d = SendTo({}, i.nonce)
  BY <1>4, <1>5 DEF SendTo, AnyInterestDecision
<1>6. CASE d = [SendTo({}, i.nonce) EXCEPT !.reject = TRUE]
  BY ZenonT(60), <1>4, <1>6 DEF SendTo, AnyInterestDecision
<1>7. CASE /\ ~hasPendingOutRecords(MissEntry(f, i))
           /\ S # {} /\ \E u \in selectAction(s, S) : d = SendTo({u}, i.nonce)
  <2>1. PICK u \in Face : d = SendTo({u}, i.nonce)
    BY ZenonT(60), <1>2, <1>7
  <2> QED BY ZenonT(60), <1>4, <1>7, <2>1 DEF SendTo, AnyInterestDecision
<1> QED BY ZenonT(60), <1>3, <1>5, <1>6, <1>7

\* Whatever Q-learning does with an Interest, some strategy could do.
LEMMA MissRefined ==
    ASSUME TableTyped, up \subseteq Face, NEW f \in Face, NEW i \in Interest,
           onContentStoreMiss(f, i, afterReceiveInterest(f, i))
    PROVE  onContentStoreMiss(f, i, AnyInterestDecision(i))
<1>1. afterReceiveInterest(f, i) \subseteq AnyInterestDecision(i)
  BY InterestDecision
<1> QED BY ZenonT(60), <1>1 DEF onContentStoreMiss

\* Every step of the forwarder with Q-learning is one of the forwarder.
LEMMA StepRefined == IInv /\ TableTyped /\ [QNext]_qVars => [Next]_vars
<1> SUFFICES ASSUME IInv, TableTyped, [QNext]_qVars PROVE Next \/ UNCHANGED vars
  OBVIOUS
<1>1. CASE QInterest
  BY <1>1, MissRefined DEF QInterest, Next, IncomingInterest, IInv
<1>2. CASE QNack
  <2>1. ASSUME NEW r \in Reason PROVE {NackTo({}, r)} \subseteq AnyNackDecision
    BY DEF AnyNackDecision
  <2> QED BY ZenonT(60), <1>2, <2>1 DEF QNack, Next, IncomingNack, onIncomingNack
<1>3. CASE QOther
  BY <1>3 DEF QOther, Next, IncomingNack
<1>4. CASE UNCHANGED qVars
  BY <1>4 DEF qVars
<1> QED BY <1>1, <1>2, <1>3, <1>4 DEF QNext

-----------------------------------------------------------------------------
\* An update leaves the value between the reward of a Nack and zero, and
\* changes only that of the upstream that is the state's face.
LEMMA UpdateFacts ==
    ASSUME TableTyped, OnlyOwnFace, NEW f \in Face, NEW k \in Key, afterReceiveNack(f, k)
    PROVE  TableTyped' /\ OnlyOwnFace'
<1> DEFINE s == <<k.name, f>>
           Q == {0} \cup {m_qTable[s][w] : w \in Face}
           old == m_qTable[s][f]
           newQ == (90 * old + 10 * (-NackPenalty) + 9 * maxNextQ(s)) \div 100
<1>1. s \in QLearningState /\ s[2] = f
  BY KeyFacts DEF QLearningState
<1>2. \A w \in Face : m_qTable[s][w] \in -NackPenalty .. 0
  BY <1>1 DEF TableTyped
<1>3. maxNextQ(s) = 0
  <2>1. 0 \in Q /\ \A p \in Q : p \in Int /\ p =< 0
    BY <1>2
  <2>2. maxNextQ(s) \in Q /\ \A p \in Q : p =< maxNextQ(s)
    <3> HIDE DEF Q
    <3>1. maxNextQ(s) = CHOOSE q \in Q : \A p \in Q : p =< q
      BY DEF maxNextQ, Q
    <3> QED BY <2>1, <3>1
  <2> HIDE DEF Q
  <2> QED BY <2>1, <2>2
<1>4. newQ \in -NackPenalty .. 0
  <2> HIDE DEF s
  <2>1. old \in -NackPenalty .. 0 /\ newQ = (90 * old + 10 * (-NackPenalty)) \div 100
    BY <1>2, <1>3
  <2> HIDE DEF old, newQ
  <2>2. PICK z \in Int : z = 90 * old + 10 * (-NackPenalty) /\ newQ = z \div 100
    BY <2>1
  <2>3. -100 * NackPenalty =< z /\ z =< 0
    BY <2>1, <2>2
  <2>4. newQ \in Int /\ 100 * newQ =< z /\ z < 100 * newQ + 100
    BY <2>2
  <2> QED BY <2>3, <2>4
<1> HIDE DEF newQ
<1>5. m_qTable' = [m_qTable EXCEPT ![s] = [m_qTable[s] EXCEPT ![f] = newQ]]
  BY DEF afterReceiveNack, updateQValue, newQ
<1> HIDE DEF s
<1>6. ASSUME NEW t \in QLearningState, NEW u \in Face
      PROVE  m_qTable'[t][u] = IF t = s /\ u = f THEN newQ ELSE m_qTable[t][u]
  BY <1>1, <1>5 DEF TableTyped
<1>7. TableTyped'
  <2>1. [m_qTable[s] EXCEPT ![f] = newQ] \in [Face -> -NackPenalty .. 0]
    BY <1>1, <1>4 DEF TableTyped
  <2> QED BY <1>1, <1>5, <2>1 DEF TableTyped
<1>8. OnlyOwnFace'
  BY <1>1, <1>6 DEF OnlyOwnFace
<1> QED BY <1>7, <1>8

LEMMA TableStep ==
    ASSUME TableTyped, OnlyOwnFace, [QNext]_qVars
    PROVE  TableTyped' /\ OnlyOwnFace'
<1>1. CASE UNCHANGED m_qTable
  BY <1>1 DEF TableTyped, OnlyOwnFace
<1>2. CASE QNack
  BY <1>2, UpdateFacts DEF QNack
<1> QED BY <1>1, <1>2 DEF QNext, QInterest, QOther, qVars

-----------------------------------------------------------------------------
\* Entries with the out-records of e, or without one of them.
LEMMA KeepsOne ==
    ASSUME NEW e \in Entry, AtMostOne(e), NEW r, NEW f \in Face,
           r.out = e.out \/ r.out = [e.out EXCEPT ![f] = None]
    PROVE  AtMostOne(r)
<1>1. ASSUME NEW u \in Waiting(r) PROVE u \in Waiting(e)
  <2>1. u \in Face /\ r.out[u] # None /\ r.out[u].ttl >= 0 /\ r.out[u].nack = 0
    BY DEF Waiting, Upstreams
  <2>2. r.out[u] = e.out[u]
    BY <2>1 DEF Entry
  <2> QED BY <2>1, <2>2 DEF Waiting, Upstreams
<1> QED BY <1>1 DEF AtMostOne

\* Time only lets out-records expire.
LEMMA OlderKeepsOne ==
    ASSUME NEW e \in Entry, AtMostOne(e)
    PROVE  AtMostOne(Older(e))
<1> DEFINE r == Older(e)
<1>1. r.out = [g \in Face |-> OlderOut(e.out[g])]
  BY DEF Older, Entry
<1> HIDE DEF r
<1>2. ASSUME NEW u \in Waiting(r) PROVE u \in Waiting(e)
  <2>1. u \in Face /\ r.out[u] # None /\ r.out[u].ttl >= 0 /\ r.out[u].nack = 0
    BY DEF Waiting, Upstreams
  <2>2. r.out[u] = OlderOut(e.out[u])
    BY <1>1, <2>1
  <2>3. e.out[u] \in OutRecord
    BY <2>1, <2>2 DEF OlderOut, Entry
  <2>4. e.out[u].nack = r.out[u].nack /\ e.out[u].ttl >= 0 /\ e.out[u] # None
    BY <2>1, <2>2, <2>3, NoneFacts DEF OlderOut, OutRecord
  <2> QED BY <2>1, <2>4 DEF Waiting, Upstreams
<1> QED BY <1>2 DEF AtMostOne, r

\* A decision that sends nothing leaves the out-records alone.
LEMMA NothingSent ==
    ASSUME NEW e \in Entry, NEW d, d.to = {}, NEW hopLimit, NEW lifetime
    PROVE  Decided(e, d, hopLimit, lifetime).out = e.out
<1> DEFINE e1 == insertOrUpdateOutRecords(e, {}, d.nonce, lifetime)
           e2 == deleteInRecords(e1, Nackable(e, d.nack))
<1>1. Sendable(hopLimit, d.to) = {}
  BY DEF Sendable
<1>2. Decided(e, d, hopLimit, lifetime) = IF d.reject THEN [e2 EXCEPT !.timer = 0] ELSE e2
  BY ZenonT(60), <1>1 DEF Decided
<1>3. e1.out = e.out /\ e2.out = e1.out
  BY DEF insertOrUpdateOutRecords, deleteInRecords, Entry
<1>4. [e2 EXCEPT !.timer = 0].out = e2.out
  BY DEF insertOrUpdateOutRecords, deleteInRecords, Entry
<1> HIDE DEF e1, e2
<1> QED BY <1>2, <1>3, <1>4

\* A decision that sends to one face when none is waiting makes that one wait.
LEMMA OneSent ==
    ASSUME NEW e \in Entry, ~hasPendingOutRecords(e), NEW d, \A u, w \in d.to : u = w,
           NEW hopLimit, NEW lifetime
    PROVE  AtMostOne(Decided(e, d, hopLimit, lifetime))
<1> DEFINE S == Sendable(hopLimit, d.to)
           e1 == insertOrUpdateOutRecords(e, S, d.nonce, lifetime)
           e2 == deleteInRecords(e1, Nackable(e, d.nack))
           r == Decided(e, d, hopLimit, lifetime)
<1>1. r = IF d.reject THEN [e2 EXCEPT !.timer = 0] ELSE e2
  BY DEF Decided
<1>2. e2.out = e1.out /\ [e2 EXCEPT !.timer = 0].out = e2.out
  BY DEF insertOrUpdateOutRecords, deleteInRecords, Entry
<1>3. \A u \in Face \ S : e1.out[u] = e.out[u]
  BY DEF insertOrUpdateOutRecords, Entry
<1>4. \A u, w \in S : u = w
  BY DEF Sendable
<1>5. Waiting(e) = {}
  BY DEF Waiting, hasPendingOutRecords
<1> HIDE DEF S, e1, e2, r
<1>6. r.out = e1.out
  BY <1>1, <1>2
<1>7. ASSUME NEW u \in Waiting(r), u \notin S PROVE FALSE
  <2>1. u \in Face /\ r.out[u] = e.out[u]
    BY <1>3, <1>6, <1>7 DEF Waiting, Upstreams
  <2>2. u \in Waiting(e)
    BY <2>1 DEF Waiting, Upstreams
  <2> QED BY <1>5, <2>2
<1> QED BY <1>4, <1>7 DEF AtMostOne, r

\* A Nack takes its upstream from those that are waited for.
LEMMA NackKeepsOne ==
    ASSUME NEW k \in Key, pit[k] \in Entry, AtMostOne(pit[k]), NEW f \in Upstreams(pit[k]),
           NEW r \in Reason
    PROVE  AtMostOne(NackedEntry(k, f, r))
<1> DEFINE e == pit[k]
           n == NackedEntry(k, f, r)
<1>1. n.out = [e.out EXCEPT ![f] = [e.out[f] EXCEPT !.nack = r]]
  BY DEF NackedEntry, Entry
<1>2. f \in Face /\ e.out[f] \in OutRecord /\ e.out \in [Face -> OutRecord \cup {None}]
  BY DEF Upstreams, Entry
<1>3. r # 0
  BY DEF CONGESTION, DUPLICATE, NO_ROUTE
<1>4. n.out[f].nack = r
  BY <1>1, <1>2 DEF OutRecord
<1> HIDE DEF n, e
<1>5. ASSUME NEW u \in Waiting(n) PROVE u \in Waiting(e)
  <2>1. u \in Face /\ u # f
    BY <1>3, <1>4 DEF Waiting, Upstreams
  <2>2. n.out[u] = e.out[u]
    BY <1>1, <1>2, <2>1
  <2> QED BY <2>1, <2>2 DEF Waiting, Upstreams
<1> QED BY <1>5 DEF AtMostOne, n, e

\* No step of the forwarder with Q-learning makes two upstreams wait.
LEMMA AtMostOneStep ==
    ASSUME IInv, TableTyped, Untagged, \A k \in Key : AtMostOne(pit[k]), [QNext]_qVars
    PROVE  \A k \in Key : AtMostOne(pit'[k])
<1>1. /\ up \subseteq Face /\ DOMAIN pit = Key
      /\ \A k \in Key : pit[k] \in Entry /\ Sound(pit[k], up) /\ Kept(pit[k])
  BY DEF IInv, Sound
<1>2. ASSUME NEW j \in Key, NEW e, pit' = [pit EXCEPT ![j] = e], AtMostOne(e)
      PROVE  \A k \in Key : AtMostOne(pit'[k])
  BY <1>1, <1>2
<1>3. CASE pit' = pit
  BY <1>3
<1>4. ASSUME NEW f \in Face, NEW i \in Interest, onInterestLoop(f, i)
      PROVE  \A k \in Key : AtMostOne(pit'[k])
  <2> DEFINE e == pit[KeyOf(i)]
  <2>1. KeyOf(i) \in Key
    BY KeyFacts
  <2>2. insert(e).out = e.out
    BY <1>1, <2>1 DEF insert, Entry
  <2>3. AtMostOne(insert(e))
    BY ZenonT(60), <1>1, <2>1, <2>2, KeepsOne
  <2>4. pit' = pit \/ pit' = [pit EXCEPT ![KeyOf(i)] = insert(e)]
    BY <1>4 DEF onInterestLoop
  <2> QED BY <1>2, <1>3, <2>1, <2>3, <2>4
<1>5. ASSUME NEW f \in Face, NEW i \in Interest, NEW d \in Data, onContentStoreHit(f, i, d)
      PROVE  \A k \in Key : AtMostOne(pit'[k])
  <2> DEFINE h == HitEntry(f, i, d)
  <2>1. KeyOf(i) \in Key
    BY KeyFacts
  <2>2. h.out = pit[KeyOf(i)].out
    BY <1>1, <2>1 DEF HitEntry, deleteInRecords, insert, Entry
  <2>3. AtMostOne(h)
    <3> HIDE DEF h
    <3> QED BY ZenonT(60), <1>1, <2>1, <2>2, KeepsOne
  <2> QED BY <1>2, <1>5, <2>1, <2>3 DEF onContentStoreHit
<1>6. ASSUME NEW f \in Face, NEW i \in Interest,
             onContentStoreMiss(f, i, afterReceiveInterest(f, i))
      PROVE  \A k \in Key : AtMostOne(pit'[k])
  <2> DEFINE m == MissEntry(f, i)
             k == KeyOf(i)
  <2>1. k \in Key
    BY KeyFacts
  <2>2. PICK d \in afterReceiveInterest(f, i) :
            pit' = [pit EXCEPT ![k] = Decided(m, d, i.hopLimit, i.lifetime)]
    BY ZenonT(60), <1>6 DEF onContentStoreMiss, Untagged
  <2>3. m \in Entry
    BY <1>6, MissTyped DEF onContentStoreMiss, Sound
  <2>4. m.out = pit[k].out
    BY <1>1, <2>1 DEF MissEntry, insertOrUpdateInRecord, insert, Entry
  <2>5. AtMostOne(m)
    <3> HIDE DEF m
    <3> QED BY ZenonT(60), <1>1, <2>1, <2>4, KeepsOne
  <2>6. (\A u, w \in d.to : u = w) /\ (d.to # {} => ~hasPendingOutRecords(m))
    BY <1>1, InterestDecision
  <2> HIDE DEF m
  <2>7. CASE d.to = {}
    <3>1. Decided(m, d, i.hopLimit, i.lifetime).out = m.out
      BY <2>3, <2>7, NothingSent
    <3>2. AtMostOne(Decided(m, d, i.hopLimit, i.lifetime))
      BY ZenonT(60), <2>3, <2>5, <3>1, KeepsOne
    <3> QED BY <1>2, <2>1, <2>2, <3>2
  <2>8. CASE d.to # {}
    <3>1. AtMostOne(Decided(m, d, i.hopLimit, i.lifetime))
      BY <2>3, <2>6, <2>8, OneSent
    <3> QED BY <1>2, <2>1, <2>2, <3>1
  <2> QED BY <2>7, <2>8
<1>7. ASSUME NEW f \in Face, NEW k \in Key, NEW nonce \in Nonce, NEW r \in Reason,
             onIncomingNack(f, k, nonce, r, {NackTo({}, r)})
      PROVE  \A j \in Key : AtMostOne(pit'[j])
  <2> DEFINE n == NackedEntry(k, f, r)
             d == NackTo({}, r)
  <2>1. f \in Upstreams(pit[k]) /\ pit' = [pit EXCEPT ![k] = Decided(n, d, 2, 0)]
    BY <1>7 DEF onIncomingNack, AnswersOutRecord
  <2>2. n \in Entry /\ AtMostOne(n)
    BY <1>1, <2>1, RecordsMeanArmed, NackedSound, NackKeepsOne DEF Sound
  <2>3. d.to = {}
    BY DEF NackTo
  <2> HIDE DEF n, d
  <2>4. AtMostOne(Decided(n, d, 2, 0))
    <3>1. Decided(n, d, 2, 0).out = n.out
      BY ZenonT(60), <2>2, <2>3, NothingSent
    <3> QED BY ZenonT(60), <2>2, <3>1, KeepsOne
  <2> QED BY <1>2, <2>1, <2>4
<1>8. ASSUME NEW k \in Key, onInterestFinalize(k) PROVE \A j \in Key : AtMostOne(pit'[j])
  <2>1. AtMostOne(Absent)
    BY DEF AtMostOne, Waiting, Absent, Upstreams
  <2> QED BY <1>2, <1>8, <2>1 DEF onInterestFinalize
<1>9. ASSUME NEW f \in Face, NEW d, NEW same, onIncomingData(f, d, same)
      PROVE  \A k \in Key : AtMostOne(pit'[k])
  <2>1. PICK o : pit' = [k \in Key |-> IF k \in Matches(d)
                             THEN SatisfiedEntry(k, d, f, SatisfiedUpTo(o, k)) ELSE pit[k]]
    BY ZenonT(60), <1>9 DEF onIncomingData
  <2>2. ASSUME NEW k \in Key, NEW T PROVE AtMostOne(SatisfiedEntry(k, d, f, T))
    <3> DEFINE r == SatisfiedEntry(k, d, f, T)
    <3>1. r.out = [pit[k].out EXCEPT ![f] = None]
      BY <1>1 DEF SatisfiedEntry, deleteOutRecord, deleteInRecords, Entry
    <3> HIDE DEF r
    <3>2. AtMostOne(r)
      BY ZenonT(60), <1>1, <3>1, KeepsOne
    <3> QED BY <3>2 DEF r
  <2> QED BY <2>1, <2>2
<1>10. ASSUME NEW f \in Face, removeFace(f) PROVE \A k \in Key : AtMostOne(pit'[k])
  <2>1. pit' = [k \in Key |-> deleteOutRecord(deleteInRecords(pit[k], {f}), f)]
    BY <1>10 DEF removeFace
  <2>2. ASSUME NEW k \in Key PROVE AtMostOne(pit'[k])
    <3>1. pit'[k].out = [pit[k].out EXCEPT ![f] = None]
      BY ZenonT(60), <1>1, <2>1 DEF deleteOutRecord, deleteInRecords, Entry
    <3> QED BY ZenonT(60), <1>1, <3>1, KeepsOne
  <2> QED BY <2>2
<1>11. CASE Tick
  BY <1>1, <1>11, OlderKeepsOne DEF Tick
<1>12. CASE QInterest
  BY <1>3, <1>4, <1>5, <1>6, <1>12 DEF QInterest, DropInterest
<1>13. CASE QNack
  BY <1>7, <1>13 DEF QNack
<1>14. CASE QOther
  <2>1. CASE IncomingData
    <3>1. PICK f \in Face, d \in Data :
            \/ DropData(f, d)
            \/ \E same \in IF f \in P2P THEN {TRUE} ELSE BOOLEAN :
                   onIncomingData(f, d, same)
            \/ onDataUnsolicited(f, d)
      BY ZenonT(60), <2>1 DEF IncomingData
    <3>2. DropData(f, d) \/ onDataUnsolicited(f, d) => pit' = pit
      BY DEF DropData, onDataUnsolicited
    <3> QED BY ZenonT(60), <1>3, <1>9, <3>1, <3>2
  <2>2. CASE Environment
    <3>1. pit' = pit \/ \E f \in Face : removeFace(f)
      BY <2>2 DEF Environment, addFace, ageOrEvict, forget
    <3> QED BY <1>3, <1>10, <3>1
  <2> QED BY <1>3, <1>8, <1>11, <1>14, <2>1, <2>2 DEF QOther, Finalize, DropNack
<1>15. CASE UNCHANGED qVars
  BY <1>3, <1>15 DEF qVars, vars
<1> QED BY <1>12, <1>13, <1>14, <1>15 DEF QNext

-----------------------------------------------------------------------------
\* The inductive invariant of the forwarder with Q-learning.
LEMMA QInvariant == QSpec => []QInv
<1>1. QInit => QInv
  <2> SUFFICES ASSUME QInit PROVE QInv
    OBVIOUS
  <2>1. IInv
    BY IInvInit DEF QInit
  <2>2. TableTyped /\ OnlyOwnFace
    BY DEF QInit, TableTyped, OnlyOwnFace
  <2>3. \A k \in Key : AtMostOne(pit[k])
    BY DEF QInit, Init, AtMostOne, Waiting, Absent, Upstreams
  <2> QED BY <2>1, <2>2, <2>3 DEF QInv
<1>2. QInv /\ [QNext]_qVars => QInv'
  <2> SUFFICES ASSUME QInv, [QNext]_qVars PROVE QInv'
    OBVIOUS
  <2>1. IInv'
    BY StepRefined, IInvStep DEF QInv
  <2>2. TableTyped' /\ OnlyOwnFace'
    BY TableStep DEF QInv
  <2>3. Untagged => \A k \in Key : AtMostOne(pit'[k])
    BY AtMostOneStep DEF QInv
  <2> QED BY <2>1, <2>2, <2>3 DEF QInv, Untagged
<1> QED BY <1>1, <1>2, PTL DEF QSpec

\* The forwarder with Q-learning implements the forwarder with any strategy:
\* each step of the one is a step of the other.
THEOREM QLearningRefines == QSpec => ImplementsForwarder
<1>1. QInit => Init
  BY DEF QInit
<1>2. QInv => IInv /\ TableTyped
  BY DEF QInv
<1> QED BY <1>1, <1>2, StepRefined, QInvariant, PTL DEF QSpec, Spec, ImplementsForwarder

\* updateQValue keeps every value between the reward of a Nack and zero, for
\* any penalty; the tables keep their types.
THEOREM QTypeCorrect == QSpec => []QTypeOK
<1>1. QInv => QTypeOK
  <2> SUFFICES ASSUME QInv PROVE QTypeOK
    OBVIOUS
  <2>1. \A k \in Key : pit[k] \in Entry
    BY DEF QInv, IInv, Sound
  <2>2. pit \in [Key -> Entry]
    BY <2>1 DEF QInv, IInv
  <2> QED BY <2>2 DEF QInv, IInv, TypeOK, QTypeOK, TableTyped
<1> QED BY <1>1, QInvariant, PTL

\* What afterReceiveNack learns never changes what selectAction finds best for
\* an Interest from a face that is no next hop.
THEOREM NothingLearnt == QSpec => []GreedyTakesFirst
<1>1. QInv => GreedyTakesFirst
  <2> SUFFICES ASSUME QInv, NEW n \in Name, NEW f \in Face, f \notin getAvailableNextHops(n)
               PROVE  Greedy(<<n, f>>, getAvailableNextHops(n)) = First(n, getAvailableNextHops(n))
    BY DEF GreedyTakesFirst
  <2> DEFINE S == getAvailableNextHops(n)
             s == <<n, f>>
  <2>1. S \subseteq Face /\ s \in QLearningState /\ s[1] = n /\ s[2] = f
    BY DEF QInv, IInv, getAvailableNextHops, QLearningState
  <2>2. \A u \in S : m_qTable[s][u] = 0
    BY <2>1 DEF QInv, OnlyOwnFace
  <2> HIDE DEF S, s
  <2>3. {u \in S : \A w \in S : m_qTable[s][w] =< m_qTable[s][u]} = S
    BY <2>2
  <2>4. Greedy(s, S) = First(n, S)
    BY ZenonT(60), <2>1, <2>3 DEF Greedy
  <2> QED BY <2>4 DEF S, s
<1> QED BY <1>1, QInvariant, PTL

\* The check with hasPendingOutRecords avoids duplicate forwarding: an entry
\* never waits for two upstreams, as long as no application chooses the next
\* hop itself.
THEOREM OneAtATime == QSpec => [](Untagged => OneUpstreamPending)
<1>1. QInv => (Untagged => OneUpstreamPending)
  <2> SUFFICES ASSUME QInv, Untagged, NEW k \in Key
               PROVE  Cardinality(Waiting(pit[k])) =< 1
    BY DEF OneUpstreamPending, Waiting
  <2>1. AtMostOne(pit[k])
    BY DEF QInv
  <2> DEFINE W == Waiting(pit[k])
  <2>2. \A u, w \in W : u = w
    BY <2>1 DEF AtMostOne
  <2> HIDE DEF W
  <2>3. W = {} \/ \E u : W = {u}
    BY <2>2
  <2>4. Cardinality(W) =< 1
    <3>1. CASE W = {}
      BY <3>1, FS_EmptySet
    <3>2. ASSUME NEW u, W = {u} PROVE Cardinality(W) =< 1
      <4>1. Cardinality({u}) = 1
        BY ZenonT(60), FS_Singleton
      <4> QED BY <3>2, <4>1
    <3> QED BY ZenonT(60), <2>3, <3>1, <3>2
  <2> QED BY <2>4 DEF W
<1> QED BY <1>1, QInvariant, PTL

\* Also with Q-learning, Data answers every waiting downstream once.
THEOREM QAnswersOnce == QSpec => OneDataPerInterest
BY QLearningRefines, DataAnswersOnce DEF ImplementsForwarder
=============================================================================
