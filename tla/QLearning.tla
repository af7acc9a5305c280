------------------------------ MODULE QLearning ------------------------------
(***************************************************************************)
(* The Forwarder with the Q-learning strategy (daemon/fw/                  *)
(* q-learning-strategy.cpp).                                               *)
(*                                                                         *)
(* Q-values are integers, rounded down, in units that NackPenalty sets;    *)
(* the learning rate is 1/10 and the discount 9/10.  The FIB is a ranking  *)
(* of next hops per name, as in BestRoute.                                 *)
(*                                                                         *)
(* The table is only written when a Nack comes: afterReceiveData, which    *)
(* would add the reward for Data, is called by no pipeline.                *)
(***************************************************************************)
EXTENDS Forwarder

CONSTANTS
    Rank,         \* Rank[n][f]: position of f among n's next hops, 0 if none
    NackPenalty   \* 5.0 in the code

ASSUME RewardAssumption ==
    /\ NackPenalty \in Nat \ {0} /\ Rank \in [Name -> [Face -> Nat]]
    /\ NO_ROUTE \in Reason

VARIABLE m_qTable   \* m_qTable[<<n, f>>][u]: value of next hop u in the state n, f

qVars == <<vars, m_qTable>>

QLearningState == Name \X Face

-----------------------------------------------------------------------------
getAvailableNextHops(n) == {f \in up : Rank[n][f] # 0}
First(n, S) == CHOOSE f \in S : \A g \in S : Rank[n][f] =< Rank[n][g]

\* The greedy choice of selectAction: the first of the hops with the highest value
Greedy(s, S) == First(s[1], {u \in S : \A w \in S : m_qTable[s][w] =< m_qTable[s][u]})

\* Exploration may take any next hop.
selectAction(s, S) == S \cup {Greedy(s, S)}

\* updateQValue, whose nextState is always the state itself
maxNextQ(s) ==
    LET Q == {0} \cup {m_qTable[s][w] : w \in Face} IN CHOOSE q \in Q : \A p \in Q : p =< q
updateQValue(s, u, reward) ==
    LET newQ == (90 * m_qTable[s][u] + 10 * reward + 9 * maxNextQ(s)) \div 100
    IN  [m_qTable EXCEPT ![s] = [@ EXCEPT ![u] = newQ]]

\* Mutated form, used only to show that a property can fail.
ForwardAgain(f, i) ==
    LET S == getAvailableNextHops(i.name)
    IN  IF S = {} THEN {[SendTo({}, i.nonce) EXCEPT !.reject = TRUE]}
        ELSE {SendTo({u}, i.nonce) : u \in selectAction(<<i.name, f>>, S)}

\* QLearningStrategy::afterReceiveInterest: what it may decide
afterReceiveInterest(f, i) ==
    LET S == getAvailableNextHops(i.name)
    IN  IF hasPendingOutRecords(MissEntry(f, i)) THEN {SendTo({}, i.nonce)}
        ELSE IF S = {} THEN {[SendTo({}, i.nonce) EXCEPT !.reject = TRUE]}
        ELSE {SendTo({u}, i.nonce) : u \in selectAction(<<i.name, f>>, S)}

\* Mutated form, used only to show that a property can fail.
LearnForDownstreams(f, k) ==
    m_qTable' = [s \in QLearningState |->
                   IF s[1] = k.name /\ s[2] \in Downstreams(pit[k])
                   THEN updateQValue(s, f, -NackPenalty)[s] ELSE m_qTable[s]]

\* QLearningStrategy::afterReceiveNack: the table; the base class does nothing
afterReceiveNack(f, k) == m_qTable' = updateQValue(<<k.name, f>>, f, -NackPenalty)

-----------------------------------------------------------------------------
QInit == Init /\ m_qTable = [s \in QLearningState |-> [u \in Face |-> 0]]

QInterest ==
    /\ \E f \in Face, i \in Interest :
          \/ DropInterest(f, i)
          \/ onInterestLoop(f, i)
          \/ \E d \in Data : onContentStoreHit(f, i, d)
          \/ onContentStoreMiss(f, i, afterReceiveInterest(f, i))
    /\ UNCHANGED m_qTable
QNack ==
    \E f \in Face, k \in Key, nonce \in Nonce, r \in Reason :
        /\ onIncomingNack(f, k, nonce, r, {NackTo({}, r)})
        /\ afterReceiveNack(f, k)
QOther ==
    /\ \/ IncomingData \/ Environment \/ Tick \/ Finalize
       \/ \E f \in Face, k \in Key, nonce \in Nonce : DropNack(f, k, nonce)
    /\ UNCHANGED m_qTable

QNext == QInterest \/ QNack \/ QOther
QSpec == QInit /\ [][QNext]_qVars

-----------------------------------------------------------------------------
\* Properties

\* Q-values stay between the reward of a Nack and zero: no Data is rewarded.
QTypeOK == TypeOK /\ m_qTable \in [QLearningState -> [Face -> -NackPenalty .. 0]]

\* The strategy is one of those that Forwarder allows.
ImplementsForwarder == Spec

\* No duplicate forwarding: over retransmissions, Nacks, expiry and face
\* changes an entry never has two pending out-records.  (An upstream that has
\* returned a Nack and is sent the Interest again is not counted, as its
\* out-record keeps the Nack.)
OneUpstreamPending ==
    \A k \in Key : Cardinality({u \in Upstreams(pit[k]) :
                       pit[k].out[u].ttl >= 0 /\ pit[k].out[u].nack = 0}) =< 1

\* What is learnt does not reach the choice: the state of an update holds the
\* upstream where the state of a choice holds the downstream, so for an
\* Interest from a face that is no next hop the greedy choice is the first next
\* hop, however many Nacks it has returned.
GreedyTakesFirst ==
    \A n \in Name, f \in Face :
        LET S == getAvailableNextHops(n)
        IN  S # {} /\ f \notin S => Greedy(<<n, f>>, S) = First(n, S)
=============================================================================
