------------------------ MODULE LpReliabilityProofs ------------------------
(* Proofs about LpReliability for any packets, fragment counts, number space  *)
(* and options.  LpInv is the inductive invariant.  Its part about the sender *)
(* is stated of a state s rather than of snd, as the handlers are loops that  *)
(* have to keep it at every turn.  Sequence numbers are compared by their     *)
(* distance to the one assigned last, which is what survives a wraparound.    *)
EXTENDS LpReliability, WellFoundedInduction, TLAPS

\* The provers a leaf that names none is tried with.
USE SMTT(30), ZenonT(30), SMTT(60)

-----------------------------------------------------------------------------
(* Sequences.                                                                 *)

(* Type, length and elements of a part.                                       *)
LEMMA SubSeqProperties ==
  ASSUME NEW S, NEW q, NEW a \in Int, NEW b \in Int, \A i \in a .. b : q[i] \in S
  PROVE  /\ SubSeq(q, a, b) \in Seq(S)
         /\ Len(SubSeq(q, a, b)) = IF a <= b THEN b - a + 1 ELSE 0
         /\ \A i \in 1 .. b - a + 1 : SubSeq(q, a, b)[i] = q[a + i - 1]
OBVIOUS

-----------------------------------------------------------------------------
(* Loops.                                                                     *)

(* A non-empty set of numbers has a least element.                            *)
LEMMA LeastOf ==
  ASSUME NEW T, T \subseteq Nat, T # {}
  PROVE  \E t \in T : \A s \in T : t <= s
<1> DEFINE R == {p \in Nat \X Nat : p[1] < p[2]}
<1>1. IsWellFoundedOn(R, Nat)
  BY NatLessThanWellFounded DEF OpToRel
<1>2. \A x, y \in Nat : x < y => <<x, y>> \in R
  OBVIOUS
<1> HIDE DEF R
<1>3. PICK t \in T : \A s \in T : ~(<<s, t>> \in R)
  BY ZenonT(60), <1>1, WFMin
<1>4. ASSUME NEW s \in T PROVE t <= s
  <2>1. ~(s < t)
    BY ZenonT(60), <1>2, <1>3
  <2> QED BY <2>1
<1> QED BY <1>4

(* What holds at first and is kept by every turn of a loop holds at its end.  *)
LEMMA LoopInduction ==
  ASSUME NEW n \in Nat, NEW S, 0 \in S, \A i \in 0 .. n - 1 : i \in S => i + 1 \in S
  PROVE  \A i \in 0 .. n : i \in S
<1> DEFINE T == {i \in 0 .. n : i \notin S}
<1> SUFFICES ASSUME T # {} PROVE FALSE
  OBVIOUS
<1>1. T \subseteq Nat
  OBVIOUS
<1>2. PICK t \in T : \A s \in T : t <= s
  BY ZenonT(60), <1>1, LeastOf
<1>3. t \in 1 .. n /\ t \notin S
  OBVIOUS
<1>4. t - 1 \in S
  BY <1>2, <1>3
<1> QED BY <1>3, <1>4

(* handleOutgoing runs through the fragments of the packet.                   *)
LEMMA OutgoingLoop ==
  ASSUME NEW s, NEW p \in Packet
  PROVE  \E g : /\ g[0] = s
                /\ \A i \in 1 .. NFrags[p] : g[i] = Transmit(g[i - 1], <<p, i - 1>>, 0)
                /\ handleOutgoing(s, p) = g[NFrags[p]]
<1> DEFINE n == NFrags[p]
           Turn(g, i) == IF i = 0 THEN s ELSE Transmit(g[i - 1], <<p, i - 1>>, 0)
           S == {k \in 0 .. n : \E g : g = [i \in 0 .. k |-> Turn(g, i)]}
           sent == CHOOSE g : g = [i \in 0 .. n |-> Turn(g, i)]
<1>1. n \in Nat
  BY LpAssumption
<1>2. handleOutgoing(s, p) = sent[n]
  BY DEF handleOutgoing
<1>3. 0 \in S
  <2> DEFINE g == [i \in 0 .. 0 |-> s]
  <2>1. g = [i \in 0 .. 0 |-> Turn(g, i)]
    OBVIOUS
  <2> HIDE DEF g
  <2>2. \E x : x = [i \in 0 .. 0 |-> Turn(x, i)]
    BY ZenonT(60), <2>1
  <2> QED BY <1>1, <2>2
<1>4. ASSUME NEW k \in 0 .. n - 1, k \in S PROVE k + 1 \in S
  <2>1. PICK g : g = [i \in 0 .. k |-> Turn(g, i)]
    BY <1>4
  <2> DEFINE h == [i \in 0 .. k + 1 |-> IF i = k + 1 THEN Transmit(g[k], <<p, k>>, 0) ELSE g[i]]
  <2>2. \A i \in 0 .. k : g[i] = Turn(g, i)
    BY <2>1
  <2>3. \A i \in 0 .. k + 1 : h[i] = Turn(h, i)
    BY <1>1, <2>2
  <2>4. h = [i \in 0 .. k + 1 |-> Turn(h, i)]
    BY ZenonT(60), SMTT(60), <2>3
  <2> HIDE DEF h
  <2>5. \E x : x = [i \in 0 .. k + 1 |-> Turn(x, i)]
    BY ZenonT(60), <2>4
  <2> QED BY <1>1, <2>5
<1>5. n \in S
  <2> HIDE DEF S
  <2> QED BY <1>1, <1>3, <1>4, LoopInduction
<1>6. sent = [i \in 0 .. n |-> Turn(sent, i)]
  BY ZenonT(60), SMTT(60), <1>5
<1> HIDE DEF sent
<1>7. \A i \in 0 .. n : sent[i] = Turn(sent, i)
  BY ZenonT(60), SMTT(60), <1>6
<1>8. sent[0] = s /\ \A i \in 1 .. n : sent[i] = Transmit(sent[i - 1], <<p, i - 1>>, 0)
  <2>1. 0 \in 0 .. n /\ \A i \in 1 .. n : i \in 0 .. n /\ i # 0
    BY <1>1
  <2> QED BY ZenonT(60), <1>7, <2>1
<1> QED BY <1>2, <1>8

(* One turn of the loop over lostLpPackets.                                   *)
LossTurn(r, lost, t) == IF t \in lost \ r.removed THEN onLpPacketLost(r, t) ELSE r

(* The loop over lostLpPackets goes once around the numbers.                  *)
LEMMA LossLoop ==
  ASSUME NEW s, NEW lost, NEW start
  PROVE  \E g : /\ g[0] = [s EXCEPT !.removed = {}]
                /\ \A i \in 1 .. SeqSpace : g[i] = LossTurn(g[i - 1], lost, Plus(start, i - 1))
                /\ HandleLost(s, lost, start) = g[SeqSpace]
<1> DEFINE n == SeqSpace
           Turn(g, i) == IF i = 0 THEN [s EXCEPT !.removed = {}] ELSE LossTurn(g[i - 1], lost, Plus(start, i - 1))
           S == {k \in 0 .. n : \E g : g = [i \in 0 .. k |-> Turn(g, i)]}
           after == CHOOSE g : g = [i \in 0 .. n |-> Turn(g, i)]
<1>1. n \in Nat
  BY LpAssumption
<1>2. HandleLost(s, lost, start) = after[n]
  BY DEF HandleLost, LossTurn
<1>3. 0 \in S
  <2> DEFINE g == [i \in 0 .. 0 |-> [s EXCEPT !.removed = {}]]
  <2>1. g = [i \in 0 .. 0 |-> Turn(g, i)]
    OBVIOUS
  <2> HIDE DEF g
  <2>2. \E x : x = [i \in 0 .. 0 |-> Turn(x, i)]
    BY ZenonT(60), <2>1
  <2> QED BY <1>1, <2>2
<1>4. ASSUME NEW k \in 0 .. n - 1, k \in S PROVE k + 1 \in S
  <2>1. PICK g : g = [i \in 0 .. k |-> Turn(g, i)]
    BY <1>4
  <2> DEFINE h == [i \in 0 .. k + 1 |-> IF i = k + 1 THEN LossTurn(g[k], lost, Plus(start, k)) ELSE g[i]]
  <2>2. \A i \in 0 .. k : g[i] = Turn(g, i)
    BY ZenonT(60), SMTT(60), <2>1
  <2>3. \A i \in 0 .. k + 1 : h[i] = Turn(h, i)
    <3>1. k \in Nat /\ \A i \in 0 .. k : i # k + 1 /\ i \in 0 .. k + 1 /\ (i # 0 => i - 1 \in 0 .. k)
      BY <1>1
    <3>2. \A i \in 0 .. k : h[i] = g[i]
      BY <3>1
    <3>3. \A i \in 0 .. k : h[i] = Turn(h, i)
      BY ZenonT(60), SMTT(60), <2>2, <3>1, <3>2
    <3>4. h[k + 1] = LossTurn(g[k], lost, Plus(start, k)) /\ h[k] = g[k] /\ (k + 1) - 1 = k /\ k + 1 # 0
      BY <3>1, <3>2
    <3>5. h[k + 1] = Turn(h, k + 1)
      BY <3>4
    <3> HIDE DEF h, Turn
    <3> QED BY <3>1, <3>3, <3>5
  <2>4. h = [i \in 0 .. k + 1 |-> Turn(h, i)]
    BY ZenonT(60), SMTT(60), <2>3
  <2> HIDE DEF h
  <2>5. \E x : x = [i \in 0 .. k + 1 |-> Turn(x, i)]
    BY ZenonT(60), <2>4
  <2> QED BY <1>1, <2>5
<1>5. n \in S
  <2> HIDE DEF S
  <2> QED BY <1>1, <1>3, <1>4, LoopInduction
<1>6. after = [i \in 0 .. n |-> Turn(after, i)]
  BY ZenonT(60), SMTT(60), <1>5
<1> HIDE DEF after
<1>7. \A i \in 0 .. n : after[i] = Turn(after, i)
  BY ZenonT(60), SMTT(60), <1>6
<1>8. after[0] = [s EXCEPT !.removed = {}] /\ \A i \in 1 .. n : after[i] = LossTurn(after[i - 1], lost, Plus(start, i - 1))
  <2>1. 0 \in 0 .. n /\ \A i \in 1 .. n : i \in 0 .. n /\ i # 0
    BY <1>1
  <2> QED BY ZenonT(60), <1>7, <2>1
<1> QED BY <1>2, <1>8

(* processIncomingPacket runs through the Acks of the packet.                 *)
LEMMA AcksLoop ==
  ASSUME NEW s, NEW acks, Len(acks) \in Nat
  PROVE  \E g : /\ g[0] = s
                /\ \A i \in 1 .. Len(acks) : g[i] = ProcessAck(g[i - 1], acks[i])
                /\ ProcessAcks(s, acks) = g[Len(acks)]
<1> DEFINE n == Len(acks)
           Turn(g, i) == IF i = 0 THEN s ELSE ProcessAck(g[i - 1], acks[i])
           S == {k \in 0 .. n : \E g : g = [i \in 0 .. k |-> Turn(g, i)]}
           after == CHOOSE g : g = [i \in 0 .. n |-> Turn(g, i)]
<1>1. n \in Nat
  OBVIOUS
<1>2. ProcessAcks(s, acks) = after[n]
  BY DEF ProcessAcks
<1>3. 0 \in S
  <2> DEFINE g == [i \in 0 .. 0 |-> s]
  <2>1. g = [i \in 0 .. 0 |-> Turn(g, i)]
    OBVIOUS
  <2> HIDE DEF g
  <2>2. \E x : x = [i \in 0 .. 0 |-> Turn(x, i)]
    BY ZenonT(60), <2>1
  <2> QED BY <1>1, <2>2
<1>4. ASSUME NEW k \in 0 .. n - 1, k \in S PROVE k + 1 \in S
  <2>1. PICK g : g = [i \in 0 .. k |-> Turn(g, i)]
    BY <1>4
  <2> DEFINE h == [i \in 0 .. k + 1 |-> IF i = k + 1 THEN ProcessAck(g[k], acks[k + 1]) ELSE g[i]]
  <2>2. \A i \in 0 .. k : g[i] = Turn(g, i)
    BY <2>1
  <2>3. \A i \in 0 .. k + 1 : h[i] = Turn(h, i)
    BY <1>1, <2>2
  <2>4. h = [i \in 0 .. k + 1 |-> Turn(h, i)]
    BY <2>3
  <2> HIDE DEF h
  <2>5. \E x : x = [i \in 0 .. k + 1 |-> Turn(x, i)]
    BY ZenonT(60), <2>4
  <2> QED BY <1>1, <2>5
<1>5. n \in S
  <2> HIDE DEF S, n
  <2>1. \A i \in 0 .. n - 1 : i \in S => i + 1 \in S
    BY <1>4
  <2>2. \A i \in 0 .. n : i \in S
    BY ZenonT(60), <1>1, <1>3, <2>1, LoopInduction
  <2> QED BY <1>1, <2>2
<1>6. after = [i \in 0 .. n |-> Turn(after, i)]
  BY <1>5
<1> HIDE DEF after
<1>7. \A i \in 0 .. n : after[i] = Turn(after, i)
  BY <1>6
<1>8. after[0] = s /\ \A i \in 1 .. n : after[i] = ProcessAck(after[i - 1], acks[i])
  <2>1. 0 \in 0 .. n /\ \A i \in 1 .. n : i \in 0 .. n /\ i # 0
    BY <1>1
  <2> QED BY ZenonT(60), <1>7, <2>1
<1> QED BY <1>2, <1>8
-----------------------------------------------------------------------------
(* Types.                                                                     *)

Frag == UNION {Fragments(p) : p \in Packet}
Message == [tx : TxSequence, frag : Frag]
UnackedFrag == [frag : Frag, retx : Nat, greater : Nat, nth : Nat]
UnackedFrags == UNION {[D -> UnackedFrag] : D \in SUBSET TxSequence}
Outcome == {"unsent", "pending", "acknowledged", "retransmitted", "dropped"}
Sender ==
  [lastTx : TxSequence, unacked : UnackedFrags, first : TxSequence \cup {NoSeq},
   netPkt : [Packet -> SUBSET TxSequence], didRetx : [Packet -> BOOLEAN],
   outcome : [Packet -> Outcome], count : Nat, failed : BOOLEAN,
   out : Seq(Message), removed : SUBSET TxSequence]

(* A fragment belongs to a packet.                                            *)
LEMMA FragFacts ==
  ASSUME NEW f \in Frag
  PROVE  f[1] \in Packet /\ f \in Fragments(f[1])
<1>1. PICK p \in Packet : f \in Fragments(p)
  BY DEF Frag
<1>2. f[1] = p
  BY <1>1 DEF Fragments
<1> QED BY <1>1, <1>2

(* What is in m_unackedFrags.                                                 *)
LEMMA MapFacts ==
  ASSUME NEW U \in UnackedFrags
  PROVE  /\ DOMAIN U \subseteq TxSequence
         /\ \A t \in DOMAIN U :
              /\ U[t] \in UnackedFrag
              /\ U[t].frag \in Frag /\ U[t].retx \in Nat
              /\ U[t].greater \in Nat /\ U[t].nth \in Nat
<1>1. PICK D \in SUBSET TxSequence : U \in [D -> UnackedFrag]
  BY DEF UnackedFrags
<1> QED BY <1>1 DEF UnackedFrag

(* A map of the right type is an m_unackedFrags.                              *)
LEMMA MapTyped ==
  ASSUME NEW D \in SUBSET TxSequence, NEW U \in [D -> UnackedFrag]
  PROVE  U \in UnackedFrags
  BY DEF UnackedFrags

(* The fields of a sender.                                                    *)
LEMMA SenderFacts ==
  ASSUME NEW s \in Sender
  PROVE  /\ s.lastTx \in TxSequence /\ s.unacked \in UnackedFrags
         /\ s.first \in TxSequence \cup {NoSeq}
         /\ s.netPkt \in [Packet -> SUBSET TxSequence]
         /\ s.didRetx \in [Packet -> BOOLEAN] /\ s.outcome \in [Packet -> Outcome]
         /\ s.count \in Nat /\ s.failed \in BOOLEAN /\ s.out \in Seq(Message)
         /\ s.removed \in SUBSET TxSequence
  BY DEF Sender

-----------------------------------------------------------------------------
(* TxSequence numbers.                                                        *)

(* The successor and the distance of numbers.                                 *)
LEMMA NumberTypes ==
  ASSUME NEW t \in TxSequence, NEW u \in TxSequence
  PROVE  /\ Plus(t, 1) \in TxSequence /\ Dist(t, u) \in 0 .. SeqSpace - 1
         /\ Dist(t, u) = 0 <=> t = u
  BY LpAssumption DEF TxSequence, Plus, Dist

(* The distance to the number assigned last grows with every assignment,      *)
(* except for the number that is assigned.                                    *)
LEMMA NextNumber ==
  ASSUME NEW t \in TxSequence, NEW u \in TxSequence
  PROVE  /\ t # Plus(u, 1) => Dist(t, Plus(u, 1)) = Dist(t, u) + 1
         /\ t = Plus(u, 1) <=> Dist(t, u) = SeqSpace - 1
  BY LpAssumption DEF TxSequence, Plus, Dist

(* Of two numbers that are not ahead of the last one, the farther is first.   *)
LEMMA Between ==
  ASSUME NEW t \in TxSequence, NEW u \in TxSequence, NEW z \in TxSequence,
         Dist(u, z) <= Dist(t, z)
  PROVE  Dist(t, u) = Dist(t, z) - Dist(u, z)
  BY LpAssumption DEF TxSequence, Dist

-----------------------------------------------------------------------------
(* Sending a fragment.                                                        *)

(* Sending when the window has gone all the way round.                        *)
LEMMA TransmitFails ==
  ASSUME NEW s \in Sender, NEW f, NEW k,
         s.failed \/ (DOMAIN s.unacked # {} /\ Plus(s.lastTx, 1) = s.first)
  PROVE  Transmit(s, f, k) = [s EXCEPT !.failed = TRUE]
  BY DEF Transmit

(* Fragment f was sent in state s with number tx.                             *)
Sent(s, f, tx, r) ==
  /\ r \in Sender
  /\ r.lastTx = tx /\ r.count = s.count + 1 /\ r.failed = s.failed
  /\ DOMAIN s.unacked = {} => r.first = tx
  /\ DOMAIN s.unacked # {} => r.first = s.first
  /\ DOMAIN r.unacked = DOMAIN s.unacked \cup {tx}
  /\ r.unacked[tx].frag = f /\ r.unacked[tx].nth = s.count + 1
  /\ \A t \in DOMAIN s.unacked : t # tx => r.unacked[t] = s.unacked[t]
  /\ r.netPkt = [s.netPkt EXCEPT ![f[1]] = @ \cup {tx}]
  /\ r.outcome = [s.outcome EXCEPT ![f[1]] = "pending"]
  /\ r.didRetx = s.didRetx /\ r.removed = s.removed
  /\ r.out = Append(s.out, [tx |-> tx, frag |-> f])

(* Sending otherwise.                                                         *)
LEMMA TransmitFields ==
  ASSUME NEW s \in Sender, NEW f \in Frag, NEW k \in Nat, NEW tx, tx = Plus(s.lastTx, 1),
         ~s.failed, DOMAIN s.unacked = {} \/ tx # s.first,
         NEW r, r = Transmit(s, f, k)
  PROVE  Sent(s, f, tx, r)
<1> DEFINE U == [t \in DOMAIN s.unacked \cup {tx} |->
                   IF t = tx THEN [frag |-> f, retx |-> k, greater |-> 0, nth |-> s.count + 1]
                   ELSE s.unacked[t]]
           x == IF DOMAIN s.unacked = {} THEN tx ELSE s.first
           P == [s.netPkt EXCEPT ![f[1]] = @ \cup {tx}]
           O == [s.outcome EXCEPT ![f[1]] = "pending"]
           M == Append(s.out, [tx |-> tx, frag |-> f])
<1>1. /\ tx \in TxSequence /\ f[1] \in Packet /\ s.count + 1 \in Nat
      /\ DOMAIN s.unacked \subseteq TxSequence
      /\ \A t \in DOMAIN s.unacked : s.unacked[t] \in UnackedFrag
  BY NumberTypes, FragFacts, SenderFacts, MapFacts
<1>2. U \in UnackedFrags
  <2>1. [frag |-> f, retx |-> k, greater |-> 0, nth |-> s.count + 1] \in UnackedFrag
    BY <1>1 DEF UnackedFrag
  <2>2. U \in [DOMAIN s.unacked \cup {tx} -> UnackedFrag]
    BY <1>1, <2>1
  <2> QED BY <1>1, <2>2, MapTyped
<1>3. P \in [Packet -> SUBSET TxSequence] /\ O \in [Packet -> Outcome] /\ x \in TxSequence \cup {NoSeq}
  BY <1>1, SenderFacts DEF Outcome
<1>4. M \in Seq(Message)
  <2>1. [tx |-> tx, frag |-> f] \in Message
    BY <1>1 DEF Message
  <2> QED BY <2>1, SenderFacts
<1>5. r = [s EXCEPT !.lastTx = tx, !.count = s.count + 1, !.unacked = U, !.first = x,
                    !.netPkt = P, !.outcome = O, !.out = M]
  BY DEF Transmit, Sender
<1>6. /\ DOMAIN U = DOMAIN s.unacked \cup {tx}
      /\ U[tx].frag = f /\ U[tx].retx = k /\ U[tx].nth = s.count + 1
      /\ \A t \in DOMAIN s.unacked : t # tx => U[t] = s.unacked[t]
  OBVIOUS
<1> HIDE DEF U, x, P, O, M
<1>7. /\ r \in Sender
      /\ r.lastTx = tx /\ r.count = s.count + 1 /\ r.failed = s.failed
      /\ r.first = x /\ r.unacked = U /\ r.netPkt = P /\ r.outcome = O
      /\ r.didRetx = s.didRetx /\ r.removed = s.removed /\ r.out = M
  BY ZenonT(60), SMTT(60), <1>1, <1>2, <1>3, <1>4, <1>5 DEF Sender
<1> QED BY <1>6, <1>7 DEF x, P, O, M, Sent

-----------------------------------------------------------------------------
(* The sender's invariant.  A fragment is as far behind the number assigned   *)
(* last as there were transmissions since its own.                            *)
Numbered(s) ==
  \A t \in DOMAIN s.unacked :
    s.unacked[t].nth \in 1 .. s.count /\ Dist(t, s.lastTx) = s.count - s.unacked[t].nth

(* WindowStartsAtOldest, and the first two parts of PacketsAndMapAgree, of a  *)
(* state within a handler.                                                    *)
Oldest(s) ==
  IF DOMAIN s.unacked = {} THEN s.first = NoSeq
  ELSE /\ s.first \in DOMAIN s.unacked
       /\ \A t \in DOMAIN s.unacked : s.unacked[s.first].nth <= s.unacked[t].nth
Listed(s) ==
  \A p \in Packet :
    /\ s.netPkt[p] = {t \in DOMAIN s.unacked : s.unacked[t].frag[1] = p}
    /\ s.outcome[p] = "pending" <=> s.netPkt[p] # {}

Windowed(s) == s \in Sender /\ Numbered(s) /\ Oldest(s)

(* The window has gone all the way round: what assignTxSequence throws at.    *)
Overrun(s) == DOMAIN s.unacked # {} /\ Plus(s.lastTx, 1) = s.first
SenderOk(s) == Windowed(s) /\ Listed(s) /\ (s.failed => Overrun(s))

(* The third part: no fragment is in flight twice.                            *)
Once(s) == \A t, u \in DOMAIN s.unacked : s.unacked[t].frag = s.unacked[u].frag => t = u

(* What the window's invariant says of a fragment.                            *)
LEMMA WindowFacts ==
  ASSUME NEW s, Windowed(s), NEW t \in DOMAIN s.unacked
  PROVE  /\ t \in TxSequence /\ s.lastTx \in TxSequence /\ s.count \in Nat
         /\ s.unacked[t].nth \in 1 .. s.count /\ Dist(t, s.lastTx) = s.count - s.unacked[t].nth
         /\ s.first \in DOMAIN s.unacked /\ s.unacked[s.first].nth <= s.unacked[t].nth
<1>1. t \in TxSequence /\ s.lastTx \in TxSequence /\ s.count \in Nat
  BY SenderFacts, MapFacts DEF Windowed
<1>2. s.unacked[t].nth \in 1 .. s.count /\ Dist(t, s.lastTx) = s.count - s.unacked[t].nth
  BY DEF Windowed, Numbered
<1>3. s.first \in DOMAIN s.unacked /\ s.unacked[s.first].nth <= s.unacked[t].nth
  BY DEF Windowed, Oldest
<1> QED BY <1>1, <1>2, <1>3

(* assignTxSequence throws only after SeqSpace transmissions.                 *)
LEMMA OverrunLate ==
  ASSUME NEW s, Windowed(s), Overrun(s)
  PROVE  s.count >= SeqSpace
<1>1. PICK t : t = s.first
  OBVIOUS
<1>2. t \in DOMAIN s.unacked
  BY <1>1 DEF Windowed, Oldest, Overrun
<1>3. /\ t \in TxSequence /\ s.lastTx \in TxSequence /\ s.count \in Nat
      /\ s.unacked[t].nth \in 1 .. s.count /\ Dist(t, s.lastTx) = s.count - s.unacked[t].nth
  BY <1>2, WindowFacts
<1>4. Dist(t, s.lastTx) = SeqSpace - 1
  BY <1>1, <1>3, NextNumber DEF Overrun
<1> QED BY <1>3, <1>4, LpAssumption

(* Otherwise the number it assigns is not in use.                             *)
LEMMA FreshNumber ==
  ASSUME NEW s, Windowed(s), DOMAIN s.unacked = {} \/ Plus(s.lastTx, 1) # s.first
  PROVE  Plus(s.lastTx, 1) \notin DOMAIN s.unacked
<1> SUFFICES ASSUME NEW t \in DOMAIN s.unacked, t = Plus(s.lastTx, 1), NEW u, u = s.first
             PROVE  u = t
  BY ZenonT(60)
<1>1. /\ t \in TxSequence /\ s.lastTx \in TxSequence /\ s.count \in Nat
      /\ s.unacked[t].nth \in 1 .. s.count /\ Dist(t, s.lastTx) = s.count - s.unacked[t].nth
      /\ u \in DOMAIN s.unacked /\ s.unacked[u].nth <= s.unacked[t].nth
  BY WindowFacts
<1>2. /\ u \in TxSequence
      /\ s.unacked[u].nth \in 1 .. s.count /\ Dist(u, s.lastTx) = s.count - s.unacked[u].nth
  BY <1>1, WindowFacts
<1>3. Dist(t, s.lastTx) = SeqSpace - 1 /\ Dist(u, s.lastTx) \in 0 .. SeqSpace - 1
  BY <1>1, <1>2, NextNumber, NumberTypes
<1>4. Dist(u, s.lastTx) = SeqSpace - 1
  BY <1>1, <1>2, <1>3, LpAssumption
<1> QED BY <1>1, <1>2, <1>4, NextNumber

(* Throwing leaves the state as it is.                                        *)
LEMMA FailingKeeps ==
  ASSUME NEW s, SenderOk(s), Overrun(s), NEW r, r = [s EXCEPT !.failed = TRUE]
  PROVE  SenderOk(r)
<1>1. /\ r \in Sender /\ r.count = s.count /\ r.lastTx = s.lastTx /\ r.unacked = s.unacked
      /\ r.first = s.first /\ r.netPkt = s.netPkt /\ r.outcome = s.outcome
  BY ZenonT(60), SMTT(60) DEF SenderOk, Windowed, Sender
<1> QED BY <1>1 DEF SenderOk, Windowed, Numbered, Oldest, Listed, Overrun

(* Sending a fragment keeps the window and the lists right.                   *)
LEMMA TransmitKeeps ==
  ASSUME NEW s, SenderOk(s), NEW f \in Frag, NEW k \in Nat, NEW r, r = Transmit(s, f, k)
  PROVE  SenderOk(r)
<1> DEFINE tx == Plus(s.lastTx, 1)
<1>1. s \in Sender /\ Windowed(s) /\ Listed(s) /\ (s.failed => Overrun(s))
  BY DEF SenderOk, Windowed
<1>2. CASE s.failed \/ (DOMAIN s.unacked # {} /\ tx = s.first)
  <2>1. Overrun(s)
    BY <1>1, <1>2 DEF Overrun
  <2> QED BY <1>1, <1>2, <2>1, TransmitFails, FailingKeeps
<1>3. CASE ~s.failed /\ (DOMAIN s.unacked = {} \/ tx # s.first)
  <2>0. tx = Plus(s.lastTx, 1) /\ ~s.failed /\ (DOMAIN s.unacked = {} \/ tx # s.first)
    BY <1>3
  <2> HIDE DEF tx
  <2>9. Sent(s, f, tx, r)
    BY <1>1, <2>0, TransmitFields
  <2>1. /\ r \in Sender
        /\ r.lastTx = tx /\ r.count = s.count + 1 /\ r.failed = s.failed
        /\ DOMAIN s.unacked = {} => r.first = tx
        /\ DOMAIN s.unacked # {} => r.first = s.first
        /\ DOMAIN r.unacked = DOMAIN s.unacked \cup {tx}
        /\ r.unacked[tx].frag = f /\ r.unacked[tx].nth = s.count + 1
        /\ \A t \in DOMAIN s.unacked : t # tx => r.unacked[t] = s.unacked[t]
        /\ r.netPkt = [s.netPkt EXCEPT ![f[1]] = @ \cup {tx}]
        /\ r.outcome = [s.outcome EXCEPT ![f[1]] = "pending"]
    BY <2>9 DEF Sent
  <2>2. tx \notin DOMAIN s.unacked
    BY <1>1, <1>3, FreshNumber DEF tx
  <2>3. s.lastTx \in TxSequence /\ tx \in TxSequence /\ s.count \in Nat
    BY <1>1, <2>0, SenderFacts, NumberTypes
  <2>4. Numbered(r)
    <3> SUFFICES ASSUME NEW t \in DOMAIN r.unacked
                 PROVE  r.unacked[t].nth \in 1 .. r.count /\ Dist(t, r.lastTx) = r.count - r.unacked[t].nth
      BY DEF Numbered
    <3>1. CASE t = tx
      BY <2>1, <2>3, <3>1, NumberTypes
    <3>2. CASE t # tx
      <4>1. t \in DOMAIN s.unacked /\ r.unacked[t] = s.unacked[t]
        BY <2>1, <3>2
      <4>2. /\ t \in TxSequence /\ s.unacked[t].nth \in 1 .. s.count
            /\ Dist(t, s.lastTx) = s.count - s.unacked[t].nth
        BY <1>1, <4>1, WindowFacts
      <4>3. Dist(t, tx) = Dist(t, s.lastTx) + 1
        BY <2>3, <3>2, <4>2, <2>0, NextNumber
      <4> QED BY <2>1, <2>3, <4>1, <4>2, <4>3
    <3> QED BY <3>1, <3>2
  <2>5. Oldest(r)
    <3>1. CASE DOMAIN s.unacked = {}
      BY <2>1, <2>3, <3>1 DEF Oldest
    <3>2. CASE DOMAIN s.unacked # {}
      <4>1. PICK u : u = s.first
        OBVIOUS
      <4>2. u \in DOMAIN s.unacked /\ u # tx /\ \A t \in DOMAIN s.unacked : s.unacked[u].nth <= s.unacked[t].nth
        BY <1>1, <2>2, <3>2, <4>1 DEF Windowed, Oldest
      <4>3. s.unacked[u].nth \in 1 .. s.count
        BY <1>1, <4>2, WindowFacts
      <4>4. r.first = u /\ r.unacked[u] = s.unacked[u]
        BY <2>1, <3>2, <4>1, <4>2
      <4>5. \A t \in DOMAIN r.unacked : r.unacked[u].nth <= r.unacked[t].nth
        BY <2>1, <2>2, <2>3, <4>2, <4>3, <4>4
      <4> QED BY <2>1, <4>2, <4>4, <4>5 DEF Oldest
    <3> QED BY <3>1, <3>2
  <2>6. Listed(r)
    <3> SUFFICES ASSUME NEW p \in Packet
                 PROVE  /\ r.netPkt[p] = {t \in DOMAIN r.unacked : r.unacked[t].frag[1] = p}
                        /\ r.outcome[p] = "pending" <=> r.netPkt[p] # {}
      BY DEF Listed
    <3>1. /\ s.netPkt[p] = {t \in DOMAIN s.unacked : s.unacked[t].frag[1] = p}
          /\ s.outcome[p] = "pending" <=> s.netPkt[p] # {}
      BY <1>1 DEF Listed
    <3>2. s.netPkt \in [Packet -> SUBSET TxSequence] /\ s.outcome \in [Packet -> Outcome]
      BY <1>1, SenderFacts
    <3>3. \A t : t \in DOMAIN r.unacked /\ r.unacked[t].frag[1] = p <=>
                   t \in s.netPkt[p] \/ (t = tx /\ f[1] = p)
      BY <2>1, <2>2, <3>1
    <3>4. \A t : t \in r.netPkt[p] <=> t \in s.netPkt[p] \/ (t = tx /\ f[1] = p)
      BY <2>1, <3>2
    <3>5. r.netPkt[p] = {t \in DOMAIN r.unacked : r.unacked[t].frag[1] = p}
      BY <3>3, <3>4
    <3> QED BY <2>1, <3>1, <3>2, <3>4, <3>5
  <2> QED BY <1>1, <2>1, <2>4, <2>5, <2>6, <1>3 DEF SenderOk, Windowed
<1> QED BY <1>2, <1>3

-----------------------------------------------------------------------------
(* Deleting fragments.                                                        *)

(* The next fragment in the ring is the oldest that is left.                  *)
LEMMA NextFragIsOldest ==
  ASSUME NEW s, Windowed(s), NEW rest \in SUBSET DOMAIN s.unacked, rest # {}
  PROVE  /\ NextFrag(s.first, rest) \in rest
         /\ \A v \in rest : s.unacked[NextFrag(s.first, rest)].nth <= s.unacked[v].nth
<1> DEFINE x == s.first
           T == {Dist(x, u) : u \in rest}
<1>1. x \in DOMAIN s.unacked /\ x \in TxSequence /\ rest \subseteq TxSequence
  BY SenderFacts, MapFacts DEF Windowed, Oldest
<1> HIDE DEF x
<1>2. T \subseteq Nat /\ T # {}
  BY <1>1, NumberTypes
<1>3. PICK d \in T : \A e \in T : d <= e
  <2> HIDE DEF T
  <2> QED BY ZenonT(60), <1>2, LeastOf
<1>4. \E u \in rest : \A v \in rest : Dist(x, u) <= Dist(x, v)
  BY <1>3
<1>5. PICK u : u = NextFrag(x, rest)
  OBVIOUS
<1>6. u \in rest /\ \A v \in rest : Dist(x, u) <= Dist(x, v)
  BY ZenonT(60), <1>4, <1>5 DEF NextFrag
<1>7. ASSUME NEW v \in rest PROVE Dist(x, v) = s.unacked[v].nth - s.unacked[x].nth
  <2>1. /\ v \in TxSequence /\ s.lastTx \in TxSequence /\ s.count \in Nat
        /\ s.unacked[v].nth \in 1 .. s.count /\ Dist(v, s.lastTx) = s.count - s.unacked[v].nth
        /\ s.unacked[x].nth <= s.unacked[v].nth
    BY <1>7, WindowFacts DEF x
  <2>2. s.unacked[x].nth \in 1 .. s.count /\ Dist(x, s.lastTx) = s.count - s.unacked[x].nth
    BY <1>1, WindowFacts
  <2>3. Dist(x, v) = Dist(x, s.lastTx) - Dist(v, s.lastTx)
    BY <1>1, <2>1, <2>2, Between
  <2> QED BY <2>1, <2>2, <2>3
<1>8. ASSUME NEW v \in rest PROVE s.unacked[u].nth <= s.unacked[v].nth
  <2>1. /\ s.unacked[v].nth \in Nat /\ s.unacked[u].nth \in Nat /\ s.unacked[x].nth \in Nat
    BY <1>1, <1>6, <1>8, SenderFacts, MapFacts DEF Windowed
  <2> QED BY <1>6, <1>7, <1>8, <2>1
<1> QED BY <1>5, <1>6, <1>8 DEF x

(* deleteUnackedFrag removes fragments and moves the start of the window on.  *)
LEMMA DeleteFields ==
  ASSUME NEW s, Windowed(s), NEW gone, NEW r, r = deleteUnackedFrag(s, gone)
  PROVE  /\ Windowed(r)
         /\ r.lastTx = s.lastTx /\ r.count = s.count /\ r.failed = s.failed
         /\ DOMAIN r.unacked = DOMAIN s.unacked \ gone
         /\ \A t \in DOMAIN r.unacked : r.unacked[t] = s.unacked[t]
         /\ r.netPkt = s.netPkt /\ r.outcome = s.outcome /\ r.didRetx = s.didRetx
         /\ r.removed = s.removed /\ r.out = s.out
<1> DEFINE rest == DOMAIN s.unacked \ gone
           U == [u \in rest |-> s.unacked[u]]
           x == IF rest = {} THEN NoSeq ELSE NextFrag(s.first, rest)
<1>1. /\ s \in Sender /\ DOMAIN s.unacked \subseteq TxSequence
      /\ \A t \in DOMAIN s.unacked : s.unacked[t] \in UnackedFrag
  BY SenderFacts, MapFacts DEF Windowed
<1>2. U \in UnackedFrags
  <2>1. U \in [rest -> UnackedFrag] /\ rest \in SUBSET TxSequence
    BY <1>1
  <2> QED BY <2>1, MapTyped
<1>3. rest # {} => x \in rest /\ \A v \in rest : s.unacked[x].nth <= s.unacked[v].nth
  <2>1. rest \in SUBSET DOMAIN s.unacked
    OBVIOUS
  <2> HIDE DEF rest
  <2> QED BY <2>1, NextFragIsOldest
<1>4. x \in TxSequence \cup {NoSeq}
  BY <1>1, <1>3
<1>5. r = [s EXCEPT !.unacked = U, !.first = x]
  BY <1>1 DEF deleteUnackedFrag, Sender
<1>6. DOMAIN U = rest /\ \A t \in rest : U[t] = s.unacked[t]
  OBVIOUS
<1>7. rest = {} => x = NoSeq
  OBVIOUS
<1> HIDE DEF U, x
<1>8. /\ r \in Sender /\ r.unacked = U /\ r.first = x
      /\ r.lastTx = s.lastTx /\ r.count = s.count /\ r.failed = s.failed
      /\ r.netPkt = s.netPkt /\ r.outcome = s.outcome /\ r.didRetx = s.didRetx
      /\ r.removed = s.removed /\ r.out = s.out
  BY ZenonT(60), SMTT(60), <1>1, <1>2, <1>4, <1>5 DEF Sender
<1>9. rest \subseteq DOMAIN s.unacked
  OBVIOUS
<1>10. Numbered(r)
  <2> HIDE DEF rest
  <2> QED BY <1>6, <1>8, <1>9 DEF Windowed, Numbered
<1>11. Oldest(r)
  <2> HIDE DEF rest
  <2> QED BY ZenonT(60), SMTT(60), <1>3, <1>6, <1>7, <1>8 DEF Oldest
<1> QED BY <1>6, <1>8, <1>10, <1>11 DEF Windowed

-----------------------------------------------------------------------------
(* A lost fragment.                                                           *)

(* The packet of fragment t was dropped.                                      *)
Dropped(s, t, r) ==
  /\ r.failed = s.failed /\ r.count = s.count /\ r.lastTx = s.lastTx
  /\ DOMAIN r.unacked \subseteq DOMAIN s.unacked
  /\ \A u \in DOMAIN r.unacked : r.unacked[u] = s.unacked[u]
  /\ \A u \in DOMAIN s.unacked \ DOMAIN r.unacked :
       s.unacked[u].frag[1] = s.unacked[t].frag[1] /\ u \in r.removed
  /\ t \in r.removed /\ s.removed \subseteq r.removed
  /\ r.outcome = [s.outcome EXCEPT ![s.unacked[t].frag[1]] = "dropped"]
  /\ r.out = s.out

(* Dropping a packet keeps the window and the lists right.                    *)
LEMMA DropKeeps ==
  ASSUME NEW s, SenderOk(s), ~s.failed, NEW t \in DOMAIN s.unacked, NEW r, r = DropPacket(s, t)
  PROVE  SenderOk(r) /\ Dropped(s, t, r)
<1> DEFINE p == s.unacked[t].frag[1]
           gone == s.netPkt[p] \cup {t}
           d == deleteUnackedFrag(s, gone)
<1>1. /\ s \in Sender /\ Windowed(s) /\ Listed(s) /\ p \in Packet
      /\ s.netPkt \in [Packet -> SUBSET TxSequence] /\ s.outcome \in [Packet -> Outcome]
      /\ s.removed \subseteq TxSequence /\ DOMAIN s.unacked \subseteq TxSequence
  BY SenderFacts, MapFacts, FragFacts DEF SenderOk, Windowed
<1>2. gone = {u \in DOMAIN s.unacked : s.unacked[u].frag[1] = p}
  BY <1>1 DEF Listed
<1>3. r = [d EXCEPT !.outcome[p] = "dropped", !.netPkt[p] = {}, !.removed = @ \cup gone]
  BY DEF DropPacket
<1> HIDE DEF d, gone
<1>4. /\ Windowed(d)
      /\ d.lastTx = s.lastTx /\ d.count = s.count /\ d.failed = s.failed
      /\ DOMAIN d.unacked = DOMAIN s.unacked \ gone
      /\ \A u \in DOMAIN d.unacked : d.unacked[u] = s.unacked[u]
      /\ d.netPkt = s.netPkt /\ d.outcome = s.outcome /\ d.didRetx = s.didRetx
      /\ d.removed = s.removed /\ d.out = s.out
  BY <1>1, DeleteFields DEF d
<1>5. gone \subseteq TxSequence
  BY <1>1, <1>2
<1> DEFINE P == [s.netPkt EXCEPT ![p] = {}]
           O == [s.outcome EXCEPT ![p] = "dropped"]
<1>6. P \in [Packet -> SUBSET TxSequence] /\ O \in [Packet -> Outcome]
  BY <1>1 DEF Outcome
<1>7. r = [d EXCEPT !.outcome = O, !.netPkt = P, !.removed = s.removed \cup gone] /\ d \in Sender
  BY ZenonT(60), SMTT(60), <1>3, <1>4 DEF Windowed, Sender
<1> HIDE DEF P, O
<1>8. /\ r \in Sender /\ r.unacked = d.unacked /\ r.first = d.first
      /\ r.lastTx = d.lastTx /\ r.count = d.count /\ r.failed = d.failed
      /\ r.netPkt = P /\ r.outcome = O
      /\ r.removed = s.removed \cup gone /\ r.out = d.out
  BY ZenonT(60), SMTT(60), <1>1, <1>5, <1>6, <1>7 DEF Sender
<1>9. Windowed(r)
  BY <1>4, <1>8 DEF Windowed, Numbered, Oldest
<1>10. Listed(r)
  <2> SUFFICES ASSUME NEW q \in Packet
               PROVE  /\ r.netPkt[q] = {u \in DOMAIN r.unacked : r.unacked[u].frag[1] = q}
                      /\ r.outcome[q] = "pending" <=> r.netPkt[q] # {}
    BY DEF Listed
  <2>1. /\ s.netPkt[q] = {u \in DOMAIN s.unacked : s.unacked[u].frag[1] = q}
        /\ s.outcome[q] = "pending" <=> s.netPkt[q] # {}
    BY <1>1 DEF Listed
  <2>2. CASE q = p
    <3>1. r.netPkt[q] = {} /\ r.outcome[q] = "dropped"
      BY <1>1, <1>8, <2>2 DEF P, O
    <3>2. {u \in DOMAIN r.unacked : r.unacked[u].frag[1] = q} = {}
      BY <1>2, <1>4, <1>8, <2>2
    <3> QED BY <3>1, <3>2
  <2>3. CASE q # p
    <3>1. r.netPkt[q] = s.netPkt[q] /\ r.outcome[q] = s.outcome[q]
      BY <1>1, <1>8, <2>3 DEF P, O
    <3>2. \A u : u \in DOMAIN r.unacked /\ r.unacked[u].frag[1] = q <=>
                 u \in DOMAIN s.unacked /\ s.unacked[u].frag[1] = q
      BY <1>2, <1>4, <1>8, <2>3
    <3> QED BY <2>1, <3>1, <3>2
  <2> QED BY <2>2, <2>3
<1>11. SenderOk(r)
  BY <1>4, <1>8, <1>9, <1>10 DEF SenderOk
<1>12. \A u \in DOMAIN s.unacked \ DOMAIN r.unacked : s.unacked[u].frag[1] = p /\ u \in r.removed
  BY <1>2, <1>4, <1>8
<1>13. t \in r.removed
  BY <1>8 DEF gone
<1> QED BY <1>4, <1>8, <1>11, <1>12, <1>13 DEF O, Dropped

(* Fragment t was sent again with number tx.                                  *)
Resent(s, t, tx, r) ==
  /\ r.count = s.count + 1 /\ r.lastTx = tx
  /\ tx \notin DOMAIN s.unacked
  /\ DOMAIN r.unacked = (DOMAIN s.unacked \ {t}) \cup {tx}
  /\ \A u \in DOMAIN s.unacked \ {t} : r.unacked[u] = s.unacked[u]
  /\ r.unacked[tx].frag = s.unacked[t].frag
  /\ r.outcome = s.outcome
  /\ r.removed = s.removed \cup {t}
  /\ r.out = Append(s.out, [tx |-> tx, frag |-> s.unacked[t].frag])

(* So does retransmitting a fragment, unless assignTxSequence throws.         *)
LEMMA RetransmitKeeps ==
  ASSUME NEW s, SenderOk(s), ~s.failed, NEW t \in DOMAIN s.unacked,
         NEW r, r = Retransmit(s, t), NEW tx, tx = Plus(s.lastTx, 1)
  PROVE  /\ SenderOk(r)
         /\ r.failed => r = [s EXCEPT !.failed = TRUE]
         /\ ~r.failed => Resent(s, t, tx, r)
<1> DEFINE e == s.unacked[t]
           p == e.frag[1]
           m == Transmit(s, e.frag, e.retx + 1)
           d == deleteUnackedFrag(m, {t})
<1>1. /\ s \in Sender /\ Windowed(s) /\ Listed(s) /\ e.frag \in Frag /\ e.retx + 1 \in Nat
      /\ p \in Packet /\ t \in TxSequence /\ s.lastTx \in TxSequence
      /\ s.outcome \in [Packet -> Outcome] /\ s.netPkt \in [Packet -> SUBSET TxSequence]
  BY SenderFacts, MapFacts, FragFacts DEF SenderOk, Windowed
<1>2. r = IF m.failed THEN m
          ELSE [d EXCEPT !.didRetx[p] = TRUE, !.netPkt[p] = @ \ {t},
                         !.failed = t \notin s.netPkt[p], !.removed = @ \cup {t}]
  BY DEF Retransmit
<1> HIDE DEF m, d, e, p
<1>3. SenderOk(m)
  BY <1>1, TransmitKeeps DEF m
<1>4. CASE DOMAIN s.unacked # {} /\ tx = s.first
  <2>1. m = [s EXCEPT !.failed = TRUE]
    BY ZenonT(60), SMTT(60), <1>1, <1>4, TransmitFails DEF m
  <2>2. m.failed = TRUE
    BY <1>1, <2>1 DEF Sender
  <2> QED BY <1>2, <1>3, <2>1, <2>2
<1>5. CASE DOMAIN s.unacked = {} \/ tx # s.first
  <2>0. Sent(s, e.frag, tx, m)
    BY <1>1, <1>5, TransmitFields DEF m
  <2>1. /\ m \in Sender
        /\ m.lastTx = tx /\ m.count = s.count + 1 /\ m.failed = s.failed
        /\ DOMAIN m.unacked = DOMAIN s.unacked \cup {tx}
        /\ m.unacked[tx].frag = e.frag
        /\ \A u \in DOMAIN s.unacked : u # tx => m.unacked[u] = s.unacked[u]
        /\ m.netPkt = [s.netPkt EXCEPT ![p] = @ \cup {tx}]
        /\ m.outcome = [s.outcome EXCEPT ![p] = "pending"]
        /\ m.didRetx = s.didRetx /\ m.removed = s.removed
        /\ m.out = Append(s.out, [tx |-> tx, frag |-> e.frag])
    BY <2>0 DEF Sent, p
  <2>2. tx \notin DOMAIN s.unacked /\ tx \in TxSequence
    BY <1>1, <1>5, FreshNumber, NumberTypes
  <2>3. /\ Windowed(d)
        /\ d.lastTx = m.lastTx /\ d.count = m.count /\ d.failed = m.failed
        /\ DOMAIN d.unacked = DOMAIN m.unacked \ {t}
        /\ \A u \in DOMAIN d.unacked : d.unacked[u] = m.unacked[u]
        /\ d.netPkt = m.netPkt /\ d.outcome = m.outcome /\ d.didRetx = m.didRetx
        /\ d.removed = m.removed /\ d.out = m.out
    BY <1>3, DeleteFields DEF d, SenderOk
  <2>4. d \in Sender /\ m.failed = FALSE
    BY <1>1, <2>1, <2>3, SenderFacts DEF Windowed
  <2> DEFINE P == [m.netPkt EXCEPT ![p] = @ \ {t}]
             D == [m.didRetx EXCEPT ![p] = TRUE]
  <2>5. m.netPkt \in [Packet -> SUBSET TxSequence] /\ m.didRetx \in [Packet -> BOOLEAN] /\ m.removed \subseteq TxSequence
    BY ZenonT(60), SMTT(60), <2>1, SenderFacts
  <2>6. P \in [Packet -> SUBSET TxSequence] /\ D \in [Packet -> BOOLEAN] /\ m.removed \cup {t} \subseteq TxSequence
    BY <1>1, <2>5
  <2>6a. (t \notin s.netPkt[p]) = FALSE
    BY <1>1 DEF Listed, p, e
  <2>7. r = [d EXCEPT !.didRetx = D, !.netPkt = P, !.failed = FALSE, !.removed = m.removed \cup {t}]
    BY ZenonT(60), SMTT(60), <1>2, <2>3, <2>4, <2>6a DEF Sender
  <2> HIDE DEF P, D
  <2>8. /\ r \in Sender /\ r.unacked = d.unacked /\ r.first = d.first
        /\ r.lastTx = d.lastTx /\ r.count = d.count /\ r.failed = d.failed
        /\ r.netPkt = P /\ r.outcome = d.outcome
        /\ r.removed = m.removed \cup {t} /\ r.out = d.out
    BY ZenonT(60), SMTT(60), <2>3, <2>4, <2>6, <2>7 DEF Sender
  <2>9. Windowed(r)
    BY <2>3, <2>8 DEF Windowed, Numbered, Oldest
  <2>10. t # tx /\ DOMAIN r.unacked = (DOMAIN s.unacked \ {t}) \cup {tx}
    BY <2>1, <2>2, <2>3, <2>8
  <2>11. /\ \A u \in DOMAIN s.unacked \ {t} : r.unacked[u] = s.unacked[u]
         /\ r.unacked[tx].frag = e.frag
    BY <2>1, <2>2, <2>3, <2>8, <2>10
  <2>12. r.outcome = s.outcome
    <3>1. s.outcome[p] = "pending"
      BY <1>1 DEF Listed, p, e
    <3>2. \A q \in Packet : [s.outcome EXCEPT ![p] = "pending"][q] = s.outcome[q]
      BY <1>1, <3>1
    <3>3. [s.outcome EXCEPT ![p] = "pending"] = s.outcome
      BY <1>1, <3>2
    <3> QED BY <2>1, <2>3, <2>8, <3>3
  <2>13. Listed(r)
    <3> SUFFICES ASSUME NEW q \in Packet
                 PROVE  /\ r.netPkt[q] = {u \in DOMAIN r.unacked : r.unacked[u].frag[1] = q}
                        /\ r.outcome[q] = "pending" <=> r.netPkt[q] # {}
      BY DEF Listed
    <3>1. /\ s.netPkt[q] = {u \in DOMAIN s.unacked : s.unacked[u].frag[1] = q}
          /\ s.outcome[q] = "pending" <=> s.netPkt[q] # {}
      BY <1>1 DEF Listed
    <3>2. CASE q = p
      <4>1. \A u : u \in r.netPkt[q] <=> u = tx \/ (u \in s.netPkt[q] /\ u # t)
        BY <1>1, <2>1, <2>8, <2>10, <3>2 DEF P
      <4>2. \A u : u \in DOMAIN r.unacked /\ r.unacked[u].frag[1] = q <=>
                   u = tx \/ (u \in s.netPkt[q] /\ u # t)
        BY <2>2, <2>10, <2>11, <3>1, <3>2 DEF p
      <4>3. r.netPkt[q] = {u \in DOMAIN r.unacked : r.unacked[u].frag[1] = q}
        BY <4>1, <4>2
      <4>4. t \in s.netPkt[q]
        BY <3>1, <3>2 DEF p, e
      <4> QED BY <2>12, <3>1, <4>1, <4>3, <4>4
    <3>3. CASE q # p
      <4>1. r.netPkt[q] = s.netPkt[q]
        BY <1>1, <2>1, <2>5, <2>8, <3>3 DEF P
      <4>2. \A u : u \in DOMAIN r.unacked /\ r.unacked[u].frag[1] = q <=>
                   u \in DOMAIN s.unacked /\ s.unacked[u].frag[1] = q
        BY <2>2, <2>10, <2>11, <3>3 DEF p, e
      <4> QED BY <2>12, <3>1, <4>1, <4>2
    <3> QED BY <3>2, <3>3
  <2>14. SenderOk(r) /\ r.failed = FALSE
    BY <2>3, <2>4, <2>8, <2>9, <2>13 DEF SenderOk
  <2> QED BY <2>1, <2>2, <2>3, <2>8, <2>10, <2>11, <2>12, <2>14 DEF e, Resent
<1> QED BY <1>4, <1>5

(* onLpPacketLost removes the fragment from the map and lists in removed      *)
(* whatever leaves the map.                                                   *)
LEMMA LostKeeps ==
  ASSUME NEW s, SenderOk(s), Once(s), NEW t \in TxSequence, s.failed \/ t \in DOMAIN s.unacked,
         NEW r, r = onLpPacketLost(s, t)
  PROVE  /\ SenderOk(r) /\ Once(r)
         /\ \A u \in DOMAIN s.unacked \ DOMAIN r.unacked : u \in r.removed
         /\ s.removed \subseteq r.removed
<1>1. CASE s.failed
  <2>1. r = [s EXCEPT !.failed = TRUE] /\ s.failed = TRUE /\ s \in Sender
    BY <1>1, SenderFacts DEF onLpPacketLost, SenderOk, Windowed
  <2>2. r = s
    BY <2>1 DEF Sender
  <2> QED BY <2>2
<1>2. CASE ~s.failed /\ s.unacked[t].retx >= maxRetx
  <2>1. r = DropPacket(s, t)
    BY <1>2 DEF onLpPacketLost
  <2>2. SenderOk(r) /\ Dropped(s, t, r)
    BY <1>2, <2>1, DropKeeps
  <2> QED BY <2>2 DEF Dropped, Once
<1>3. CASE ~s.failed /\ ~(s.unacked[t].retx >= maxRetx)
  <2>1. r = Retransmit(s, t)
    BY <1>3 DEF onLpPacketLost
  <2>2. PICK tx : tx = Plus(s.lastTx, 1)
    OBVIOUS
  <2>3. /\ SenderOk(r)
        /\ r.failed => r = [s EXCEPT !.failed = TRUE]
        /\ ~r.failed => Resent(s, t, tx, r)
    BY <1>3, <2>1, <2>2, RetransmitKeeps
  <2>4. CASE r.failed
    <3>1. r.unacked = s.unacked /\ r.removed = s.removed
      BY <2>3, <2>4 DEF SenderOk, Windowed, Sender
    <3> QED BY <2>3, <3>1 DEF Once
  <2>5. CASE ~r.failed
    <3>1. Once(r)
      BY <1>3, <2>3, <2>5 DEF Once, Resent
    <3> QED BY <2>3, <2>5, <3>1 DEF Resent
  <2> QED BY <2>4, <2>5
<1> QED BY <1>1, <1>2, <1>3

-----------------------------------------------------------------------------
(* An acknowledged fragment.                                                  *)

Counted(s, r) ==
  /\ r.lastTx = s.lastTx /\ r.count = s.count /\ r.failed = s.failed
  /\ DOMAIN r.unacked = DOMAIN s.unacked /\ r.first = s.first
  /\ \A t \in DOMAIN r.unacked : r.unacked[t].frag = s.unacked[t].frag
  /\ r.outcome = s.outcome /\ r.out = s.out

(* Counting an Ack changes nothing that the invariants look at.               *)
LEMMA CountFields ==
  ASSUME NEW s, SenderOk(s), NEW a, NEW r, r = CountGreaterAck(s, a)
  PROVE  SenderOk(r) /\ (Once(s) => Once(r)) /\ Counted(s, r)
<1> DEFINE V(t) == IF t \in Overtaken(s, a) THEN [s.unacked[t] EXCEPT !.greater = @ + 1] ELSE s.unacked[t]
           U == [t \in DOMAIN s.unacked |-> V(t)]
<1>1. /\ s \in Sender /\ DOMAIN s.unacked \in SUBSET TxSequence
      /\ \A t \in DOMAIN s.unacked : s.unacked[t] \in UnackedFrag
  BY SenderFacts, MapFacts DEF SenderOk, Windowed
<1>2. ASSUME NEW t \in DOMAIN s.unacked
      PROVE  V(t) \in UnackedFrag /\ V(t).frag = s.unacked[t].frag /\ V(t).nth = s.unacked[t].nth
  BY <1>1, <1>2 DEF UnackedFrag
<1>3. U \in UnackedFrags
  <2>1. U \in [DOMAIN s.unacked -> UnackedFrag]
    BY <1>2
  <2> QED BY <1>1, <2>1, MapTyped
<1>4. /\ DOMAIN U = DOMAIN s.unacked
      /\ \A t \in DOMAIN U : U[t].frag = s.unacked[t].frag /\ U[t].nth = s.unacked[t].nth
  BY <1>2
<1>5. r = [s EXCEPT !.unacked = U]
  BY DEF CountGreaterAck
<1> HIDE DEF U
<1>6. /\ r \in Sender /\ r.unacked = U /\ r.first = s.first
      /\ r.lastTx = s.lastTx /\ r.count = s.count /\ r.failed = s.failed
      /\ r.netPkt = s.netPkt /\ r.outcome = s.outcome /\ r.out = s.out /\ r.removed = s.removed
  BY <1>1, <1>3, <1>5 DEF Sender
<1>7. Numbered(r)
  BY <1>4, <1>6 DEF SenderOk, Windowed, Numbered
<1>10. Oldest(r)
  <2>1. CASE DOMAIN s.unacked = {}
    BY <1>4, <1>6, <2>1 DEF SenderOk, Windowed, Oldest
  <2>2. CASE DOMAIN s.unacked # {}
    <3>1. PICK u : u = s.first
      OBVIOUS
    <3>2. u \in DOMAIN s.unacked /\ \A t \in DOMAIN s.unacked : s.unacked[u].nth <= s.unacked[t].nth
      BY <2>2, <3>1 DEF SenderOk, Windowed, Oldest
    <3>3. u \in DOMAIN r.unacked /\ \A t \in DOMAIN r.unacked : r.unacked[u].nth <= r.unacked[t].nth
      BY <1>4, <1>6, <3>2
    <3> QED BY <1>6, <3>1, <3>3 DEF Oldest
  <2> QED BY <2>1, <2>2
<1>8. Listed(r)
  BY <1>4, <1>6 DEF SenderOk, Listed
<1>9. Once(s) => Once(r)
  BY <1>4, <1>6 DEF Once
<1> QED BY <1>4, <1>6, <1>7, <1>8, <1>9, <1>10 DEF SenderOk, Windowed, Counted, Overrun

(* Fragment t was acknowledged.                                               *)
Acknowledged(s, t, r) ==
  /\ r.failed = FALSE /\ r.count = s.count /\ r.lastTx = s.lastTx
  /\ DOMAIN r.unacked = DOMAIN s.unacked \ {t}
  /\ \A u \in DOMAIN r.unacked : r.unacked[u] = s.unacked[u]
  /\ \A q \in Packet :
       r.outcome[q] = s.outcome[q] \/ (q = s.unacked[t].frag[1] /\ s.outcome[q] = "pending")
  /\ r.out = s.out

(* onLpPacketAcknowledged finds the fragment in the list of its packet.       *)
LEMMA AckedKeeps ==
  ASSUME NEW s, SenderOk(s), Once(s), NEW t \in DOMAIN s.unacked, ~s.failed,
         NEW r, r = onLpPacketAcknowledged(s, t)
  PROVE  SenderOk(r) /\ Once(r) /\ Acknowledged(s, t, r)
<1> DEFINE p == s.unacked[t].frag[1]
           left == s.netPkt[p] \ {t}
           d == deleteUnackedFrag(s, {t})
           P == [s.netPkt EXCEPT ![p] = left]
           o == IF left # {} THEN s.outcome[p]
                ELSE IF s.didRetx[p] THEN "retransmitted" ELSE "acknowledged"
           O == [s.outcome EXCEPT ![p] = o]
<1>1. /\ s \in Sender /\ Windowed(s) /\ Listed(s) /\ p \in Packet /\ s.failed = FALSE
      /\ s.netPkt \in [Packet -> SUBSET TxSequence] /\ s.outcome \in [Packet -> Outcome]
  BY SenderFacts, MapFacts, FragFacts DEF SenderOk, Windowed
<1>2. s.netPkt[p] = {u \in DOMAIN s.unacked : s.unacked[u].frag[1] = p} /\ s.outcome[p] = "pending"
  BY <1>1 DEF Listed
<1>3. /\ Windowed(d)
      /\ d.lastTx = s.lastTx /\ d.count = s.count /\ d.failed = s.failed
      /\ DOMAIN d.unacked = DOMAIN s.unacked \ {t}
      /\ \A u \in DOMAIN d.unacked : d.unacked[u] = s.unacked[u]
      /\ d.netPkt = s.netPkt /\ d.outcome = s.outcome /\ d.didRetx = s.didRetx
      /\ d.removed = s.removed /\ d.out = s.out
  BY <1>1, DeleteFields
<1>4. t \in s.netPkt[p] /\ o \in Outcome /\ (o = "pending" <=> left # {})
  BY <1>2 DEF Outcome
<1>5. P \in [Packet -> SUBSET TxSequence] /\ O \in [Packet -> Outcome]
  BY ZenonT(60), SMTT(60), <1>1, <1>4
<1>6. r = [d EXCEPT !.netPkt[p] = left, !.failed = @ \/ t \notin s.netPkt[p],
                    !.outcome[p] = IF left # {} THEN @
                                   ELSE IF s.didRetx[p] THEN "retransmitted" ELSE "acknowledged"]
  BY DEF onLpPacketAcknowledged
<1> HIDE DEF d, left
<1>7. r = [d EXCEPT !.netPkt = P, !.failed = FALSE, !.outcome = O] /\ d \in Sender
  <2>1. d \in Sender /\ (d.failed \/ t \notin s.netPkt[p]) = FALSE
    BY <1>1, <1>3, <1>4 DEF Windowed
  <2> QED BY ZenonT(60), SMTT(60), <1>3, <1>6, <2>1 DEF Sender
<1> HIDE DEF P, O, o
<1>8. /\ r \in Sender /\ r.unacked = d.unacked /\ r.first = d.first
      /\ r.lastTx = d.lastTx /\ r.count = d.count /\ r.failed = FALSE
      /\ r.netPkt = P /\ r.outcome = O /\ r.out = d.out
  BY ZenonT(60), SMTT(60), <1>5, <1>7 DEF Sender
<1>9. Windowed(r)
  BY <1>3, <1>8 DEF Windowed, Numbered, Oldest
<1>10. Listed(r)
  <2> SUFFICES ASSUME NEW q \in Packet
               PROVE  /\ r.netPkt[q] = {u \in DOMAIN r.unacked : r.unacked[u].frag[1] = q}
                      /\ r.outcome[q] = "pending" <=> r.netPkt[q] # {}
    BY DEF Listed
  <2>1. /\ s.netPkt[q] = {u \in DOMAIN s.unacked : s.unacked[u].frag[1] = q}
        /\ s.outcome[q] = "pending" <=> s.netPkt[q] # {}
    BY <1>1 DEF Listed
  <2>2. CASE q = p
    <3>1. r.netPkt[q] = left /\ r.outcome[q] = o
      BY <1>1, <1>8, <2>2 DEF P, O
    <3>2. \A u : u \in DOMAIN r.unacked /\ r.unacked[u].frag[1] = q <=> u \in left
      BY <1>2, <1>3, <1>8, <2>2 DEF left
    <3> QED BY <1>4, <3>1, <3>2
  <2>3. CASE q # p
    <3>1. r.netPkt[q] = s.netPkt[q] /\ r.outcome[q] = s.outcome[q]
      BY <1>1, <1>8, <2>3 DEF P, O
    <3>2. \A u : u \in DOMAIN r.unacked /\ r.unacked[u].frag[1] = q <=>
                 u \in DOMAIN s.unacked /\ s.unacked[u].frag[1] = q
      BY <1>3, <1>8, <2>3
    <3> QED BY <2>1, <3>1, <3>2
  <2> QED BY <2>2, <2>3
<1>11. \A q \in Packet : r.outcome[q] = s.outcome[q] \/ (q = p /\ s.outcome[q] = "pending")
  BY <1>1, <1>2, <1>8 DEF O
<1>12. Once(r)
  BY <1>3, <1>8 DEF Once
<1> QED BY <1>3, <1>8, <1>9, <1>10, <1>11, <1>12 DEF SenderOk, Acknowledged

-----------------------------------------------------------------------------
(* What travels.  N are the messages under way, A the Acks under way or       *)
(* queued, and G is rcv.got.  As long as no number was used twice, a message  *)
(* carries the fragment that its number stands for in the map, and an Ack     *)
(* under way is for a fragment that arrived.                                  *)

Used(s, x) == x \in TxSequence /\ Dist(StartSeq, x) \in 1 .. s.count
MessageOk(s, m) ==
  Used(s, m.tx) /\ (m.tx \in DOMAIN s.unacked => s.unacked[m.tx].frag = m.frag)
AckOk(s, a, G) ==
  Used(s, a) /\ (a \in DOMAIN s.unacked => s.unacked[a].frag \in G)
Tracked(s, N, A, G) ==
  s.count < SeqSpace =>
    /\ Dist(StartSeq, s.lastTx) = s.count
    /\ \A m \in N : MessageOk(s, m)
    /\ \A i \in 1 .. Len(s.out) : MessageOk(s, s.out[i])
    /\ \A a \in A : AckOk(s, a, G)

(* A fragment of a packet that was sent and not dropped has arrived or is     *)
(* still in the map.                                                          *)
Live == {"pending", "acknowledged", "retransmitted"}
Kept(s, f, G) == f \in G \/ \E t \in DOMAIN s.unacked : s.unacked[t].frag = f
Covered(s, G) == \A f \in Frag : s.outcome[f[1]] \in Live => Kept(s, f, G)

(* Nothing was sent, or fragment f was sent with number tx.                   *)
Shrunk(s, r) ==
  /\ r.count = s.count /\ r.lastTx = s.lastTx /\ r.out = s.out
  /\ DOMAIN r.unacked \subseteq DOMAIN s.unacked
  /\ \A t \in DOMAIN r.unacked : r.unacked[t].frag = s.unacked[t].frag
Added(s, f, tx, r) ==
  /\ r.count = s.count + 1 /\ r.lastTx = tx /\ r.out = Append(s.out, [tx |-> tx, frag |-> f])
  /\ DOMAIN r.unacked \subseteq DOMAIN s.unacked \cup {tx}
  /\ \A t \in DOMAIN r.unacked \ {tx} : r.unacked[t].frag = s.unacked[t].frag
  /\ r.unacked[tx].frag = f

(* What travels stays right when fragments leave the map,                     *)
LEMMA ShrunkTracks ==
  ASSUME NEW s, NEW r, NEW N, NEW A, NEW G, Shrunk(s, r), Tracked(s, N, A, G)
  PROVE  Tracked(r, N, A, G)
<1>1. ASSUME NEW m, MessageOk(s, m) PROVE MessageOk(r, m)
  BY <1>1 DEF Shrunk, MessageOk, Used
<1>2. ASSUME NEW a, AckOk(s, a, G) PROVE AckOk(r, a, G)
  BY <1>2 DEF Shrunk, AckOk, Used
<1>3. r.count = s.count /\ r.lastTx = s.lastTx /\ r.out = s.out
  BY DEF Shrunk
<1> QED BY <1>1, <1>2, <1>3 DEF Tracked

(* and when one is sent, as its number was not used before.                   *)
LEMMA AddedTracks ==
  ASSUME NEW s \in Sender, NEW r, NEW f, NEW tx, tx = Plus(s.lastTx, 1),
         NEW N, NEW A, NEW G, Added(s, f, tx, r), Tracked(s, N, A, G)
  PROVE  Tracked(r, N, A, G)
<1> SUFFICES ASSUME r.count < SeqSpace
             PROVE  /\ Dist(StartSeq, r.lastTx) = r.count
                    /\ \A m \in N : MessageOk(r, m)
                    /\ \A i \in 1 .. Len(r.out) : MessageOk(r, r.out[i])
                    /\ \A a \in A : AckOk(r, a, G)
  BY DEF Tracked
<1>1. /\ s.count \in Nat /\ r.count = s.count + 1 /\ r.lastTx = tx
      /\ s.lastTx \in TxSequence /\ tx \in TxSequence /\ StartSeq \in TxSequence
      /\ s.out \in Seq(Message) /\ SeqSpace \in Nat
  <2>1. s.count \in Nat /\ s.lastTx \in TxSequence /\ s.out \in Seq(Message)
    BY SenderFacts
  <2>2. tx \in TxSequence /\ StartSeq \in TxSequence /\ SeqSpace \in Nat
    BY ZenonT(60), SMTT(60), <2>1, NumberTypes, LpAssumption DEF TxSequence
  <2> QED BY <2>1, <2>2 DEF Added
<1>2. /\ Dist(StartSeq, s.lastTx) = s.count
      /\ \A m \in N : MessageOk(s, m)
      /\ \A i \in 1 .. Len(s.out) : MessageOk(s, s.out[i])
      /\ \A a \in A : AckOk(s, a, G)
  BY <1>1 DEF Tracked
<1>3. Dist(StartSeq, tx) = s.count + 1
  BY <1>1, <1>2, NextNumber
<1>4. ASSUME NEW x, Used(s, x) PROVE Used(r, x) /\ x # tx
  BY <1>1, <1>3, <1>4 DEF Used
<1>5. ASSUME NEW m, MessageOk(s, m) PROVE MessageOk(r, m)
  BY <1>4, <1>5 DEF Added, MessageOk
<1>6. ASSUME NEW a, AckOk(s, a, G) PROVE AckOk(r, a, G)
  BY <1>4, <1>6 DEF Added, AckOk
<1>7. ASSUME NEW i \in 1 .. Len(r.out) PROVE MessageOk(r, r.out[i])
  <2>1. r.out = Append(s.out, [tx |-> tx, frag |-> f])
    BY DEF Added
  <2>2. CASE i \in 1 .. Len(s.out)
    <3>1. r.out[i] = s.out[i]
      BY <1>1, <2>1, <2>2
    <3> QED BY <1>2, <1>5, <2>2, <3>1
  <2>3. CASE i \notin 1 .. Len(s.out)
    <3>1. r.out[i] = [tx |-> tx, frag |-> f]
      BY <1>1, <1>7, <2>1, <2>3
    <3>2. Used(r, tx)
      BY <1>1, <1>3 DEF Used
    <3> QED BY <3>1, <3>2 DEF MessageOk, Added
  <2> QED BY <2>2, <2>3
<1> QED BY <1>1, <1>2, <1>3, <1>5, <1>6, <1>7

(* The invariant of the sender within a handler.                              *)
SenderInv(s, N, A, G) ==
  SenderOk(s) /\ Once(s) /\ Tracked(s, N, A, G) /\ (s.count < SeqSpace => Covered(s, G))

(* After a failure nothing is claimed of what travels.                        *)
LEMMA FailedInv ==
  ASSUME NEW s, NEW N, NEW A, NEW G, SenderOk(s), Once(s), s.failed
  PROVE  SenderInv(s, N, A, G)
<1>1. s.count >= SeqSpace /\ s.count \in Nat /\ SeqSpace \in Nat
  BY SenderFacts, LpAssumption, OverrunLate DEF SenderOk, Windowed
<1>2. ~(s.count < SeqSpace)
  BY <1>1
<1> QED BY <1>2 DEF SenderInv, Tracked

(* onLpPacketLost keeps the invariant; what leaves the map is listed in       *)
(* removed.                                                                   *)
LEMMA LostInv ==
  ASSUME NEW s, NEW N, NEW A, NEW G, SenderInv(s, N, A, G),
         NEW t \in TxSequence, s.failed \/ t \in DOMAIN s.unacked,
         NEW r, r = onLpPacketLost(s, t)
  PROVE  /\ SenderInv(r, N, A, G)
         /\ \A u \in DOMAIN s.unacked \ DOMAIN r.unacked : u \in r.removed
         /\ s.removed \subseteq r.removed
<1>1. SenderOk(s) /\ Once(s) /\ s \in Sender
  BY DEF SenderInv, SenderOk, Windowed
<1>2. /\ SenderOk(r) /\ Once(r)
      /\ \A u \in DOMAIN s.unacked \ DOMAIN r.unacked : u \in r.removed
      /\ s.removed \subseteq r.removed
  BY <1>1, LostKeeps
<1>3. CASE s.failed
  <2>1. r = [s EXCEPT !.failed = TRUE]
    BY <1>3 DEF onLpPacketLost
  <2>2. r.failed
    BY <1>1, <2>1 DEF Sender
  <2> QED BY <1>2, <2>2, FailedInv
<1>4. CASE ~s.failed /\ s.unacked[t].retx >= maxRetx
  <2>1. r = DropPacket(s, t)
    BY <1>4 DEF onLpPacketLost
  <2>2. Dropped(s, t, r)
    BY <1>1, <1>4, <2>1, DropKeeps
  <2>3. Shrunk(s, r)
    BY <2>2 DEF Dropped, Shrunk
  <2>4. Tracked(r, N, A, G)
    BY <2>3, ShrunkTracks DEF SenderInv
  <2>5. ASSUME Covered(s, G), NEW f \in Frag, r.outcome[f[1]] \in Live PROVE Kept(r, f, G)
    <3> DEFINE p == s.unacked[t].frag[1]
    <3>1. s.outcome \in [Packet -> Outcome] /\ f[1] \in Packet
      BY <1>1, SenderFacts, FragFacts
    <3>2. r.outcome = [s.outcome EXCEPT ![p] = "dropped"]
      BY <2>2 DEF Dropped
    <3>3. f[1] # p /\ s.outcome[f[1]] \in Live
      BY <2>5, <3>1, <3>2 DEF Live
    <3>4. Kept(s, f, G)
      BY <2>5, <3>3 DEF Covered
    <3> QED BY <2>2, <3>3, <3>4 DEF Kept, Dropped
  <2>6. r.count = s.count
    BY <2>3 DEF Shrunk
  <2> QED BY <1>2, <2>4, <2>5, <2>6 DEF SenderInv, Covered
<1>5. CASE ~s.failed /\ ~(s.unacked[t].retx >= maxRetx)
  <2>1. r = Retransmit(s, t)
    BY <1>5 DEF onLpPacketLost
  <2>2. PICK tx : tx = Plus(s.lastTx, 1)
    OBVIOUS
  <2>3. r.failed \/ Resent(s, t, tx, r)
    BY <1>1, <1>5, <2>1, <2>2, RetransmitKeeps
  <2>4. CASE r.failed
    BY <1>2, <2>4, FailedInv
  <2>5. CASE Resent(s, t, tx, r)
    <3>1. Added(s, s.unacked[t].frag, tx, r)
      BY <2>5 DEF Resent, Added
    <3>2. Tracked(r, N, A, G)
      BY <1>1, <2>2, <3>1, AddedTracks DEF SenderInv
    <3>3. r.count = s.count + 1 /\ s.count \in Nat /\ SeqSpace \in Nat
      BY <1>1, <2>5, SenderFacts, LpAssumption DEF Resent
    <3>4. ASSUME Covered(s, G), NEW f \in Frag, r.outcome[f[1]] \in Live PROVE Kept(r, f, G)
      <4>1. Kept(s, f, G)
        BY <2>5, <3>4 DEF Covered, Resent
      <4>2. CASE f \in G
        BY <4>2 DEF Kept
      <4>3. ASSUME NEW u \in DOMAIN s.unacked, s.unacked[u].frag = f
            PROVE  \E v \in DOMAIN r.unacked : r.unacked[v].frag = f
        <5>1. CASE u = t
          BY <2>5, <4>3, <5>1 DEF Resent
        <5>2. CASE u # t
          BY <2>5, <4>3, <5>2 DEF Resent
        <5> QED BY <5>1, <5>2
      <4> QED BY <4>1, <4>2, <4>3 DEF Kept
    <3>5. r.count < SeqSpace => s.count < SeqSpace
      BY <3>3
    <3> QED BY <1>2, <3>2, <3>4, <3>5 DEF SenderInv, Covered
  <2> QED BY <1>2, <2>3, <2>4, <2>5
<1> QED BY <1>2, <1>3, <1>4, <1>5

-----------------------------------------------------------------------------
(* The handlers of the sender.                                                *)

(* Other messages and Acks may be under way, as long as they are right.       *)
LEMMA TravelInv ==
  ASSUME NEW s, NEW N, NEW A, NEW G, SenderInv(s, N, A, G),
         NEW M, NEW B, NEW H, G \subseteq H,
         s.count < SeqSpace => \A m \in M : MessageOk(s, m),
         s.count < SeqSpace => \A a \in B : AckOk(s, a, H)
  PROVE  SenderInv(s, M, B, H)
<1>1. Tracked(s, M, B, H)
  BY DEF SenderInv, Tracked
<1>2. Covered(s, G) => Covered(s, H)
  BY DEF Covered, Kept
<1> QED BY <1>1, <1>2 DEF SenderInv

(* The invariant does not depend on removed, and on out only in what it       *)
(* holds.                                                                     *)
LEMMA SameInv ==
  ASSUME NEW s, NEW N, NEW A, NEW G, SenderInv(s, N, A, G),
         NEW r \in Sender, r.lastTx = s.lastTx, r.count = s.count, r.unacked = s.unacked,
         r.first = s.first, r.netPkt = s.netPkt, r.outcome = s.outcome, r.failed = s.failed,
         r.out = s.out \/ r.out = <<>>
  PROVE  SenderInv(r, N, A, G)
<1>1. SenderOk(r) /\ Once(r)
  BY DEF SenderInv, SenderOk, Windowed, Numbered, Oldest, Listed, Once, Overrun
<1>2. \A m : MessageOk(r, m) <=> MessageOk(s, m)
  BY DEF MessageOk, Used
<1>3. \A a : AckOk(r, a, G) <=> AckOk(s, a, G)
  BY DEF AckOk, Used
<1>4. s.count < SeqSpace => \A i \in 1 .. Len(r.out) : MessageOk(s, r.out[i])
  <2>1. CASE r.out = s.out
    BY <2>1 DEF SenderInv, Tracked
  <2>2. CASE r.out = <<>>
    <3>1. Len(r.out) = 0
      BY <2>2
    <3> QED BY <3>1
  <2> QED BY <2>1, <2>2
<1>5. Tracked(r, N, A, G)
  BY <1>2, <1>3, <1>4 DEF SenderInv, Tracked
<1>6. Covered(r, G) <=> Covered(s, G)
  BY DEF Covered, Kept
<1> QED BY <1>1, <1>5, <1>6 DEF SenderInv

(* Emptying removedLpPackets.                                                 *)
LEMMA ClearedInv ==
  ASSUME NEW s, NEW N, NEW A, NEW G, SenderInv(s, N, A, G), NEW r, r = [s EXCEPT !.removed = {}]
  PROVE  SenderInv(r, N, A, G)
<1>1. /\ r \in Sender /\ r.lastTx = s.lastTx /\ r.count = s.count /\ r.unacked = s.unacked
      /\ r.first = s.first /\ r.netPkt = s.netPkt /\ r.outcome = s.outcome /\ r.failed = s.failed
      /\ r.out = s.out
  BY DEF Sender, SenderInv, SenderOk, Windowed
<1> QED BY ZenonT(60), SMTT(60), <1>1, SameInv

(* Handing over what was sent.                                                *)
LEMMA HandedOverInv ==
  ASSUME NEW s, NEW N, NEW A, NEW G, SenderInv(s, N, A, G),
         NEW M, \A m \in M : m \in N \/ \E i \in 1 .. Len(s.out) : m = s.out[i],
         NEW r, r = [s EXCEPT !.out = <<>>, !.removed = {}]
  PROVE  SenderInv(r, M, A, G)
<1>1. s \in Sender /\ <<>> \in Seq(Message) /\ {} \in SUBSET TxSequence
  BY DEF SenderInv, SenderOk, Windowed
<1>2. /\ r \in Sender /\ r.lastTx = s.lastTx /\ r.count = s.count /\ r.unacked = s.unacked
      /\ r.first = s.first /\ r.netPkt = s.netPkt /\ r.outcome = s.outcome /\ r.failed = s.failed
      /\ r.out = <<>>
  BY ZenonT(60), SMTT(60), <1>1 DEF Sender
<1>3. s.count < SeqSpace =>
        (\A m \in N : MessageOk(s, m)) /\ (\A i \in 1 .. Len(s.out) : MessageOk(s, s.out[i]))
  BY DEF SenderInv, Tracked
<1>4. s.count < SeqSpace => \A m \in M : MessageOk(s, m)
  BY <1>3
<1>5. s.count < SeqSpace => \A a \in A : AckOk(s, a, G)
  BY DEF SenderInv, Tracked
<1>6. SenderInv(s, M, A, G)
  BY <1>4, <1>5, TravelInv
<1> QED BY ZenonT(60), SMTT(60), <1>2, <1>6, SameInv

(* The loop over lostLpPackets: what it has not yet handled, and was not      *)
(* removed, is in the map.                                                    *)
LEMMA HandleLostInv ==
  ASSUME NEW s, NEW N, NEW A, NEW G, SenderInv(s, N, A, G),
         NEW lost \in SUBSET DOMAIN s.unacked, NEW start, NEW r, r = HandleLost(s, lost, start)
  PROVE  SenderInv(r, N, A, G)
<1>1. s \in Sender /\ lost \subseteq TxSequence /\ SeqSpace \in Nat
  BY SenderFacts, MapFacts, LpAssumption DEF SenderInv, SenderOk, Windowed
<1>2. PICK g : /\ g[0] = [s EXCEPT !.removed = {}]
               /\ \A i \in 1 .. SeqSpace : g[i] = LossTurn(g[i - 1], lost, Plus(start, i - 1))
               /\ r = g[SeqSpace]
  BY LossLoop
<1> DEFINE S == {i \in 0 .. SeqSpace :
                   SenderInv(g[i], N, A, G) /\ lost \ g[i].removed \subseteq DOMAIN g[i].unacked}
<1>3. 0 \in S
  <2>1. g[0].unacked = s.unacked
    BY <1>1, <1>2 DEF Sender
  <2>2. SenderInv(g[0], N, A, G)
    BY <1>2, ClearedInv
  <2> QED BY <1>1, <2>1, <2>2
<1>4. ASSUME NEW i \in 0 .. SeqSpace - 1, i \in S PROVE i + 1 \in S
  <2>1. PICK m : m = g[i]
    OBVIOUS
  <2>2. PICK t : t = Plus(start, i)
    OBVIOUS
  <2>3. PICK v : v = g[i + 1]
    OBVIOUS
  <2>4. SenderInv(m, N, A, G) /\ lost \ m.removed \subseteq DOMAIN m.unacked
    BY <1>4, <2>1
  <2>5. v = IF t \in lost \ m.removed THEN onLpPacketLost(m, t) ELSE m
    <3>1. i + 1 \in 1 .. SeqSpace /\ (i + 1) - 1 = i
      BY <1>1
    <3>2. v = LossTurn(m, lost, t)
      BY <1>2, <2>1, <2>2, <2>3, <3>1
    <3> QED BY <3>2 DEF LossTurn
  <2>6. SenderInv(v, N, A, G) /\ lost \ v.removed \subseteq DOMAIN v.unacked
    <3>1. CASE t \in lost \ m.removed
      <4>1. t \in TxSequence /\ t \in DOMAIN m.unacked /\ v = onLpPacketLost(m, t)
        BY <1>1, <2>4, <2>5, <3>1
      <4>2. /\ SenderInv(v, N, A, G)
            /\ \A u \in DOMAIN m.unacked \ DOMAIN v.unacked : u \in v.removed
            /\ m.removed \subseteq v.removed
        BY <2>4, <4>1, LostInv
      <4> QED BY <2>4, <4>2
    <3>2. CASE t \notin lost \ m.removed
      BY <2>4, <2>5, <3>2
    <3> QED BY <3>1, <3>2
  <2> QED BY <1>1, <2>3, <2>6
<1> HIDE DEF S
<1>5. \A i \in 0 .. SeqSpace - 1 : i \in S => i + 1 \in S
  BY <1>4
<1>6. \A i \in 0 .. SeqSpace : i \in S
  BY ZenonT(60), <1>1, <1>3, <1>5, LoopInduction
<1>7. SeqSpace \in S
  BY <1>1, <1>6
<1> QED BY <1>2, <1>7 DEF S

(* processIncomingPacket, one Ack.  The lost fragments are in the map, and    *)
(* the acknowledged one is not among them.                                    *)
LEMMA ProcessAckInv ==
  ASSUME NEW s, NEW N, NEW A, NEW G, SenderInv(s, N, A, G), NEW a \in A,
         NEW r, r = ProcessAck(s, a)
  PROVE  SenderInv(r, N, A, G)
<1>1. CASE s.failed \/ a \notin DOMAIN s.unacked
  BY <1>1 DEF ProcessAck
<1>2. CASE ~s.failed /\ a \in DOMAIN s.unacked
  <2>1. PICK c : c = CountGreaterAck(s, a)
    OBVIOUS
  <2>2. PICK k : k = onLpPacketAcknowledged(c, a)
    OBVIOUS
  <2>3. PICK lost : lost = findLostLpPackets(s, a)
    OBVIOUS
  <2>4. SenderOk(c) /\ Once(c) /\ Counted(s, c)
    BY <2>1, CountFields DEF SenderInv
  <2>5. ~c.failed /\ a \in DOMAIN c.unacked
    BY <1>2, <2>4 DEF Counted
  <2>6. SenderOk(k) /\ Once(k) /\ Acknowledged(c, a, k)
    BY <2>2, <2>4, <2>5, AckedKeeps
  <2>7. Tracked(k, N, A, G)
    <3>1. Shrunk(s, c) /\ Shrunk(c, k)
      BY <2>4, <2>6 DEF Counted, Acknowledged, Shrunk
    <3>2. Tracked(c, N, A, G)
      BY <3>1, ShrunkTracks DEF SenderInv
    <3> QED BY <3>1, <3>2, ShrunkTracks
  <2>8. ASSUME s.count < SeqSpace PROVE Covered(k, G)
    <3>1. Covered(s, G) /\ s.unacked[a].frag \in G
      BY <1>2, <2>8 DEF SenderInv, Tracked, AckOk
    <3>2. ASSUME NEW f \in Frag, k.outcome[f[1]] \in Live PROVE Kept(k, f, G)
      <4>1. f[1] \in Packet
        BY FragFacts
      <4>2. s.outcome[f[1]] \in Live
        BY <2>4, <2>6, <3>2, <4>1 DEF Counted, Acknowledged, Live
      <4>3. Kept(s, f, G)
        BY <3>1, <4>2 DEF Covered
      <4>4. ASSUME NEW u \in DOMAIN s.unacked, s.unacked[u].frag = f PROVE Kept(k, f, G)
        <5>1. CASE u = a
          BY <3>1, <4>4, <5>1 DEF Kept
        <5>2. CASE u # a
          BY <2>4, <2>6, <4>4, <5>2 DEF Kept, Counted, Acknowledged
        <5> QED BY <5>1, <5>2
      <4> QED BY <4>3, <4>4 DEF Kept
    <3> QED BY <3>2 DEF Covered
  <2>9. k.count = s.count
    BY <2>4, <2>6 DEF Counted, Acknowledged
  <2>10. SenderInv(k, N, A, G)
    BY <2>6, <2>7, <2>8, <2>9 DEF SenderInv
  <2>11. lost \subseteq DOMAIN k.unacked
    <3>1. Windowed(s)
      BY DEF SenderInv, SenderOk
    <3>2. s.first \in DOMAIN s.unacked
      BY <1>2, <3>1, WindowFacts
    <3>3. s.first \in TxSequence /\ a \in TxSequence
      BY <1>2, <3>1, <3>2, WindowFacts
    <3>4. Dist(s.first, a) \in 0 .. SeqSpace - 1
      BY <3>3, NumberTypes
    <3>5. ~(Dist(s.first, a) < Dist(s.first, a))
      BY <3>4, LpAssumption
    <3>6. lost \subseteq DOMAIN s.unacked /\ a \notin lost
      BY <2>3, <3>5 DEF findLostLpPackets, Overtaken
    <3> QED BY <2>4, <2>6, <3>6 DEF Counted, Acknowledged
  <2>12. r = HandleLost(k, lost, s.first)
    BY <1>2, <2>1, <2>2, <2>3 DEF ProcessAck
  <2> QED BY <2>10, <2>11, <2>12, HandleLostInv
<1> QED BY <1>1, <1>2

(* processIncomingPacket, all Acks.                                           *)
LEMMA ProcessAcksInv ==
  ASSUME NEW s, NEW N, NEW A, NEW G, SenderInv(s, N, A, G),
         NEW acks, Len(acks) \in Nat, \A i \in 1 .. Len(acks) : acks[i] \in A,
         NEW r, r = ProcessAcks(s, acks)
  PROVE  SenderInv(r, N, A, G)
<1>1. PICK n : n = Len(acks)
  OBVIOUS
<1>2. PICK g : /\ g[0] = s
               /\ \A i \in 1 .. n : g[i] = ProcessAck(g[i - 1], acks[i])
               /\ r = g[n]
  BY <1>1, AcksLoop
<1> DEFINE S == {i \in 0 .. n : SenderInv(g[i], N, A, G)}
<1>3. 0 \in S /\ n \in Nat
  BY <1>1, <1>2
<1>4. ASSUME NEW i \in 0 .. n - 1, i \in S PROVE i + 1 \in S
  <2>1. i + 1 \in 1 .. n /\ (i + 1) - 1 = i /\ i + 1 \in 0 .. n
    BY <1>3
  <2>2. SenderInv(g[i], N, A, G) /\ acks[i + 1] \in A /\ g[i + 1] = ProcessAck(g[i], acks[i + 1])
    BY <1>1, <1>2, <1>4, <2>1
  <2>3. SenderInv(g[i + 1], N, A, G)
    BY <2>2, ProcessAckInv
  <2> QED BY <2>1, <2>3
<1> HIDE DEF S
<1>5. \A i \in 0 .. n - 1 : i \in S => i + 1 \in S
  BY <1>4
<1>6. \A i \in 0 .. n : i \in S
  BY ZenonT(60), <1>3, <1>5, LoopInduction
<1>7. n \in S
  BY <1>3, <1>6
<1> QED BY <1>2, <1>7 DEF S

(* handleOutgoing, after the first i fragments of packet p: only these are in *)
(* the map.                                                                   *)
Sending(s, N, A, G, p, i) ==
  /\ SenderOk(s) /\ Once(s) /\ Tracked(s, N, A, G)
  /\ \A t \in DOMAIN s.unacked : s.unacked[t].frag[1] = p => s.unacked[t].frag[2] < i
  /\ s.count < SeqSpace =>
       \A f \in Frag :
         (IF f[1] = p THEN f[2] < i ELSE s.outcome[f[1]] \in Live) => Kept(s, f, G)

(* One turn of handleOutgoing.                                                *)
LEMMA SendingTurn ==
  ASSUME NEW s, NEW N, NEW A, NEW G, NEW p \in Packet, NEW i \in 0 .. NFrags[p] - 1,
         Sending(s, N, A, G, p, i), NEW r, r = Transmit(s, <<p, i>>, 0)
  PROVE  Sending(r, N, A, G, p, i + 1)
<1>1. PICK f : f = <<p, i>>
  OBVIOUS
<1>2. PICK tx : tx = Plus(s.lastTx, 1)
  OBVIOUS
<1>3. /\ f \in Frag /\ f[1] = p /\ f[2] = i /\ i \in Nat /\ 0 \in Nat
      /\ \A h \in Frag : h[1] = p => h[2] \in Nat /\ (h[2] = i => h = f)
  BY <1>1, LpAssumption DEF Frag, Fragments
<1>4. /\ s \in Sender /\ SenderOk(s) /\ Windowed(s) /\ s.count \in Nat /\ SeqSpace \in Nat
      /\ s.outcome \in [Packet -> Outcome]
      /\ \A t \in DOMAIN s.unacked : s.unacked[t].frag \in Frag
  BY ZenonT(60), SMTT(60), SenderFacts, MapFacts, LpAssumption DEF Sending, SenderOk, Windowed
<1>5. SenderOk(r)
  BY <1>1, <1>3, <1>4, TransmitKeeps
<1>6. \A t \in DOMAIN s.unacked : s.unacked[t].frag[1] = p =>
          s.unacked[t].frag[2] < i + 1 /\ s.unacked[t].frag # f
  BY <1>3, <1>4 DEF Sending
<1>7. CASE s.failed \/ (DOMAIN s.unacked # {} /\ tx = s.first)
  <2>1. r = [s EXCEPT !.failed = TRUE]
    BY ZenonT(60), SMTT(60), <1>2, <1>4, <1>7, TransmitFails
  <2>2. r.failed /\ r.unacked = s.unacked /\ r.count = s.count
    BY <1>4, <2>1 DEF Sender
  <2>3. ~(r.count < SeqSpace)
    BY <1>4, <1>5, <2>2, OverrunLate DEF SenderOk
  <2>4. Once(r)
    <3>1. Once(s)
      BY DEF Sending
    <3> QED BY ZenonT(60), SMTT(60), <2>2, <3>1 DEF Once
  <2>5. Tracked(r, N, A, G)
    BY ZenonT(60), SMTT(60), <2>3 DEF Tracked
  <2>6. \A t \in DOMAIN r.unacked : r.unacked[t].frag[1] = p => r.unacked[t].frag[2] < i + 1
    BY ZenonT(60), SMTT(60), <1>6, <2>2
  <2> QED BY ZenonT(60), SMTT(60), <1>5, <2>3, <2>4, <2>5, <2>6 DEF Sending
<1>8. CASE ~s.failed /\ (DOMAIN s.unacked = {} \/ tx # s.first)
  <2>1. Sent(s, f, tx, r)
    BY <1>1, <1>2, <1>3, <1>4, <1>8, TransmitFields
  <2>2. tx \notin DOMAIN s.unacked
    BY <1>2, <1>4, <1>8, FreshNumber
  <2>3. Added(s, f, tx, r)
    BY ZenonT(60), SMTT(60), <2>1, <2>2 DEF Sent, Added
  <2>4. Tracked(r, N, A, G)
    BY ZenonT(60), SMTT(60), <1>2, <1>4, <2>3, AddedTracks DEF Sending
  <2>5. /\ DOMAIN r.unacked = DOMAIN s.unacked \cup {tx} /\ r.unacked[tx].frag = f
        /\ \A t \in DOMAIN s.unacked : r.unacked[t] = s.unacked[t]
        /\ r.outcome = [s.outcome EXCEPT ![p] = "pending"] /\ r.count = s.count + 1
    BY <1>3, <2>1, <2>2 DEF Sent
  <2>6. Once(r)
    BY <1>3, <1>6, <2>5 DEF Sending, Once
  <2>7. \A t \in DOMAIN r.unacked : r.unacked[t].frag[1] = p => r.unacked[t].frag[2] < i + 1
    BY <1>3, <1>6, <2>5
  <2>8. ASSUME r.count < SeqSpace, NEW h \in Frag,
               IF h[1] = p THEN h[2] < i + 1 ELSE r.outcome[h[1]] \in Live
        PROVE  Kept(r, h, G)
    <3>1. s.count < SeqSpace
      BY <1>4, <2>5, <2>8
    <3>2. CASE h = f
      BY <2>5, <3>2 DEF Kept
    <3>3. CASE h # f
      <4>1. IF h[1] = p THEN h[2] < i ELSE s.outcome[h[1]] \in Live
        <5>1. CASE h[1] = p
          BY <1>3, <2>8, <3>3, <5>1
        <5>2. CASE h[1] # p
          BY <1>4, <2>5, <2>8, <5>2, FragFacts
        <5> QED BY <5>1, <5>2
      <4>2. Kept(s, h, G)
        BY ZenonT(60), SMTT(60), <3>1, <4>1 DEF Sending
      <4> QED BY <2>5, <4>2 DEF Kept
    <3> QED BY <3>2, <3>3
  <2> QED BY ZenonT(60), SMTT(60), <1>5, <2>4, <2>6, <2>7, <2>8 DEF Sending
<1> QED BY <1>7, <1>8

(* handleOutgoing of a packet that was not sent before.                       *)
LEMMA OutgoingInv ==
  ASSUME NEW s, NEW N, NEW A, NEW G, SenderInv(s, N, A, G),
         NEW p \in Packet, s.outcome[p] = "unsent", NEW r, r = handleOutgoing(s, p)
  PROVE  SenderInv(r, N, A, G)
<1>1. PICK n : n = NFrags[p]
  OBVIOUS
<1>2. PICK g : /\ g[0] = s
               /\ \A i \in 1 .. n : g[i] = Transmit(g[i - 1], <<p, i - 1>>, 0)
               /\ r = g[n]
  BY <1>1, OutgoingLoop
<1> DEFINE S == {i \in 0 .. n : Sending(g[i], N, A, G, p, i)}
<1>3. n \in Nat
  BY <1>1, LpAssumption
<1>4. \A f \in Frag : f[1] \in Packet /\ f[2] \in Nat /\ (f[1] = p => f[2] < n)
  BY <1>1, LpAssumption DEF Frag, Fragments
<1>5. Sending(s, N, A, G, p, 0)
  <2>1. s.netPkt[p] = {t \in DOMAIN s.unacked : s.unacked[t].frag[1] = p} /\ s.netPkt[p] = {}
    BY DEF SenderInv, SenderOk, Listed
  <2>2. \A t \in DOMAIN s.unacked : s.unacked[t].frag[1] # p
    BY <2>1
  <2>3. \A f \in Frag : ~(f[2] < 0)
    BY <1>4
  <2> QED BY <2>2, <2>3 DEF SenderInv, Sending, Covered
<1>6. 0 \in S
  BY <1>2, <1>3, <1>5
<1>7. ASSUME NEW i \in 0 .. n - 1, i \in S PROVE i + 1 \in S
  <2>1. i + 1 \in 1 .. n /\ (i + 1) - 1 = i /\ i + 1 \in 0 .. n
    BY <1>3
  <2>2. Sending(g[i], N, A, G, p, i) /\ g[i + 1] = Transmit(g[i], <<p, i>>, 0)
    BY <1>2, <1>7, <2>1
  <2>3. Sending(g[i + 1], N, A, G, p, i + 1)
    BY <1>1, <2>2, SendingTurn
  <2> QED BY <2>1, <2>3
<1> HIDE DEF S
<1>8. \A i \in 0 .. n - 1 : i \in S => i + 1 \in S
  BY <1>7
<1>9. \A i \in 0 .. n : i \in S
  BY ZenonT(60), <1>3, <1>6, <1>8, LoopInduction
<1>10. Sending(r, N, A, G, p, n)
  BY <1>2, <1>3, <1>9 DEF S
<1> QED BY <1>4, <1>10 DEF SenderInv, Sending, Covered

-----------------------------------------------------------------------------
(* The receiver.                                                              *)

Receiver ==
  [ackQueue : Seq(TxSequence), idleTimer : BOOLEAN, recent : SUBSET Frag, recentQueue : Seq(Frag),
   partial : [Packet -> SUBSET Frag], delivered : [Packet -> Nat],
   got : SUBSET Frag, expired : SUBSET Packet, forgot : SUBSET Packet]

(* A partial packet is incomplete, and holds all that arrived unless it timed *)
(* out or the packet was delivered.  What arrived of a packet whose Sequences *)
(* were not forgotten is recognised as a duplicate.                           *)
Reassembling(r, p) ==
  /\ r.partial[p] \subseteq r.got \cap Fragments(p) /\ r.partial[p] # Fragments(p)
  /\ p \notin r.expired /\ r.delivered[p] = 0 => r.partial[p] = r.got \cap Fragments(p)
  /\ p \notin r.forgot =>
       /\ r.got \cap Fragments(p) \subseteq r.recent
       /\ r.delivered[p] = 0 \/ (r.delivered[p] = 1 /\ Fragments(p) \subseteq r.got)
ReceiverOk(r) ==
  r \in Receiver /\ r.recent \subseteq r.got /\ \A p \in Packet : Reassembling(r, p)

(* The fields of a receiver.                                                  *)
LEMMA ReceiverFacts ==
  ASSUME NEW r \in Receiver
  PROVE  /\ r.ackQueue \in Seq(TxSequence) /\ r.idleTimer \in BOOLEAN /\ r.recent \in SUBSET Frag
         /\ r.recentQueue \in Seq(Frag) /\ r.partial \in [Packet -> SUBSET Frag]
         /\ r.delivered \in [Packet -> Nat] /\ r.got \in SUBSET Frag
         /\ r.expired \in SUBSET Packet /\ r.forgot \in SUBSET Packet
  BY DEF Receiver

Entries(q) == {q[i] : i \in 1 .. Len(q)}

(* Append adds one entry.                                                     *)
LEMMA EntriesOfAppend ==
  ASSUME NEW S, NEW q \in Seq(S), NEW x \in S
  PROVE  Entries(Append(q, x)) \subseteq Entries(q) \cup {x}
BY DEF Entries

(* A part of a sequence.                                                      *)
LEMMA PartOfSeq ==
  ASSUME NEW S, NEW q \in Seq(S), NEW a \in Nat, a >= 1, NEW b \in Int, b <= Len(q),
         NEW w, w = SubSeq(q, a, b)
  PROVE  w \in Seq(S) /\ Entries(w) \subseteq Entries(q)
<1>1. \A i \in a .. b : q[i] \in S
  OBVIOUS
<1>2. /\ w \in Seq(S)
      /\ Len(w) = IF a <= b THEN b - a + 1 ELSE 0
      /\ \A i \in 1 .. b - a + 1 : w[i] = q[a + i - 1]
  BY <1>1, SubSeqProperties
<1>3. \A i \in 1 .. b - a + 1 : a + i - 1 \in 1 .. Len(q)
  OBVIOUS
<1>4. ASSUME NEW i \in 1 .. Len(w) PROVE i \in 1 .. b - a + 1
  BY <1>2, <1>4
<1> QED BY <1>2, <1>3, <1>4 DEF Entries

(* A fragment of packet p is one of its fragments, and no other packet's.     *)
LEMMA FragOfPacket ==
  ASSUME NEW f \in Frag, NEW p \in Packet
  PROVE  f \in Fragments(p) <=> f[1] = p
<1>1. f \in Fragments(f[1])
  BY FragFacts
<1>2. f \in Fragments(p) => f[1] = p
  BY DEF Fragments
<1> QED BY <1>1, <1>2

(* The entries removed from m_recentRecvSeqs, and the Ack.                    *)
LEMMA QueueAckFields ==
  ASSUME NEW s \in Receiver, NEW m \in Message, NEW k \in Forgettable(s),
         NEW gone, gone = FirstOf(s.recentQueue, k), NEW r, r = QueueAck(s, m, k)
  PROVE  /\ r \in Receiver
         /\ r.ackQueue = Append(s.ackQueue, m.tx)
         /\ r.recent = (s.recent \ gone) \cup {m.frag}
         /\ r.partial = s.partial /\ r.delivered = s.delivered /\ r.expired = s.expired
         /\ r.forgot = s.forgot \cup {f[1] : f \in gone}
         /\ r.got = s.got \cup {m.frag}
<1> DEFINE Q == Append(SubSeq(s.recentQueue, k + 1, Len(s.recentQueue)), m.frag)
           B == Append(s.ackQueue, m.tx)
           F == s.forgot \cup {f[1] : f \in gone}
           R == (s.recent \ gone) \cup {m.frag}
           H == s.got \cup {m.frag}
<1>1. /\ s.ackQueue \in Seq(TxSequence) /\ s.recent \in SUBSET Frag
      /\ s.recentQueue \in Seq(Frag) /\ s.got \in SUBSET Frag /\ s.forgot \in SUBSET Packet
      /\ m.tx \in TxSequence /\ m.frag \in Frag
  BY ReceiverFacts DEF Message
<1>2. k \in 0 .. Len(s.recentQueue) /\ Len(s.recentQueue) \in Nat
  BY <1>1 DEF Forgettable
<1>3. SubSeq(s.recentQueue, k + 1, Len(s.recentQueue)) \in Seq(Frag)
  BY <1>1, <1>2, PartOfSeq
<1>4. Q \in Seq(Frag) /\ B \in Seq(TxSequence)
  BY <1>1, <1>3
<1>5. gone \subseteq Frag
  BY <1>1, <1>2 DEF FirstOf
<1>6. F \in SUBSET Packet /\ R \in SUBSET Frag /\ H \in SUBSET Frag
  BY <1>1, <1>5, FragFacts
<1>7. r = [s EXCEPT !.ackQueue = B, !.idleTimer = TRUE, !.recent = R, !.recentQueue = Q,
                    !.forgot = F, !.got = H]
  BY DEF QueueAck, Receiver
<1> HIDE DEF Q, B, F, R, H
<1>8. /\ r \in Receiver /\ r.ackQueue = B /\ r.recent = R /\ r.partial = s.partial
      /\ r.delivered = s.delivered /\ r.expired = s.expired /\ r.forgot = F /\ r.got = H
  BY ZenonT(60), SMTT(60), <1>4, <1>6, <1>7 DEF Receiver
<1> QED BY <1>8 DEF B, F, R, H

(* The receiver takes the fragment of message m.                              *)
LEMMA ReceiveOk ==
  ASSUME NEW s, ReceiverOk(s), NEW m \in Message, NEW k \in Forgettable(s),
         NEW q, q = QueueAck(s, m, k), NEW r, r = IF m.frag \in s.recent THEN q ELSE receiveFragment(q, m.frag)
  PROVE  /\ ReceiverOk(r) /\ r.ackQueue = Append(s.ackQueue, m.tx) /\ r.got = s.got \cup {m.frag}
<1> DEFINE p == m.frag[1]
<1>1. PICK f : f = m.frag
  OBVIOUS
<1>2. PICK gone : gone = FirstOf(s.recentQueue, k)
  OBVIOUS
<1>3. s \in Receiver /\ f \in Frag /\ p \in Packet /\ s.recent \subseteq s.got
  BY <1>1, FragFacts DEF ReceiverOk, Message
<1>4. /\ q \in Receiver
      /\ q.ackQueue = Append(s.ackQueue, m.tx)
      /\ q.recent = (s.recent \ gone) \cup {f}
      /\ q.partial = s.partial /\ q.delivered = s.delivered /\ q.expired = s.expired
      /\ q.forgot = s.forgot \cup {h[1] : h \in gone}
      /\ q.got = s.got \cup {f}
  BY <1>1, <1>2, <1>3, QueueAckFields
<1>5. /\ q.partial \in [Packet -> SUBSET Frag] /\ q.delivered \in [Packet -> Nat]
      /\ s.partial \in [Packet -> SUBSET Frag] /\ s.delivered \in [Packet -> Nat]
      /\ s.got \subseteq Frag
  BY <1>3, <1>4, ReceiverFacts
<1>6. q.recent \subseteq q.got
  BY <1>3, <1>4
<1>7. ASSUME NEW o \in Packet, o \notin q.forgot
      PROVE  o \notin s.forgot /\ \A h \in Frag : h \in Fragments(o) => h \notin gone
  <2>1. \A h \in Frag : h \in Fragments(o) => h[1] = o
    BY FragOfPacket
  <2> QED BY <1>4, <1>7, <2>1
<1>8. ASSUME NEW o \in Packet, o # p PROVE Reassembling(q, o)
  <2>1. q.got \cap Fragments(o) = s.got \cap Fragments(o)
    <3>1. f \notin Fragments(o)
      BY <1>1, <1>3, <1>8, FragOfPacket
    <3> QED BY <1>4, <3>1
  <2>2. Reassembling(s, o)
    BY DEF ReceiverOk
  <2>3. /\ q.partial[o] \subseteq q.got \cap Fragments(o) /\ q.partial[o] # Fragments(o)
        /\ o \notin q.expired /\ q.delivered[o] = 0 => q.partial[o] = q.got \cap Fragments(o)
    BY <1>4, <2>1, <2>2 DEF Reassembling
  <2>4. ASSUME o \notin q.forgot
        PROVE  /\ q.got \cap Fragments(o) \subseteq q.recent
               /\ q.delivered[o] = 0 \/ (q.delivered[o] = 1 /\ Fragments(o) \subseteq q.got)
    BY <1>4, <1>5, <1>7, <2>1, <2>2, <2>4 DEF Reassembling
  <2> QED BY <2>3, <2>4 DEF Reassembling
<1>9. Reassembling(s, p) /\ f \in Fragments(p)
  BY <1>1, <1>3, FragOfPacket DEF ReceiverOk
<1>10. p \notin q.forgot =>
         p \notin s.forgot /\ q.got \cap Fragments(p) \subseteq q.recent
  <2>1. ASSUME p \notin q.forgot, NEW h \in q.got \cap Fragments(p) PROVE h \in q.recent
    <3>1. h = f \/ (h \in s.got /\ h \in s.recent /\ h \notin gone)
      BY ZenonT(60), SMTT(60), <1>3, <1>4, <1>5, <1>7, <1>9, <2>1 DEF Reassembling
    <3> QED BY <1>4, <3>1
  <2> QED BY <1>3, <1>7, <2>1
<1>11. CASE f \in s.recent
  <2>1. r = q /\ q.got = s.got
    BY <1>1, <1>3, <1>4, <1>11
  <2>2. Reassembling(q, p)
    BY ZenonT(60), SMTT(60), <1>4, <1>9, <1>10, <2>1 DEF Reassembling
  <2>3. \A o \in Packet : Reassembling(q, o)
    BY <1>8, <2>2
  <2> QED BY ZenonT(60), SMTT(60), <1>1, <1>4, <1>6, <2>1, <2>3 DEF ReceiverOk
<1>12. CASE f \notin s.recent
  <2> DEFINE have == s.partial[p] \cup {f}
             P == [s.partial EXCEPT ![p] = IF have = Fragments(p) THEN {} ELSE have]
             D == [s.delivered EXCEPT ![p] = IF have = Fragments(p) THEN @ + 1 ELSE @]
  <2>1. P \in [Packet -> SUBSET Frag] /\ D \in [Packet -> Nat]
    BY <1>3, <1>5
  <2>2. r = [q EXCEPT !.partial = P, !.delivered = D]
    <3>1. r = receiveFragment(q, f)
      BY <1>1, <1>12
    <3>2. CASE have = Fragments(p)
      BY ZenonT(60), SMTT(60), <1>1, <1>4, <3>1, <3>2 DEF receiveFragment, Receiver
    <3>3. CASE have # Fragments(p)
      <4>1. r = [q EXCEPT !.partial[p] = have]
        BY ZenonT(60), SMTT(60), <1>1, <1>4, <3>1, <3>3 DEF receiveFragment
      <4>2. D = q.delivered
        BY <1>4, <1>5, <3>3
      <4> QED BY ZenonT(60), SMTT(60), <1>4, <3>3, <4>1, <4>2 DEF Receiver
    <3> QED BY <3>2, <3>3
  <2> HIDE DEF P, D
  <2>3. /\ r \in Receiver /\ r.partial = P /\ r.delivered = D /\ r.ackQueue = q.ackQueue
        /\ r.recent = q.recent /\ r.got = q.got /\ r.expired = q.expired /\ r.forgot = q.forgot
    BY ZenonT(60), SMTT(60), <1>4, <2>1, <2>2 DEF Receiver
  <2>4. ASSUME NEW o \in Packet, o # p PROVE Reassembling(r, o)
    <3>1. r.partial[o] = q.partial[o]
      BY ZenonT(60), SMTT(60), <1>4, <1>5, <2>3, <2>4 DEF P
    <3>2. r.delivered[o] = q.delivered[o]
      BY ZenonT(60), SMTT(60), <1>4, <1>5, <2>3, <2>4 DEF D
    <3> QED BY ZenonT(60), SMTT(60), <1>8, <2>3, <2>4, <3>1, <3>2 DEF Reassembling
  <2>5. Reassembling(r, p)
    <3>1. /\ r.partial[p] = IF have = Fragments(p) THEN {} ELSE have
          /\ r.delivered[p] = IF have = Fragments(p) THEN s.delivered[p] + 1 ELSE s.delivered[p]
          /\ s.delivered[p] \in Nat
      BY ZenonT(60), SMTT(60), <1>3, <1>5, <2>3 DEF P, D
    <3>2. /\ s.partial[p] \subseteq s.got \cap Fragments(p) /\ s.partial[p] # Fragments(p)
          /\ p \notin s.expired /\ s.delivered[p] = 0 => s.partial[p] = s.got \cap Fragments(p)
      BY <1>9 DEF Reassembling
    <3>3. r.partial[p] \subseteq r.got \cap Fragments(p) /\ r.partial[p] # Fragments(p)
      <4>1. CASE have = Fragments(p)
        BY ZenonT(60), SMTT(60), <1>9, <3>1, <4>1
      <4>2. CASE have # Fragments(p)
        BY ZenonT(60), SMTT(60), <1>4, <1>9, <2>3, <3>1, <3>2, <4>2
      <4> QED BY <4>1, <4>2
    <3>4. ASSUME p \notin r.expired, r.delivered[p] = 0 PROVE r.partial[p] = r.got \cap Fragments(p)
      <4>0. s.delivered[p] + 1 # 0
        BY <3>1
      <4>1. have # Fragments(p) /\ s.delivered[p] = 0
        BY ZenonT(60), SMTT(60), <3>1, <3>4, <4>0
      <4>2. s.partial[p] = s.got \cap Fragments(p)
        BY ZenonT(60), SMTT(60), <1>4, <2>3, <3>2, <3>4, <4>1
      <4>3. r.partial[p] = (s.got \cap Fragments(p)) \cup {f}
        BY ZenonT(60), SMTT(60), <3>1, <4>1, <4>2
      <4> QED BY ZenonT(60), SMTT(60), <1>4, <1>9, <2>3, <4>3
    <3>5. ASSUME p \notin r.forgot
          PROVE  r.delivered[p] = 0 \/ (r.delivered[p] = 1 /\ Fragments(p) \subseteq r.got)
      <4>1. p \notin s.forgot
        BY <1>10, <2>3, <3>5
      <4>2. ~(Fragments(p) \subseteq s.got)
        BY <1>9, <1>12, <4>1 DEF Reassembling
      <4>3. s.delivered[p] = 0
        BY <1>9, <4>1, <4>2 DEF Reassembling
      <4>4. have = Fragments(p) => Fragments(p) \subseteq r.got
        BY ZenonT(60), SMTT(60), <1>4, <2>3, <3>2
      <4>5. 0 + 1 = 1
        OBVIOUS
      <4>6. CASE have = Fragments(p)
        BY ZenonT(60), SMTT(60), <3>1, <4>3, <4>4, <4>5, <4>6
      <4>7. CASE have # Fragments(p)
        BY ZenonT(60), SMTT(60), <3>1, <4>3, <4>7
      <4> QED BY <4>6, <4>7
    <3> QED BY ZenonT(60), SMTT(60), <1>10, <2>3, <3>3, <3>4, <3>5 DEF Reassembling
  <2>6. \A o \in Packet : Reassembling(r, o)
    BY <2>4, <2>5
  <2> QED BY ZenonT(60), SMTT(60), <1>1, <1>4, <1>6, <2>3, <2>6 DEF ReceiverOk
<1> QED BY <1>11, <1>12

-----------------------------------------------------------------------------
(* The whole link.                                                            *)

Acks(r, a) == Entries(r.ackQueue) \cup UNION {Entries(a[i]) : i \in 1 .. Len(a)}

(* The inductive invariant.                                                   *)
LpInv ==
  /\ net \in Seq(Message) /\ ackNet \in Seq(Seq(TxSequence)) /\ ReceiverOk(rcv)
  /\ SenderInv(snd, Entries(net), Acks(rcv, ackNet), rcv.got)

(* It holds at the start.                                                     *)
LEMMA LpInvInit == LpInit => LpInv
<1> SUFFICES ASSUME LpInit PROVE LpInv
  OBVIOUS
<1>1. /\ net = <<>> /\ ackNet = <<>>
      /\ <<>> \in Seq(Message) /\ <<>> \in Seq(Seq(TxSequence)) /\ <<>> \in Seq(TxSequence)
      /\ <<>> \in Seq(Frag) /\ Len(<<>>) = 0 /\ DOMAIN <<>> = {}
  BY DEF LpInit
<1>2. <<>> \in UnackedFrags
  <2>1. <<>> \in [{} -> UnackedFrag]
    BY <1>1
  <2> QED BY ZenonT(60), SMTT(60), <2>1, MapTyped
<1>3. /\ snd.lastTx = StartSeq /\ snd.unacked = <<>> /\ snd.first = NoSeq
      /\ snd.netPkt = [p \in Packet |-> {}] /\ snd.outcome = [p \in Packet |-> "unsent"]
      /\ snd.count = 0 /\ snd.failed = FALSE /\ snd.out = <<>>
  BY DEF LpInit
<1>4. snd \in Sender
  <2>1. StartSeq \in TxSequence
    BY LpAssumption DEF TxSequence
  <2> QED BY ZenonT(60), SMTT(60), <1>1, <1>2, <2>1 DEF LpInit, Sender, Outcome
<1>5. DOMAIN snd.unacked = {}
  BY <1>1, <1>3
<1>6. SenderOk(snd) /\ Once(snd)
  BY <1>3, <1>4, <1>5 DEF SenderOk, Windowed, Numbered, Oldest, Listed, Once
<1>7. /\ rcv.ackQueue = <<>> /\ rcv.recent = {} /\ rcv.partial = [p \in Packet |-> {}]
      /\ rcv.delivered = [p \in Packet |-> 0] /\ rcv.got = {} /\ rcv.forgot = {}
  BY DEF LpInit
<1>8. rcv \in Receiver
  BY ZenonT(60), SMTT(60), <1>1 DEF LpInit, Receiver
<1>9. ReceiverOk(rcv)
  <2>1. ASSUME NEW p \in Packet PROVE Fragments(p) # {}
    <3>1. <<p, 0>> \in Fragments(p)
      BY LpAssumption DEF Fragments
    <3> QED BY <3>1
  <2> QED BY ZenonT(60), SMTT(60), <1>7, <1>8, <2>1 DEF ReceiverOk, Reassembling
<1>10. Entries(net) = {} /\ Acks(rcv, ackNet) = {}
  BY <1>1, <1>7 DEF Entries, Acks
<1>11. Tracked(snd, {}, {}, {})
  <2>1. Dist(StartSeq, StartSeq) = 0
    BY LpAssumption DEF Dist
  <2> QED BY <1>1, <1>3, <2>1 DEF Tracked
<1>12. Covered(snd, {})
  BY <1>3, FragFacts DEF Covered, Live
<1> QED BY ZenonT(60), SMTT(60), <1>1, <1>6, <1>7, <1>9, <1>10, <1>11, <1>12 DEF LpInv, SenderInv

(* A handler of the sender.                                                   *)
LEMMA SettleInv ==
  ASSUME LpInv, NEW s, NEW B, B = Acks(rcv, ackNet), SenderInv(s, Entries(net), B, rcv.got), Settle(s)
  PROVE  net' \in Seq(Message) /\ SenderInv(snd', Entries(net'), B, rcv.got)
<1>1. net' = net \o s.out /\ snd' = [s EXCEPT !.out = <<>>, !.removed = {}]
  BY DEF Settle
<1>2. net \in Seq(Message) /\ s.out \in Seq(Message)
  BY ZenonT(60), SMTT(60), SenderFacts DEF LpInv, SenderInv, SenderOk, Windowed
<1>3. net' \in Seq(Message)
  BY <1>1, <1>2
<1>4. ASSUME NEW m \in Entries(net')
      PROVE  m \in Entries(net) \/ \E i \in 1 .. Len(s.out) : m = s.out[i]
  <2>1. PICK i \in 1 .. Len(net') : m = net'[i]
    BY <1>4 DEF Entries
  <2>2. CASE i <= Len(net)
    <3>1. i \in 1 .. Len(net) /\ net'[i] = net[i]
      BY <1>1, <1>2, <2>2
    <3> QED BY <2>1, <3>1 DEF Entries
  <2>3. CASE ~(i <= Len(net))
    <3>1. i - Len(net) \in 1 .. Len(s.out) /\ net'[i] = s.out[i - Len(net)]
      BY <1>1, <1>2, <2>3
    <3> QED BY <2>1, <3>1
  <2> QED BY <2>2, <2>3
<1>5. SenderInv(snd', Entries(net'), B, rcv.got)
  BY ZenonT(60), SMTT(60), <1>1, <1>4, HandedOverInv
<1> QED BY <1>3, <1>5

(* Fewer messages and Acks under way.                                         *)
LEMMA FewerInv ==
  ASSUME NEW s, NEW N, NEW A, NEW G, SenderInv(s, N, A, G), NEW M \in SUBSET N, NEW B \in SUBSET A
  PROVE  SenderInv(s, M, B, G)
<1>1. s.count < SeqSpace => (\A m \in M : MessageOk(s, m)) /\ (\A a \in B : AckOk(s, a, G))
  BY DEF SenderInv, Tracked
<1> QED BY <1>1, TravelInv

(* What is behind the i-th packet of a link.                                  *)
LEMMA AfterFacts ==
  ASSUME NEW S, NEW q \in Seq(S), NEW i \in 1 .. Len(q)
  PROVE  /\ After(q, i) \in Seq(S) /\ Entries(After(q, i)) \subseteq Entries(q)
<1>1. PICK a : a = i + 1
  OBVIOUS
<1>2. PICK b : b = Len(q)
  OBVIOUS
<1>3. a \in Nat /\ a >= 1 /\ b \in Int /\ b <= Len(q) /\ After(q, i) = SubSeq(q, a, b)
  BY <1>1, <1>2 DEF After
<1> QED BY ZenonT(60), SMTT(60), <1>3, PartOfSeq

(* Fewer packets with Acks carry fewer Acks.                                  *)
LEMMA AcksOf ==
  ASSUME NEW a \in Seq(Seq(TxSequence)), NEW b, Entries(b) \subseteq Entries(a), NEW r
  PROVE  Acks(r, b) \subseteq Acks(r, a)
<1>1. ASSUME NEW x, NEW i \in 1 .. Len(b), x \in Entries(b[i])
      PROVE  \E j \in 1 .. Len(a) : x \in Entries(a[j])
  <2>1. b[i] \in Entries(a)
    BY ZenonT(60), SMTT(60), <1>1 DEF Entries
  <2>2. PICK j \in 1 .. Len(a) : b[i] = a[j]
    BY <2>1 DEF Entries
  <2> QED BY <1>1, <2>2
<1> QED BY ZenonT(60), SMTT(60), <1>1 DEF Acks

(* Every action keeps the invariant.                                          *)
LEMMA SendNetPacketInv ==
  ASSUME LpInv, NEW p \in Packet, sendNetPacket(p)
  PROVE  LpInv'
<1>1. PICK s : s = handleOutgoing(snd, p)
  OBVIOUS
<1>2. PICK B : B = Acks(rcv, ackNet)
  OBVIOUS
<1>3. snd.outcome[p] = "unsent" /\ Settle(s) /\ ackNet' = ackNet /\ rcv' = rcv
  BY <1>1 DEF sendNetPacket
<1>4. SenderInv(s, Entries(net), B, rcv.got)
  BY ZenonT(60), SMTT(60), <1>1, <1>2, <1>3, OutgoingInv DEF LpInv
<1>5. net' \in Seq(Message) /\ SenderInv(snd', Entries(net'), B, rcv.got)
  BY <1>2, <1>3, <1>4, SettleInv
<1> QED BY <1>2, <1>3, <1>5 DEF LpInv

(* onLpPacketLost called by a timer.                                          *)
LEMMA RtoExpiresInv ==
  ASSUME LpInv, NEW t \in TxSequence, RtoExpires(t)
  PROVE  LpInv'
<1>1. PICK s : s = onLpPacketLost(snd, t)
  OBVIOUS
<1>2. PICK B : B = Acks(rcv, ackNet)
  OBVIOUS
<1>3. t \in DOMAIN snd.unacked /\ Settle(s) /\ ackNet' = ackNet /\ rcv' = rcv
  BY <1>1 DEF RtoExpires, TimerRunning
<1>4. SenderInv(s, Entries(net), B, rcv.got)
  BY <1>1, <1>2, <1>3, LostInv DEF LpInv
<1>5. net' \in Seq(Message) /\ SenderInv(snd', Entries(net'), B, rcv.got)
  BY <1>2, <1>3, <1>4, SettleInv
<1> QED BY <1>2, <1>3, <1>5 DEF LpInv

(* The Acks of an IDLE packet.                                                *)
LEMMA ReceiveAcksInv ==
  ASSUME LpInv, ReceiveAcks
  PROVE  LpInv'
<1>1. ackNet \in Seq(Seq(TxSequence))
  BY DEF LpInv
<1>2. PICK i \in 1 .. Len(ackNet) :
        Settle(ProcessAcks(snd, ackNet[i])) /\ ackNet' = After(ackNet, i) /\ rcv' = rcv
  <2>1. DOMAIN ackNet = 1 .. Len(ackNet)
    BY <1>1
  <2> QED BY ZenonT(60), <2>1 DEF ReceiveAcks
<1>3. PICK acks : acks = ackNet[i]
  OBVIOUS
<1>4. PICK s : s = ProcessAcks(snd, acks)
  OBVIOUS
<1>5. PICK B : B = Acks(rcv, ackNet)
  OBVIOUS
<1>6. acks \in Seq(TxSequence) /\ Len(acks) \in Nat
  BY <1>1, <1>3
<1>7. \A j \in 1 .. Len(acks) : acks[j] \in B
  BY <1>3, <1>5 DEF Acks, Entries
<1>8. SenderInv(s, Entries(net), B, rcv.got)
  <2>1. SenderInv(snd, Entries(net), B, rcv.got)
    BY <1>5 DEF LpInv
  <2> QED BY <1>4, <1>6, <1>7, <2>1, ProcessAcksInv
<1>9. net' \in Seq(Message) /\ SenderInv(snd', Entries(net'), B, rcv.got)
  BY <1>2, <1>3, <1>4, <1>5, <1>8, SettleInv
<1>10. ackNet' \in Seq(Seq(TxSequence)) /\ Entries(ackNet') \subseteq Entries(ackNet)
  BY <1>1, <1>2, AfterFacts
<1>11. Acks(rcv, ackNet') \subseteq B
  BY ZenonT(60), SMTT(60), <1>1, <1>5, <1>10, AcksOf
<1>12. SenderInv(snd', Entries(net'), Acks(rcv, ackNet'), rcv.got)
  BY <1>9, <1>11, FewerInv
<1> QED BY <1>2, <1>9, <1>10, <1>12 DEF LpInv

(* A fragment arrives: its Ack is queued and it joins rcv.got.                *)
LEMMA DoReceivePacketInv ==
  ASSUME LpInv, doReceivePacket
  PROVE  LpInv'
<1>1. net \in Seq(Message) /\ ReceiverOk(rcv) /\ rcv \in Receiver /\ ackNet \in Seq(Seq(TxSequence))
  BY DEF LpInv, ReceiverOk
<1>2. PICK i \in 1 .. Len(net) :
        /\ \E k \in Forgettable(rcv) :
             rcv' = IF net[i].frag \in rcv.recent THEN QueueAck(rcv, net[i], k)
                    ELSE receiveFragment(QueueAck(rcv, net[i], k), net[i].frag)
        /\ net' = After(net, i) /\ snd' = snd /\ ackNet' = ackNet
  BY <1>1 DEF doReceivePacket
<1>3. PICK m : m = net[i]
  OBVIOUS
<1>4. PICK k \in Forgettable(rcv) :
        rcv' = IF m.frag \in rcv.recent THEN QueueAck(rcv, m, k)
               ELSE receiveFragment(QueueAck(rcv, m, k), m.frag)
  BY <1>2, <1>3
<1>5. m \in Message /\ m \in Entries(net)
  BY <1>1, <1>3 DEF Entries
<1>6. ReceiverOk(rcv') /\ rcv'.ackQueue = Append(rcv.ackQueue, m.tx) /\ rcv'.got = rcv.got \cup {m.frag}
  BY <1>1, <1>4, <1>5, ReceiveOk
<1>7. net' \in Seq(Message) /\ Entries(net') \subseteq Entries(net)
  BY <1>1, <1>2, AfterFacts
<1>8. ASSUME NEW a \in Acks(rcv', ackNet) PROVE a \in Acks(rcv, ackNet) \/ a = m.tx
  <2>1. rcv.ackQueue \in Seq(TxSequence)
    BY <1>1, ReceiverFacts
  <2>2. Entries(rcv'.ackQueue) \subseteq Entries(rcv.ackQueue) \cup {m.tx}
    <3>1. m.tx \in TxSequence
      BY <1>5 DEF Message
    <3> QED BY ZenonT(60), SMTT(60), <1>6, <2>1, <3>1, EntriesOfAppend
  <2> QED BY <1>8, <2>2 DEF Acks
<1>9. SenderInv(snd, Entries(net), Acks(rcv, ackNet), rcv.got)
  BY DEF LpInv
<1>10. snd.count < SeqSpace =>
         (\A n \in Entries(net) : MessageOk(snd, n)) /\ (\A a \in Acks(rcv, ackNet) : AckOk(snd, a, rcv.got))
  BY ZenonT(60), SMTT(60), <1>9 DEF SenderInv, Tracked
<1>11. snd.count < SeqSpace => \A n \in Entries(net') : MessageOk(snd, n)
  BY <1>7, <1>10
<1>12. snd.count < SeqSpace => \A a \in Acks(rcv', ackNet) : AckOk(snd, a, rcv'.got)
  <2>1. ASSUME snd.count < SeqSpace, NEW a \in Acks(rcv', ackNet) PROVE AckOk(snd, a, rcv'.got)
    <3>1. CASE a = m.tx
      BY <1>5, <1>6, <1>10, <2>1, <3>1 DEF AckOk, MessageOk
    <3>2. CASE a \in Acks(rcv, ackNet)
      BY <1>6, <1>10, <2>1, <3>2 DEF AckOk
    <3> QED BY <1>8, <2>1, <3>1, <3>2
  <2> QED BY <2>1
<1>13. SenderInv(snd, Entries(net'), Acks(rcv', ackNet), rcv'.got)
  <2>1. rcv.got \subseteq rcv'.got
    BY <1>6
  <2> QED BY <1>9, <1>11, <1>12, <2>1, TravelInv
<1> QED BY ZenonT(60), SMTT(60), <1>1, <1>2, <1>6, <1>7, <1>13 DEF LpInv

(* A function on 1 .. n is a sequence.                                        *)
LEMMA FunctionIsSeq ==
  ASSUME NEW T, NEW n \in Nat, NEW a \in [1 .. n -> T]
  PROVE  a \in Seq(T) /\ Len(a) = n
  OBVIOUS

(* The packets that piggyback fills with the queued Acks.                     *)
IdlePackets(q, k) ==
  [i \in 1 .. (Len(q) + k - 1) \div k |->
     SubSeq(q, (i - 1) * k + 1, IF i * k < Len(q) THEN i * k ELSE Len(q))]

(* They carry nothing but queued Acks.                                        *)
LEMMA IdlePacketsHoldAcks ==
  ASSUME NEW q \in Seq(TxSequence), NEW k \in Nat \ {0}, NEW a, a = IdlePackets(q, k)
  PROVE  /\ a \in Seq(Seq(TxSequence))
         /\ \A i \in 1 .. Len(a) : Entries(a[i]) \subseteq Entries(q)
<1>1. PICK n : n = (Len(q) + k - 1) \div k
  OBVIOUS
<1>2. n \in Nat
  <2>1. PICK x : x = Len(q) + k - 1
    OBVIOUS
  <2>2. x \in Nat /\ n = x \div k
    BY <1>1, <2>1
  <2> QED BY <2>2
<1>3. ASSUME NEW i \in 1 .. n
      PROVE  a[i] \in Seq(TxSequence) /\ Entries(a[i]) \subseteq Entries(q)
  <2>1. PICK x : x = (i - 1) * k + 1
    OBVIOUS
  <2>2. PICK y : y = IF i * k < Len(q) THEN i * k ELSE Len(q)
    OBVIOUS
  <2>3. x \in Nat /\ x >= 1
    <3>1. i - 1 \in Nat
      BY <1>2
    <3>2. (i - 1) * k \in Nat
      BY <3>1
    <3> QED BY <2>1, <3>2
  <2>4. y \in Int /\ y <= Len(q)
    <3>1. i * k \in Int /\ Len(q) \in Int
      BY <1>2
    <3> QED BY <2>2, <3>1
  <2>5. a[i] = SubSeq(q, x, y)
    BY ZenonT(60), SMTT(60), <1>1, <1>3, <2>1, <2>2 DEF IdlePackets
  <2> QED BY ZenonT(60), SMTT(60), <2>3, <2>4, <2>5, PartOfSeq
<1>4. a \in [1 .. n -> Seq(TxSequence)]
  <2>1. a = [i \in 1 .. n |-> a[i]]
    BY ZenonT(60), SMTT(60), <1>1 DEF IdlePackets
  <2> QED BY <1>3, <2>1
<1>5. a \in Seq(Seq(TxSequence)) /\ Len(a) = n
  BY <1>2, <1>4, FunctionIsSeq
<1> QED BY <1>3, <1>5

(* The idle timer moves Acks from the queue to the link.                      *)
LEMMA IdleTimerInv ==
  ASSUME LpInv, IdleTimerExpires
  PROVE  LpInv'
<1>1. /\ net \in Seq(Message) /\ ackNet \in Seq(Seq(TxSequence)) /\ ReceiverOk(rcv)
      /\ rcv \in Receiver /\ rcv.ackQueue \in Seq(TxSequence) /\ MaxAcks \in Nat \ {0}
  BY ReceiverFacts, LpAssumption DEF LpInv, ReceiverOk
<1>2. PICK q : q = rcv.ackQueue
  OBVIOUS
<1>3. PICK a : a = IdlePackets(q, MaxAcks)
  OBVIOUS
<1>4. /\ ackNet' = ackNet \o a /\ net' = net /\ snd' = snd
      /\ rcv' = [rcv EXCEPT !.ackQueue = <<>>, !.idleTimer = FALSE]
  BY ZenonT(60), <1>2, <1>3 DEF IdleTimerExpires, IdlePackets
<1>5. /\ a \in Seq(Seq(TxSequence))
      /\ \A i \in 1 .. Len(a) : Entries(a[i]) \subseteq Entries(q)
  BY <1>1, <1>2, <1>3, IdlePacketsHoldAcks
<1>6. ackNet' \in Seq(Seq(TxSequence))
  BY <1>1, <1>4, <1>5
<1>7. <<>> \in Seq(TxSequence) /\ Len(<<>>) = 0
  OBVIOUS
<1>8. /\ rcv' \in Receiver /\ rcv'.ackQueue = <<>> /\ rcv'.recent = rcv.recent
      /\ rcv'.partial = rcv.partial /\ rcv'.delivered = rcv.delivered /\ rcv'.got = rcv.got
      /\ rcv'.expired = rcv.expired /\ rcv'.forgot = rcv.forgot
  BY ZenonT(60), SMTT(60), <1>1, <1>4, <1>7 DEF Receiver
<1>9. ReceiverOk(rcv')
  BY <1>1, <1>8 DEF ReceiverOk, Reassembling
<1>10. Acks(rcv', ackNet') \subseteq Acks(rcv, ackNet)
  <2>1. Entries(rcv'.ackQueue) = {}
    BY <1>7, <1>8 DEF Entries
  <2>2. ASSUME NEW i \in 1 .. Len(ackNet'), NEW x \in Entries(ackNet'[i])
        PROVE  x \in Acks(rcv, ackNet)
    <3>1. CASE i <= Len(ackNet)
      <4>1. i \in 1 .. Len(ackNet) /\ ackNet'[i] = ackNet[i]
        BY <1>1, <1>4, <1>5, <3>1
      <4> QED BY <2>2, <4>1 DEF Acks
    <3>2. CASE ~(i <= Len(ackNet))
      <4>1. i - Len(ackNet) \in 1 .. Len(a) /\ ackNet'[i] = a[i - Len(ackNet)]
        BY <1>1, <1>4, <1>5, <3>2
      <4>2. x \in Entries(q)
        BY <1>5, <2>2, <4>1
      <4> QED BY <1>2, <4>2 DEF Acks
    <3> QED BY <3>1, <3>2
  <2> QED BY <2>1, <2>2 DEF Acks
<1>11. SenderInv(snd, Entries(net), Acks(rcv', ackNet'), rcv.got)
  BY <1>10, FewerInv DEF LpInv
<1> QED BY <1>1, <1>4, <1>6, <1>8, <1>9, <1>11 DEF LpInv

(* A partial packet times out.                                                *)
LEMMA TimeoutPartialInv ==
  ASSUME LpInv, NEW p \in Packet, timeoutPartialPacket(p)
  PROVE  LpInv'
<1>1. /\ ReceiverOk(rcv) /\ rcv \in Receiver /\ rcv.partial \in [Packet -> SUBSET Frag]
      /\ rcv.expired \in SUBSET Packet
  BY ZenonT(60), SMTT(60), ReceiverFacts DEF LpInv, ReceiverOk
<1>2. PICK P : P = [rcv.partial EXCEPT ![p] = {}]
  BY ZenonT(60), SMTT(60)
<1>3. PICK E : E = rcv.expired \cup {p}
  BY ZenonT(60), SMTT(60)
<1>4. P \in [Packet -> SUBSET Frag] /\ E \in SUBSET Packet
  BY <1>1, <1>2, <1>3
<1>5. rcv' = [rcv EXCEPT !.partial = P, !.expired = E] /\ snd' = snd /\ net' = net /\ ackNet' = ackNet
  BY <1>1, <1>2, <1>3 DEF timeoutPartialPacket, Receiver
<1>6. /\ rcv' \in Receiver /\ rcv'.ackQueue = rcv.ackQueue /\ rcv'.recent = rcv.recent
      /\ rcv'.partial = P /\ rcv'.delivered = rcv.delivered /\ rcv'.got = rcv.got
      /\ rcv'.expired = E /\ rcv'.forgot = rcv.forgot
  BY ZenonT(60), SMTT(60), <1>1, <1>4, <1>5 DEF Receiver
<1>7. ASSUME NEW o \in Packet PROVE Reassembling(rcv', o)
  <2>1. Reassembling(rcv, o)
    BY <1>1 DEF ReceiverOk
  <2>2. CASE o = p
    <3>1. rcv'.partial[o] = {} /\ o \in rcv'.expired
      BY <1>1, <1>2, <1>3, <1>6, <2>2
    <3>2. Fragments(o) # {}
      <4>1. <<o, 0>> \in Fragments(o)
        BY LpAssumption DEF Fragments
      <4> QED BY <4>1
    <3> QED BY <1>6, <2>1, <3>1, <3>2 DEF Reassembling
  <2>3. CASE o # p
    <3>1. rcv'.partial[o] = rcv.partial[o] /\ (o \in rcv'.expired <=> o \in rcv.expired)
      BY <1>1, <1>2, <1>3, <1>6, <2>3
    <3> QED BY <1>6, <2>1, <3>1 DEF Reassembling
  <2> QED BY <2>2, <2>3
<1>8. ReceiverOk(rcv')
  BY <1>1, <1>6, <1>7 DEF ReceiverOk
<1>9. Acks(rcv', ackNet') = Acks(rcv, ackNet)
  BY <1>5, <1>6 DEF Acks
<1> QED BY <1>5, <1>6, <1>8, <1>9 DEF LpInv

(* Every step keeps the invariant.                                            *)
LEMMA LpInvNext == LpInv /\ [LpNext]_lpVars => LpInv'
<1> SUFFICES ASSUME LpInv, [LpNext]_lpVars PROVE LpInv'
  OBVIOUS
<1>1. CASE UNCHANGED lpVars
  BY <1>1 DEF lpVars, LpInv
<1>2. ASSUME NEW p \in Packet, sendNetPacket(p) PROVE LpInv'
  BY <1>2, SendNetPacketInv
<1>3. ASSUME NEW p \in Packet, timeoutPartialPacket(p) PROVE LpInv'
  BY <1>3, TimeoutPartialInv
<1>4. CASE SomeRtoExpires
  BY <1>4, RtoExpiresInv DEF SomeRtoExpires
<1>5. CASE ReceiveAcks
  BY <1>5, ReceiveAcksInv
<1>6. CASE doReceivePacket
  BY <1>6, DoReceivePacketInv
<1>7. CASE IdleTimerExpires
  BY <1>7, IdleTimerInv
<1> QED BY <1>1, <1>2, <1>3, <1>4, <1>5, <1>6, <1>7 DEF LpNext

-----------------------------------------------------------------------------
(* The results.                                                               *)

(* The invariant holds always.                                                *)
LEMMA LpInvAlways == LpSpec => []LpInv
  BY LpInvInit, LpInvNext, PTL DEF LpSpec

(* m_firstUnackedFrag is always the fragment whose transmission is the        *)
(* longest ago, whatever was acknowledged, retransmitted or dropped in        *)
(* between, and also after the numbers have wrapped around.                   *)
THEOREM WindowStart == LpSpec => []WindowStartsAtOldest
<1>1. LpInv => WindowStartsAtOldest
  BY ZenonT(60), SMTT(60) DEF LpInv, SenderInv, SenderOk, Windowed, Oldest, WindowStartsAtOldest
<1> QED BY <1>1, LpInvAlways, PTL

(* The fragment lists of the network packets and m_unackedFrags always agree, *)
(* and no fragment is in flight twice.                                        *)
THEOREM MapAgreement == LpSpec => []PacketsAndMapAgree
<1>1. LpInv => PacketsAndMapAgree
  BY ZenonT(60), SMTT(60) DEF LpInv, SenderInv, SenderOk, Listed, Once, PacketsAndMapAgree
<1> QED BY <1>1, LpInvAlways, PTL

(* No assertion of lp-reliability.cpp ever fails: the loop over the lost      *)
(* fragments never meets one that was dropped with its packet.  All that can  *)
(* end the program is assignTxSequence, when the window has gone all the way  *)
(* round, which takes SeqSpace transmissions.                                 *)
THEOREM AssertionsHold ==
  LpSpec => [](NoAssertionFails \/ (Overrun(snd) /\ snd.count >= SeqSpace))
<1>1. LpInv => NoAssertionFails \/ (Overrun(snd) /\ snd.count >= SeqSpace)
  BY OverrunLate DEF LpInv, SenderInv, SenderOk, NoAssertionFails
<1> QED BY <1>1, LpInvAlways, PTL

(* Before SeqSpace transmissions, a packet that the sender counts as          *)
(* acknowledged or retransmitted has reached the other node completely, and   *)
(* was passed up there unless its reassembly timed out.                       *)
THEOREM CountedDelivered == LpSpec => [](snd.count < SeqSpace => CountedMeansDelivered)
<1>1. LpInv => (snd.count < SeqSpace => CountedMeansDelivered)
  <2> SUFFICES ASSUME LpInv, snd.count < SeqSpace, NEW p \in Packet,
                      snd.outcome[p] \in {"acknowledged", "retransmitted"}
               PROVE  Fragments(p) \subseteq rcv.got /\ (rcv.delivered[p] > 0 \/ p \in rcv.expired)
    BY DEF CountedMeansDelivered
  <2>1. Covered(snd, rcv.got) /\ Listed(snd) /\ Reassembling(rcv, p) /\ rcv \in Receiver
    BY DEF LpInv, SenderInv, SenderOk, ReceiverOk
  <2>2. \A t \in DOMAIN snd.unacked : snd.unacked[t].frag[1] # p
    <3>1. /\ snd.netPkt[p] = {t \in DOMAIN snd.unacked : snd.unacked[t].frag[1] = p}
          /\ snd.outcome[p] = "pending" <=> snd.netPkt[p] # {}
      BY <2>1 DEF Listed
    <3> QED BY <3>1
  <2>3. ASSUME NEW f \in Fragments(p) PROVE f \in rcv.got
    <3>1. f \in Frag /\ f[1] = p
      BY <2>3 DEF Frag, Fragments
    <3>2. Kept(snd, f, rcv.got)
      BY <2>1, <3>1 DEF Covered, Live
    <3> QED BY <2>2, <3>1, <3>2 DEF Kept
  <2>4. rcv.delivered[p] \in Nat
    BY <2>1, ReceiverFacts
  <2>5. CASE rcv.delivered[p] = 0 /\ p \notin rcv.expired
    BY ZenonT(60), SMTT(60), <2>1, <2>3, <2>5 DEF Reassembling
  <2> QED BY <2>3, <2>4, <2>5
<1> QED BY <1>1, LpInvAlways, PTL

(* A packet whose Sequences the receiver remembers is passed up at most once, *)
(* however often its fragments are retransmitted.                             *)
THEOREM AtMostOnce == LpSpec => []DeliveredOnce
<1>1. LpInv => DeliveredOnce
  <2> SUFFICES ASSUME LpInv, NEW p \in Packet, p \notin rcv.forgot PROVE ~(rcv.delivered[p] > 1)
    BY DEF DeliveredOnce
  <2>1. rcv.delivered[p] = 0 \/ rcv.delivered[p] = 1
    BY DEF LpInv, ReceiverOk, Reassembling
  <2> QED BY <2>1
<1> QED BY <1>1, LpInvAlways, PTL
=============================================================================
