--------------------------- MODULE LpReliability ---------------------------
(* Link-layer reliability of an NFD face (lp-reliability.cpp) between two     *)
(* nodes: one sends network packets as fragments, the other acknowledges the  *)
(* fragments in IDLE packets and reassembles them (lp-reassembler.cpp), both  *)
(* driven by GenericLinkService.  Each direction of the link keeps the order  *)
(* of packets, and may delay and lose any of them: receiving one loses those  *)
(* before it, and nothing makes the link deliver the last.  Fragments carry   *)
(* no content; RTT estimates are left out, so that a timer may run out at any *)
(* moment.                                                                    *)
EXTENDS Integers, Sequences, FiniteSets

CONSTANTS
  Packet,      \* network packets, each handed to the link service once
  NFrags,      \* NFrags[p]: the number of fragments of packet p
  SeqSpace,    \* TxSequence numbers are 0 .. SeqSpace - 1 and wrap around
  StartSeq,    \* m_lastTxSeqNo at the start, after earlier, settled traffic
  maxRetx, seqNumLossThreshold,  \* LpReliability::Options
  MaxAcks,     \* how many Acks fit into one packet
  MaxExpiries  \* how many packets the receiver's own timeouts may affect

ASSUME LpAssumption ==
  /\ NFrags \in [Packet -> Nat \ {0}]
  /\ SeqSpace \in Nat \ {0} /\ StartSeq \in 0 .. SeqSpace - 1
  /\ maxRetx \in Nat /\ seqNumLossThreshold \in Nat \ {0} /\ MaxAcks \in Nat \ {0}
  /\ MaxExpiries \in Nat

VARIABLES
  snd,      \* the sender's LpReliability, see LpInit
  net,      \* fragments on their way, in order: [tx, frag]
  ackNet,   \* IDLE packets on their way, in order: sequences of TxSequences
  rcv       \* the receiver's LpReliability and LpReassembler, see LpInit

lpVars == <<snd, net, ackNet, rcv>>

TxSequence == 0 .. SeqSpace - 1

(* m_firstUnackedFrag is m_unackedFrags.end().                                *)
NoSeq == -1

(* Every fragment of packet p; the second part is the FragIndex.              *)
Fragments(p) == {p} \X (0 .. NFrags[p] - 1)

(* The TxSequence d after t, and how far t is after s, with wraparound.       *)
Plus(t, d) == IF t + d < SeqSpace THEN t + d ELSE t + d - SeqSpace
Dist(s, t) == IF s <= t THEN t - s ELSE t - s + SeqSpace

(* The packets of a link behind the i-th, and the first k entries of a queue. *)
After(link, i) == SubSeq(link, i + 1, Len(link))
FirstOf(q, k) == {q[j] : j \in 1 .. k}

(* snd.unacked maps a TxSequence to its UnackedFrag: the fragment, retxCount, *)
(* nGreaterSeqAcks and, for the properties, how many transmissions came       *)
(* before it.  snd.netPkt[p] is NetPkt::unackedFrags of packet p.  snd.failed *)
(* records a failed assertion or length_error, which ends the program.        *)
(* snd.out and snd.removed are work lists within a handler: what it has sent, *)
(* and removedLpPackets.  rcv.got and rcv.expired record, for the properties, *)
(* the fragments that arrived, and the packets of which a partial reassembly  *)
(* was dropped; rcv.forgot those whose Sequences were removed from            *)
(* m_recentRecvSeqs.                                                          *)
LpInit ==
  /\ snd = [lastTx |-> StartSeq, unacked |-> <<>>, first |-> NoSeq,
            netPkt |-> [p \in Packet |-> {}], didRetx |-> [p \in Packet |-> FALSE],
            outcome |-> [p \in Packet |-> "unsent"], count |-> 0, failed |-> FALSE,
            out |-> <<>>, removed |-> {}]
  /\ net = <<>> /\ ackNet = <<>>
  /\ rcv = [ackQueue |-> <<>>, idleTimer |-> FALSE,
            recent |-> {}, recentQueue |-> <<>>,
            partial |-> [p \in Packet |-> {}], delivered |-> [p \in Packet |-> 0],
            got |-> {}, expired |-> {}, forgot |-> {}]

-----------------------------------------------------------------------------
(* The sender.  These operators return the state of LpReliability after the   *)
(* function of the same name.                                                 *)

(* assignTxSequence, which throws when the window has gone all the way round, *)
(* and the new map entry for fragment f; the first entry starts the window.   *)
Transmit(s, f, retx) ==
  LET tx == Plus(s.lastTx, 1)
      known == DOMAIN s.unacked
  IN  IF s.failed \/ (known # {} /\ tx = s.first)
      THEN [s EXCEPT !.failed = TRUE]
      ELSE [s EXCEPT !.lastTx = tx, !.count = @ + 1,
                     !.unacked = [t \in known \cup {tx} |->
                        IF t = tx THEN [frag |-> f, retx |-> retx, greater |-> 0,
                                        nth |-> s.count + 1]
                        ELSE s.unacked[t]],
                     !.first = IF known = {} THEN tx ELSE @,
                     !.netPkt[f[1]] = @ \cup {tx},
                     !.outcome[f[1]] = "pending",
                     !.out = Append(@, [tx |-> tx, frag |-> f])]

(* handleOutgoing, one fragment after the other.                              *)
handleOutgoing(s, p) ==
  LET sent[i \in 0 .. NFrags[p]] ==
        IF i = 0 THEN s ELSE Transmit(sent[i - 1], <<p, i - 1>>, 0)
  IN  sent[NFrags[p]]

(* The entry of m_unackedFrags, taken as a ring, that is next from t on.      *)
NextFrag(t, rest) == CHOOSE u \in rest : \A v \in rest : Dist(t, u) <= Dist(t, v)

(* Mutated form, used only to show that a property can fail.                  *)
KeepWindowStart(s, gone) ==
  LET rest == DOMAIN s.unacked \ gone
  IN  [s EXCEPT !.unacked = [u \in rest |-> s.unacked[u]],
                !.first = IF rest = {} THEN NoSeq
                          ELSE IF @ \in gone
                               THEN CHOOSE u \in rest : \A v \in rest : u <= v
                               ELSE @]

(* deleteUnackedFrag of each of gone.  The fragments leave the map, which     *)
(* cancels their timers (ScopedEventId), and the start of the window moves on *)
(* over those that are gone.                                                  *)
deleteUnackedFrag(s, gone) ==
  LET rest == DOMAIN s.unacked \ gone
  IN  [s EXCEPT !.unacked = [u \in rest |-> s.unacked[u]],
                !.first = IF rest = {} THEN NoSeq ELSE NextFrag(@, rest)]

(* Mutated form, used only to show that a property can fail.                  *)
DropOnlyThis(s, t) ==
  LET p == s.unacked[t].frag[1]
  IN  [deleteUnackedFrag(s, {t}) EXCEPT
         !.outcome[p] = "dropped", !.netPkt[p] = {}, !.removed = @ \cup {t}]

(* onLpPacketLost when the retransmissions are used up: every fragment of the *)
(* network packet is deleted and the packet counts in nRetxExhausted.         *)
DropPacket(s, t) ==
  LET p == s.unacked[t].frag[1]
      gone == s.netPkt[p] \cup {t}
  IN  [deleteUnackedFrag(s, gone) EXCEPT
         !.outcome[p] = "dropped", !.netPkt[p] = {}, !.removed = @ \cup gone]

(* onLpPacketLost otherwise: the fragment moves to a new TxSequence.  That    *)
(* its network packet lists it is asserted.                                   *)
Retransmit(s, t) ==
  LET e == s.unacked[t]
      moved == Transmit(s, e.frag, e.retx + 1)
  IN  IF moved.failed THEN moved
      ELSE [deleteUnackedFrag(moved, {t}) EXCEPT
              !.didRetx[e.frag[1]] = TRUE, !.netPkt[e.frag[1]] = @ \ {t},
              !.failed = t \notin s.netPkt[e.frag[1]], !.removed = @ \cup {t}]

(* onLpPacketLost asserts that the fragment is still in the map.              *)
onLpPacketLost(s, t) ==
  IF s.failed \/ t \notin DOMAIN s.unacked THEN [s EXCEPT !.failed = TRUE]
  ELSE IF s.unacked[t].retx >= maxRetx THEN DropPacket(s, t)
  ELSE Retransmit(s, t)

(* findLostLpPackets: the fragments from the start of the window up to the    *)
(* acknowledged one.                                                          *)
Overtaken(s, ack) ==
  {t \in DOMAIN s.unacked : Dist(s.first, t) < Dist(s.first, ack)}

(* findLostLpPackets counts the Ack for each of them.                         *)
CountGreaterAck(s, ack) ==
  [s EXCEPT !.unacked = [t \in DOMAIN s.unacked |->
     IF t \in Overtaken(s, ack)
     THEN [s.unacked[t] EXCEPT !.greater = @ + 1] ELSE s.unacked[t]]]

(* Those that reached the threshold.                                          *)
findLostLpPackets(s, ack) ==
  {t \in Overtaken(s, ack) : s.unacked[t].greater + 1 >= seqNumLossThreshold}

(* onLpPacketAcknowledged: with its last fragment the packet counts in        *)
(* nRetransmitted or nAcknowledged.                                           *)
onLpPacketAcknowledged(s, t) ==
  LET p == s.unacked[t].frag[1]
      left == s.netPkt[p] \ {t}
  IN  [deleteUnackedFrag(s, {t}) EXCEPT
         !.netPkt[p] = left,
         !.failed = @ \/ t \notin s.netPkt[p],
         !.outcome[p] = IF left # {} THEN @
                        ELSE IF s.didRetx[p] THEN "retransmitted"
                        ELSE "acknowledged"]

(* Mutated form, used only to show that a property can fail.                  *)
HandleAllLost(s, lost, start) ==
  LET after[d \in 0 .. SeqSpace] ==
        IF d = 0 THEN s
        ELSE LET r == after[d - 1]
                 t == Plus(start, d - 1)
             IN  IF t \in lost THEN onLpPacketLost(r, t) ELSE r
  IN  after[SeqSpace]

(* The loop over lostLpPackets, in the order of the window that starts at     *)
(* start, which leaves out what was removed meanwhile.                        *)
HandleLost(s, lost, start) ==
  LET after[d \in 0 .. SeqSpace] ==
        IF d = 0 THEN [s EXCEPT !.removed = {}]
        ELSE LET r == after[d - 1]
                 t == Plus(start, d - 1)
             IN  IF t \in lost \ r.removed THEN onLpPacketLost(r, t) ELSE r
  IN  after[SeqSpace]

(* processIncomingPacket for one Ack; an unknown TxSequence is ignored.       *)
ProcessAck(s, ack) ==
  IF s.failed \/ ack \notin DOMAIN s.unacked THEN s
  ELSE HandleLost(onLpPacketAcknowledged(CountGreaterAck(s, ack), ack),
                  findLostLpPackets(s, ack), s.first)

(* processIncomingPacket for all Acks of a packet.                            *)
ProcessAcks(s, acks) ==
  LET after[i \in 0 .. Len(acks)] ==
        IF i = 0 THEN s ELSE ProcessAck(after[i - 1], acks[i])
  IN  after[Len(acks)]

(* A handler of the sender ends in state s, having sent s.out.                *)
Settle(s) ==
  /\ snd' = [s EXCEPT !.out = <<>>, !.removed = {}]
  /\ net' = net \o s.out

(* GenericLinkService::sendNetPacket, LpReliability::handleOutgoing           *)
sendNetPacket(p) ==
  /\ snd.outcome[p] = "unsent"
  /\ Settle(handleOutgoing(snd, p))
  /\ UNCHANGED <<ackNet, rcv>>

(* Mutated form, used only to show that a property can fail.                  *)
TimerOnlyOnFirstSend(t) ==
  t \in DOMAIN snd.unacked /\ snd.unacked[t].retx = 0

(* Every fragment in the map was given its timer when it was put there.       *)
TimerRunning(t) == t \in DOMAIN snd.unacked

(* The RTO timer of an unacknowledged fragment runs out.                      *)
RtoExpires(t) ==
  /\ TimerRunning(t)
  /\ Settle(onLpPacketLost(snd, t))
  /\ UNCHANGED <<ackNet, rcv>>

SomeRtoExpires == \E t \in TxSequence : RtoExpires(t)

(* An IDLE packet with Acks arrives.                                          *)
ReceiveAcks ==
  \E i \in DOMAIN ackNet :
    /\ Settle(ProcessAcks(snd, ackNet[i]))
    /\ ackNet' = After(ackNet, i)
    /\ UNCHANGED rcv

-----------------------------------------------------------------------------
(* The receiver.                                                              *)

(* Mutated form, used only to show that a property can fail.                  *)
StartOver(r, f) ==
  LET p == f[1]
  IN  IF Fragments(p) = {f}
      THEN [r EXCEPT !.delivered[p] = @ + 1]
      ELSE [r EXCEPT !.partial[p] = {f}]

(* LpReassembler::receiveFragment: a fragment already there is ignored, the   *)
(* last one completes the packet; single fragments take the fast path.        *)
receiveFragment(r, f) ==
  LET p == f[1]
      have == r.partial[p] \cup {f}
  IN  IF have = Fragments(p)
      THEN [r EXCEPT !.partial[p] = {}, !.delivered[p] = @ + 1]
      ELSE [r EXCEPT !.partial[p] = have]

(* The bound on the receiver's timeouts is not reached.                       *)
MayExpire(r) == Cardinality(r.forgot) + Cardinality(r.expired) < MaxExpiries

(* Entries of m_recentRecvSeqs older than the RTO are removed from the front; *)
(* one that is no longer in the map has the epoch as its time and goes too.   *)
Forgettable(r) ==
  {k \in 0 .. Len(r.recentQueue) :
     /\ k < Len(r.recentQueue) =>
          r.recentQueue[k + 1] \in r.recent \ FirstOf(r.recentQueue, k)
     /\ k > 0 => MayExpire(r)}

(* processIncomingPacket for the fragment of message m, with k old entries    *)
(* removed: its Ack is queued and the idle timer runs.                        *)
QueueAck(r, m, k) ==
  LET gone == FirstOf(r.recentQueue, k)
  IN  [r EXCEPT !.ackQueue = Append(@, m.tx),
                !.idleTimer = TRUE,
                !.recent = (@ \ gone) \cup {m.frag},
                !.recentQueue = Append(SubSeq(@, k + 1, Len(@)), m.frag),
                !.forgot = @ \cup {f[1] : f \in gone},
                !.got = @ \cup {m.frag}]

(* Mutated form, used only to show that a property can fail.                  *)
PassDuplicatesUp ==
  \E i \in DOMAIN net :
    /\ \E k \in Forgettable(rcv) :
         rcv' = receiveFragment(QueueAck(rcv, net[i], k), net[i].frag)
    /\ net' = After(net, i)
    /\ UNCHANGED <<snd, ackNet>>

(* GenericLinkService::doReceivePacket: a duplicate is not passed on.         *)
doReceivePacket ==
  \E i \in DOMAIN net :
    /\ \E k \in Forgettable(rcv) :
         LET f == net[i].frag
             r == QueueAck(rcv, net[i], k)
         IN  rcv' = IF f \in rcv.recent THEN r ELSE receiveFragment(r, f)
    /\ net' = After(net, i)
    /\ UNCHANGED <<snd, ackNet>>

(* The idle timer runs out: IDLE packets are sent until the queue is empty,   *)
(* each filled by piggyback.                                                  *)
IdleTimerExpires ==
  /\ rcv.idleTimer
  /\ LET q == rcv.ackQueue
         Ack(i) == SubSeq(q, (i - 1) * MaxAcks + 1,
                          IF i * MaxAcks < Len(q) THEN i * MaxAcks ELSE Len(q))
     IN  ackNet' = ackNet \o [i \in 1 .. (Len(q) + MaxAcks - 1) \div MaxAcks |-> Ack(i)]
  /\ rcv' = [rcv EXCEPT !.ackQueue = <<>>, !.idleTimer = FALSE]
  /\ UNCHANGED <<snd, net>>

(* LpReassembler::timeoutPartialPacket                                        *)
timeoutPartialPacket(p) ==
  /\ rcv.partial[p] # {} /\ MayExpire(rcv)
  /\ rcv' = [rcv EXCEPT !.partial[p] = {}, !.expired = @ \cup {p}]
  /\ UNCHANGED <<snd, net, ackNet>>

-----------------------------------------------------------------------------
LpNext ==
  /\ ~snd.failed
  /\ \/ \E p \in Packet : sendNetPacket(p) \/ timeoutPartialPacket(p)
     \/ SomeRtoExpires
     \/ ReceiveAcks \/ doReceivePacket \/ IdleTimerExpires

LpSpec == LpInit /\ [][LpNext]_lpVars

(* While timers are running the scheduler runs one out; the link promises     *)
(* nothing.  This is weak fairness of SomeRtoExpires, with what enables it    *)
(* written out.                                                               *)
LpFairSpec ==
  /\ LpSpec
  /\ []<>(\A t \in TxSequence : ~TimerRunning(t)) \/ []<><<SomeRtoExpires>>_lpVars

-----------------------------------------------------------------------------
(* No assertion of lp-reliability.cpp fails: a fragment reported lost is      *)
(* still in the map although handling an earlier one may have dropped its     *)
(* whole packet, an acknowledged fragment is in the list of its network       *)
(* packet, and the window does not run into its own start.                    *)
NoAssertionFails == ~snd.failed

(* m_firstUnackedFrag is the fragment whose transmission is the longest ago,  *)
(* also after the numbers have wrapped around, after retransmissions and      *)
(* after packets dropped from the middle of the window; it is end() exactly   *)
(* when nothing is unacknowledged.                                            *)
WindowStartsAtOldest ==
  IF DOMAIN snd.unacked = {} THEN snd.first = NoSeq
  ELSE /\ snd.first \in DOMAIN snd.unacked
       /\ \A t \in DOMAIN snd.unacked :
            snd.unacked[snd.first].nth <= snd.unacked[t].nth

(* The fragment lists of the network packets and the map agree: no list holds *)
(* an iterator to an erased entry, each pending packet has each fragment in   *)
(* flight at most once, and a settled packet has left nothing behind.         *)
PacketsAndMapAgree ==
  /\ \A p \in Packet :
       snd.netPkt[p] = {t \in DOMAIN snd.unacked : snd.unacked[t].frag[1] = p}
  /\ \A p \in Packet : snd.outcome[p] = "pending" <=> snd.netPkt[p] # {}
  /\ \A t, u \in DOMAIN snd.unacked :
       snd.unacked[t].frag = snd.unacked[u].frag => t = u

(* A packet counted in nAcknowledged or nRetransmitted has reached the other  *)
(* node completely, and was passed up there unless the reassembly of its      *)
(* first fragments timed out before the others were retransmitted.            *)
CountedMeansDelivered ==
  \A p \in Packet : snd.outcome[p] \in {"acknowledged", "retransmitted"} =>
    /\ Fragments(p) \subseteq rcv.got
    /\ rcv.delivered[p] > 0 \/ p \in rcv.expired

(* Retransmissions caused by lost Acks do not deliver a packet twice, as long *)
(* as its Sequences are remembered.                                           *)
DeliveredOnce == \A p \in Packet : rcv.delivered[p] > 1 => p \in rcv.forgot

(* Every packet handed to the link service is eventually counted as           *)
(* acknowledged or dropped, whatever the link loses.                          *)
PacketsSettle ==
  \A p \in Packet : snd.outcome[p] = "pending" ~> snd.outcome[p] # "pending"
=============================================================================
