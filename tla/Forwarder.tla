------------------------------ MODULE Forwarder ------------------------------
(***************************************************************************)
(* The forwarding pipelines of NFD (daemon/fw/forwarder.cpp) with the PIT, *)
(* for an arbitrary forwarding strategy.                                   *)
(*                                                                         *)
(* Time is relative: a record holds the ticks left until it expires and a  *)
(* timer the ticks left until it fires.  Tick lets one unit of simulated   *)
(* time pass and is disabled while a timer is due, as in the ns-3 event    *)
(* queue; events of the same instant interleave in any order.              *)
(*                                                                         *)
(* The strategy is a nondeterministic choice of the calls sendInterest,    *)
(* sendNack and rejectPendingInterest.  BestRoute and QLearning replace it *)
(* by what those classes do and are shown to implement this module.        *)
(* The Dead Nonce List is the abstract one of NonceSet (it may forget any  *)
(* pair), the Content Store a set of Data packets that ages and evicts     *)
(* freely.  Counters, logging and packet tags other than NextHopFaceId     *)
(* are left out.  beforeSatisfyInterest may prolong the expiry timer, but  *)
(* onIncomingData sets the timer to now after the call, so the trigger has *)
(* no effect on the forwarder's state.                                     *)
(***************************************************************************)
EXTENDS Integers, FiniteSets

CONSTANTS
    Face,
    P2P, AdHoc,       \* faces by link type; the others are multi-access
    Local,            \* faces with scope FACE_SCOPE_LOCAL
    Name,
    Extends,          \* Extends[n]: the names that n is a prefix of, n included
    Localhost,        \* names under /localhost
    Nonce,
    ProbeNonce,       \* nonces a strategy may put into its own Interests
    Interest,         \* Interests a peer may send
    Data,             \* Data packets a peer may send
    Millisecond,      \* ticks in a millisecond
    MaxLifetime,      \* longest InterestLifetime, in ticks
    AgeBound,         \* ages of out-records are counted up to this
    Reason,           \* Nack reasons that peers and strategies use
    DnlLifetime,      \* DeadNonceList::getLifetime()
    None

\* lp::NackReason; 0 stands for no Nack.
CONGESTION == 50
DUPLICATE == 100
NO_ROUTE == 150

\* What tells PIT entries apart: Name, CanBePrefix and MustBeFresh.
KeyOf(i) == [name |-> i.name, canBePrefix |-> i.canBePrefix,
             mustBeFresh |-> i.mustBeFresh]
Key == {KeyOf(i) : i \in Interest}

\* hopLimit is the value on arrival: 0, 1, or 2 for any larger or no HopLimit.
ASSUME InterestAssumption ==
    /\ MaxLifetime \in Nat /\ AgeBound \in Nat /\ DnlLifetime \in Nat
    /\ P2P \subseteq Face /\ AdHoc \subseteq Face /\ Local \subseteq Face
    /\ P2P \cap AdHoc = {}
    /\ ProbeNonce \subseteq Nonce
    /\ Reason \subseteq {CONGESTION, DUPLICATE, NO_ROUTE}
    /\ None \notin Face
    /\ Interest \subseteq
         [name : Name, canBePrefix : BOOLEAN, mustBeFresh : BOOLEAN, nonce : Nonce,
          hopLimit : 0 .. 2, lifetime : 0 .. MaxLifetime, nextHop : Face \cup {None}]
    /\ Data \subseteq [name : Name, freshness : Nat]

\* Lifetimes and expiry timers are counted in whole milliseconds.
ASSUME MillisecondAssumption ==
    /\ Millisecond \in Nat \ {0}
    /\ \A i \in Interest : i.lifetime % Millisecond = 0

InRecord == [nonce : Nonce, ttl : 0 .. MaxLifetime]
OutRecord == [nonce : Nonce, ttl : -1 .. MaxLifetime, age : 0 .. AgeBound,
              nack : {0} \cup Reason]

\* None is neither a record nor a time.
ASSUME NoneAssumption ==
    None \notin InRecord /\ None \notin OutRecord /\ None \notin Nat

Entry == [live : BOOLEAN, in : [Face -> InRecord \cup {None}],
          out : [Face -> OutRecord \cup {None}],
          timer : 0 .. MaxLifetime \cup {None}, isSatisfied : BOOLEAN,
          dataFreshnessPeriod : Nat]

VARIABLES
    pit,     \* the PIT; an entry with live = FALSE is not in it
    up,      \* faces in the FaceTable
    dead,    \* (Name, Nonce) pairs in the Dead Nonce List
    cs,      \* Content Store: "absent", "stale" or "fresh" for each Data
    sent     \* packets handed to faces by the last step

vars == <<pit, up, dead, cs, sent>>

-----------------------------------------------------------------------------
\* PIT entries

Absent == [live |-> FALSE, in |-> [f \in Face |-> None], out |-> [f \in Face |-> None],
           timer |-> None, isSatisfied |-> FALSE, dataFreshnessPeriod |-> 0]

\* Pit::insert: a new entry has no records, no flags and no timer.
insert(e) == [e EXCEPT !.live = TRUE]

Downstreams(e) == {f \in Face : e.in[f] # None}
Upstreams(e) == {f \in Face : e.out[f] # None}

\* Downstreams whose Interest has not expired.
Pending(e) == {f \in Downstreams(e) : e.in[f].ttl > 0}

deleteInRecords(e, S) ==
    [e EXCEPT !.in = [f \in Face |-> IF f \in S THEN None ELSE e.in[f]]]
deleteOutRecord(e, f) == [e EXCEPT !.out = [e.out EXCEPT ![f] = None]]
insertOrUpdateInRecord(e, f, i) ==
    [e EXCEPT !.in = [e.in EXCEPT ![f] = [nonce |-> i.nonce, ttl |-> i.lifetime]]]

\* FaceRecord::update leaves the recorded Nack of an existing out-record alone.
insertOrUpdateOutRecords(e, S, nonce, lifetime) ==
    [e EXCEPT !.out = [u \in Face |->
        IF u \notin S THEN e.out[u]
        ELSE [nonce |-> nonce[u], ttl |-> lifetime, age |-> 0,
              nack |-> IF e.out[u] = None THEN 0 ELSE e.out[u].nack]]]

\* fw::hasPendingOutRecords
hasPendingOutRecords(e) ==
    \E u \in Upstreams(e) : e.out[u].ttl >= 0 /\ e.out[u].nack = 0

\* Mutated form, used only to show that a property can fail.
LoopOnlyFromUpstream(e, nonce, f) == \E g \in Upstreams(e) : e.out[g].nonce = nonce

\* fw::findDuplicateNonce as onIncomingInterest uses it: on a point-to-point
\* face the nonce of an Interest from the same face is a retransmission.
HasDuplicateNonce(e, nonce, f) ==
    /\ \/ \E g \in Downstreams(e) : e.in[g].nonce = nonce
       \/ \E g \in Upstreams(e) : e.out[g].nonce = nonce
    /\ ~(f \in P2P /\ f \in Downstreams(e) /\ e.in[f].nonce = nonce)

\* Interest::matchesData: by name, or by prefix if the Interest allows it; Data
\* without a FreshnessPeriod never answers an Interest with MustBeFresh.
matchesData(k, d) ==
    /\ d.name = k.name \/ (k.canBePrefix /\ d.name \in Extends[k.name])
    /\ k.mustBeFresh => d.freshness > 0

\* Mutated form, used only to show that a property can fail.
FirstExpiry(e) ==
    CHOOSE t \in 0 .. MaxLifetime :
        /\ \E f \in Downstreams(e) : e.in[f].ttl = t
        /\ \A f \in Downstreams(e) : t =< e.in[f].ttl

\* Ticks until the last in-record expires.
LastExpiry(e) ==
    CHOOSE t \in 0 .. MaxLifetime :
        /\ \E f \in Downstreams(e) : e.in[f].ttl = t
        /\ \A f \in Downstreams(e) : e.in[f].ttl =< t

\* insertDeadNonceList: the pairs to add for the out-records of faces S.
DeadNonces(k, e, S) ==
    IF e.isSatisfied => k.mustBeFresh /\ e.dataFreshnessPeriod < DnlLifetime
    THEN {<<k.name, e.out[u].nonce>> : u \in S \cap Upstreams(e)}
    ELSE {}

-----------------------------------------------------------------------------
\* Outgoing pipelines.  A packet is put into sent.

OutInterest(k, u, nonce) == [type |-> "Interest", face |-> u, key |-> k, nonce |-> nonce]
OutNack(k, f, nonce, reason) ==
    [type |-> "Nack", face |-> f, key |-> k, nonce |-> nonce, reason |-> reason]

\* onOutgoingInterest drops an Interest whose HopLimit is used up unless the
\* egress face is local.
Sendable(hopLimit, U) == {u \in U \cap up : hopLimit # 1 \/ u \in Local}

\* onOutgoingNack needs an in-record and a point-to-point face.
Nackable(e, N) == N \cap Downstreams(e) \cap up \cap P2P

\* onOutgoingData
outgoingData(d, S) ==
    {[type |-> "Data", face |-> f, data |-> d] :
        f \in {g \in S \cap up : g \in Local \/ d.name \notin Localhost}}

\* Mutated form, used only to show that a property can fail.
NackKeepsInRecord(e, d, hopLimit, lifetime) ==
    LET e1 == insertOrUpdateOutRecords(e, Sendable(hopLimit, d.to), d.nonce, lifetime)
    IN  IF d.reject THEN [e1 EXCEPT !.timer = 0] ELSE e1

\* What the strategy did with entry e: Interests to the faces in d.to, then
\* Nacks to the faces in d.nack, then rejectPendingInterest if d.reject.
Decided(e, d, hopLimit, lifetime) ==
    LET e1 == insertOrUpdateOutRecords(e, Sendable(hopLimit, d.to), d.nonce, lifetime)
        e2 == deleteInRecords(e1, Nackable(e, d.nack))
    IN  IF d.reject THEN [e2 EXCEPT !.timer = 0] ELSE e2
DecidedSent(k, e, d, hopLimit) ==
    {OutInterest(k, u, d.nonce[u]) : u \in Sendable(hopLimit, d.to)}
    \cup {OutNack(k, f, e.in[f].nonce, d.reason) : f \in Nackable(e, d.nack)}

-----------------------------------------------------------------------------
\* Incoming pipelines

Init ==
    /\ pit = [k \in Key |-> Absent]
    /\ up = Face
    /\ dead = {}
    /\ cs = [d \in Data |-> "absent"]
    /\ sent = {}

ViolatesLocalhost(f, n) == f \notin Local /\ n \in Localhost
Accepted(f, i) == f \in up /\ i.hopLimit > 0 /\ ~ViolatesLocalhost(f, i.name)
InDnl(i) == <<i.name, i.nonce>> \in dead
Looped(f, i) == InDnl(i) \/ HasDuplicateNonce(pit[KeyOf(i)], i.nonce, f)

\* Packets that the pipelines drop before they change anything.
DropInterest(f, i) ==
    /\ f \in up /\ ~Accepted(f, i)
    /\ sent' = {} /\ UNCHANGED <<pit, up, dead, cs>>
DropData(f, d) ==
    /\ f \in up /\ ViolatesLocalhost(f, d.name)
    /\ sent' = {} /\ UNCHANGED <<pit, up, dead, cs>>

\* onIncomingInterest up to onInterestLoop.  A nonce found in the PIT entry is
\* found after the entry has been inserted.
onInterestLoop(f, i) ==
    /\ Accepted(f, i) /\ Looped(f, i)
    /\ pit' = IF InDnl(i) THEN pit ELSE [pit EXCEPT ![KeyOf(i)] = insert(@)]
    /\ sent' = IF f \in P2P THEN {OutNack(KeyOf(i), f, i.nonce, DUPLICATE)} ELSE {}
    /\ UNCHANGED <<up, dead, cs>>

\* Cs::find looks only when no downstream is waiting already.
CsMatches(i) ==
    {d \in Data : /\ cs[d] # "absent" /\ matchesData(KeyOf(i), d)
                  /\ i.mustBeFresh => cs[d] = "fresh"}

\* Mutated form, used only to show that a property can fail.
HitWithoutTimer(f, i, d) ==
    [insert(pit[KeyOf(i)]) EXCEPT !.isSatisfied = TRUE,
                                  !.dataFreshnessPeriod = d.freshness]
HitEntry(f, i, d) ==
    deleteInRecords([insert(pit[KeyOf(i)]) EXCEPT
        !.timer = 0, !.isSatisfied = TRUE, !.dataFreshnessPeriod = d.freshness], {f})
onContentStoreHit(f, i, d) ==
    /\ Accepted(f, i) /\ ~Looped(f, i)
    /\ Downstreams(pit[KeyOf(i)]) = {} /\ d \in CsMatches(i)
    /\ pit' = [pit EXCEPT ![KeyOf(i)] = HitEntry(f, i, d)]
    /\ sent' = outgoingData(d, {f})
    /\ UNCHANGED <<up, dead, cs>>

\* The cast of setExpiryTimer's argument drops the part below a millisecond.
duration_cast(t) == t - (t % Millisecond)

\* The entry that the strategy is given, and what a NextHopFaceId tag decides.
MissEntry(f, i) ==
    LET e == insertOrUpdateInRecord(insert(pit[KeyOf(i)]), f, i)
    IN  [e EXCEPT !.timer = duration_cast(LastExpiry(e))]
SendTo(U, nonce) == [to |-> U, nonce |-> [u \in Face |-> nonce], nack |-> {},
                     reason |-> NO_ROUTE, reject |-> FALSE]

\* D is what the strategy may decide in afterReceiveInterest.
onContentStoreMiss(f, i, D) ==
    LET e == MissEntry(f, i)
    IN  /\ Accepted(f, i) /\ ~Looped(f, i)
        /\ Downstreams(pit[KeyOf(i)]) # {} \/ CsMatches(i) = {}
        /\ UNCHANGED <<up, dead, cs>>
        /\ \E d \in IF i.nextHop = None THEN D ELSE {SendTo({i.nextHop}, i.nonce)} :
             /\ sent' = DecidedSent(KeyOf(i), e, d, i.hopLimit)
             /\ pit' = [pit EXCEPT ![KeyOf(i)] = Decided(e, d, i.hopLimit, i.lifetime)]

\* Mutated form, used only to show that a property can fail.
FinalizeSatisfiedOnly(k) ==
    /\ pit[k].timer = 0 /\ pit[k].isSatisfied
    /\ pit' = [pit EXCEPT ![k] = Absent]
    /\ sent' = {}
    /\ UNCHANGED <<up, dead, cs>>

\* The expiry timer of entry k fires.
onInterestFinalize(k) ==
    /\ pit[k].timer = 0
    /\ dead' = dead \cup DeadNonces(k, pit[k], Face)
    /\ pit' = [pit EXCEPT ![k] = Absent]
    /\ sent' = {}
    /\ UNCHANGED <<up, cs>>

\* Pit::findAllDataMatches visits longer names first, and entries of the same
\* name in the order of their insertion, which is any order here.
Matches(d) == {k \in Key : pit[k].live /\ matchesData(k, d)}
MatchOrders(M) ==
    {o \in [M -> 1 .. Cardinality(M)] :
        \A j, k \in M : /\ o[j] = o[k] => j = k
                        /\ j.name # k.name /\ j.name \in Extends[k.name] => o[j] < o[k]}

\* satisfiedDownstreams when entry k is processed: it accumulates.
SatisfiedUpTo(o, k) == UNION {Pending(pit[j]) : j \in {m \in DOMAIN o : o[m] =< o[k]}}

\* Mutated form, used only to show that a property can fail.
KeepInRecords(k, d, f, S) ==
    deleteOutRecord([pit[k] EXCEPT
        !.timer = 0, !.isSatisfied = TRUE, !.dataFreshnessPeriod = d.freshness], f)

\* The Dead Nonce List is consulted between the two assignments, so it sees
\* isSatisfied = TRUE with the dataFreshnessPeriod from before this Data.
SatisfiedEntry(k, d, f, S) ==
    deleteOutRecord(deleteInRecords([pit[k] EXCEPT
        !.timer = 0, !.isSatisfied = TRUE, !.dataFreshnessPeriod = d.freshness], S), f)
DeadBySatisfying(k, f) == DeadNonces(k, [pit[k] EXCEPT !.isSatisfied = TRUE], {f})

\* Cs::insert may decline (admission off, no capacity).
CsInsert(d) == {cs, [cs EXCEPT ![d] = "fresh"]}

\* sameEndpoint: the Data came from the endpoint that downstreams are on.
onIncomingData(f, d, sameEndpoint) ==
    /\ f \in up /\ ~ViolatesLocalhost(f, d.name) /\ Matches(d) # {}
    /\ \E o \in MatchOrders(Matches(d)) :
         pit' = [k \in Key |-> IF k \in Matches(d)
                               THEN SatisfiedEntry(k, d, f, SatisfiedUpTo(o, k))
                               ELSE pit[k]]
    /\ dead' = dead \cup UNION {DeadBySatisfying(k, f) : k \in Matches(d)}
    /\ sent' = outgoingData(d, {g \in UNION {Pending(pit[k]) : k \in Matches(d)} :
                                    g # f \/ ~sameEndpoint \/ g \in AdHoc})
    /\ cs' \in CsInsert(d)
    /\ UNCHANGED up

\* The unsolicited Data policy decides whether to cache.
onDataUnsolicited(f, d) ==
    /\ f \in up /\ ~ViolatesLocalhost(f, d.name) /\ Matches(d) = {}
    /\ cs' \in CsInsert(d)
    /\ sent' = {} /\ UNCHANGED <<pit, up, dead>>

\* The entry after a Nack on f has been recorded.
NackedEntry(k, f, reason) ==
    LET o == [pit[k].out[f] EXCEPT !.nack = reason]
        e == [pit[k] EXCEPT !.out = [pit[k].out EXCEPT ![f] = o]]
    IN  IF hasPendingOutRecords(e) THEN e ELSE [e EXCEPT !.timer = 0]

AnswersOutRecord(f, k, nonce) ==
    f \in up \cap P2P /\ f \in Upstreams(pit[k]) /\ pit[k].out[f].nonce = nonce

DropNack(f, k, nonce) ==
    /\ f \in up /\ ~AnswersOutRecord(f, k, nonce)
    /\ sent' = {} /\ UNCHANGED <<pit, up, dead, cs>>

\* D is what the strategy may decide in afterReceiveNack.
onIncomingNack(f, k, nonce, reason, D) ==
    /\ AnswersOutRecord(f, k, nonce)
    /\ \E d \in D :
         /\ pit' = [pit EXCEPT ![k] = Decided(NackedEntry(k, f, reason), d, 2, 0)]
         /\ sent' = DecidedSent(k, NackedEntry(k, f, reason), d, 2)
    /\ UNCHANGED <<up, dead, cs>>

\* Interests that a strategy sends outside the Interest pipeline: multicast's
\* afterNewNextHop (called by onNewNextHop) and access's afterRtoTimeout.
\* Both send an Interest that the entry or one of its in-records holds, hence
\* one that was accepted.
sendLater(i, U) ==
    /\ pit[KeyOf(i)].live /\ Downstreams(pit[KeyOf(i)]) # {} /\ i.hopLimit > 0
    /\ pit' = [pit EXCEPT ![KeyOf(i)] =
                  Decided(@, SendTo(U, i.nonce), i.hopLimit, i.lifetime)]
    /\ sent' = DecidedSent(KeyOf(i), pit[KeyOf(i)], SendTo(U, i.nonce), i.hopLimit)
    /\ UNCHANGED <<up, dead, cs>>

-----------------------------------------------------------------------------
\* The rest of the system

\* Mutated form, used only to show that a property can fail.
RemoveFaceFromDownstreams(f) ==
    /\ f \in up
    /\ up' = up \ {f}
    /\ pit' = [k \in Key |-> deleteInRecords(pit[k], {f})]
    /\ sent' = {} /\ UNCHANGED <<dead, cs>>

\* FaceTable::remove and cleanupOnFaceRemoval; a face added later under the
\* same name is a new one.
removeFace(f) ==
    /\ f \in up
    /\ up' = up \ {f}
    /\ pit' = [k \in Key |-> deleteOutRecord(deleteInRecords(pit[k], {f}), f)]
    /\ sent' = {} /\ UNCHANGED <<dead, cs>>
addFace(f) ==
    /\ f \notin up
    /\ up' = up \cup {f}
    /\ sent' = {} /\ UNCHANGED <<pit, dead, cs>>

\* The Content Store ages and evicts, the Dead Nonce List forgets.
ageOrEvict(d) ==
    /\ cs[d] # "absent"
    /\ cs' \in {[cs EXCEPT ![d] = s] : s \in {"stale", "absent"} \ {cs[d]}}
    /\ sent' = {} /\ UNCHANGED <<pit, up, dead>>
forget(p) ==
    /\ p \in dead
    /\ dead' = dead \ {p}
    /\ sent' = {} /\ UNCHANGED <<pit, up, cs>>

\* One unit of time passes; no timer may be due.
OlderIn(r) == IF r = None \/ r.ttl = 0 THEN r ELSE [r EXCEPT !.ttl = r.ttl - 1]
OlderOut(r) ==
    IF r = None THEN None
    ELSE [r EXCEPT !.ttl = IF r.ttl = -1 THEN -1 ELSE r.ttl - 1,
                   !.age = IF r.age = AgeBound THEN AgeBound ELSE r.age + 1]
Older(e) ==
    [e EXCEPT !.in = [f \in Face |-> OlderIn(e.in[f])],
              !.out = [f \in Face |-> OlderOut(e.out[f])],
              !.timer = IF e.timer = None THEN None ELSE e.timer - 1]
Tick ==
    /\ \A k \in Key : pit[k].timer # 0
    /\ pit' = [k \in Key |-> Older(pit[k])]
    /\ sent' = {} /\ UNCHANGED <<up, dead, cs>>

-----------------------------------------------------------------------------
\* What any strategy of the repository may decide.  Nacks to other than
\* point-to-point faces would be dropped.

AnyInterestDecision(i) ==
    [to : SUBSET Face, nonce : [Face -> {i.nonce} \cup ProbeNonce],
     nack : SUBSET P2P, reason : Reason, reject : BOOLEAN]
NackTo(N, reason) == [to |-> {}, nonce |-> [u \in Face |-> None], nack |-> N,
                      reason |-> reason, reject |-> FALSE]
AnyNackDecision == {NackTo(N, r) : N \in SUBSET P2P, r \in Reason}

IncomingInterest ==
    \E f \in Face, i \in Interest :
        \/ DropInterest(f, i)
        \/ onInterestLoop(f, i)
        \/ \E d \in Data : onContentStoreHit(f, i, d)
        \/ onContentStoreMiss(f, i, AnyInterestDecision(i))
IncomingData ==
    \E f \in Face, d \in Data :
        \/ DropData(f, d)
        \/ \E same \in IF f \in P2P THEN {TRUE} ELSE BOOLEAN :
               onIncomingData(f, d, same)
        \/ onDataUnsolicited(f, d)
IncomingNack ==
    \E f \in Face, k \in Key, nonce \in Nonce :
        \/ DropNack(f, k, nonce)
        \/ \E r \in Reason : onIncomingNack(f, k, nonce, r, AnyNackDecision)
StrategyEvent == \E i \in Interest, U \in SUBSET Face : sendLater(i, U)
Environment ==
    \/ \E f \in Face : removeFace(f) \/ addFace(f)
    \/ \E d \in Data : ageOrEvict(d)
    \/ \E p \in dead : forget(p)

Finalize == \E k \in Key : onInterestFinalize(k)

Next == \/ Tick \/ Finalize \/ Environment \/ IncomingData \/ IncomingNack
        \/ IncomingInterest \/ StrategyEvent

Spec == Init /\ [][Next]_vars

\* The event queue never stops: time passes and due timers fire.
FairSpec == Spec /\ WF_vars(Tick) /\ WF_vars(Finalize)

-----------------------------------------------------------------------------
\* Properties

\* Records, timers and flags keep their types.
TypeOK ==
    /\ pit \in [Key -> Entry]
    /\ up \subseteq Face
    /\ dead \subseteq Name \X Nonce
    /\ cs \in [Data -> {"absent", "stale", "fresh"}]

\* The PIT does not leak: whatever pipeline left an entry in the PIT also armed
\* its expiry timer, and what is not in the PIT has no records left.
NoLeak ==
    \A k \in Key : IF pit[k].live THEN pit[k].timer # None ELSE pit[k] = Absent

\* An entry is never finalised under a waiting downstream: its timer is either
\* due now (Data, Nacks or rejection closed it, or no whole millisecond is left)
\* or outlasts every in-record, but for the millisecond lost by rounding down.
TimerCoversInRecords ==
    \A k \in Key : pit[k].timer \notin {0, None} =>
        \A f \in Downstreams(pit[k]) : pit[k].in[f].ttl < pit[k].timer + Millisecond

\* In- and out-records hold references to Faces: none outlives its Face.
NoDanglingRecords ==
    \A k \in Key : Downstreams(pit[k]) \cup Upstreams(pit[k]) \subseteq up

\* Loop detection: no two downstreams of an entry wait with the same nonce, so
\* an Interest that took two paths is accepted from one of them only.
DistinctInNonces ==
    \A k \in Key : \A f, g \in Downstreams(pit[k]) :
        pit[k].in[f].nonce = pit[k].in[g].nonce => f = g

\* One Data per Interest: Data goes to a face that was waiting for it in some
\* entry, and afterwards that face waits in no entry the Data matches; or it
\* answers, from the Content Store, the Interest that arrives from that face in
\* this step, and leaves nobody waiting in the entry of that Interest.
OneDataPerInterest ==
    [][\A p \in sent' : p.type = "Data" =>
         \/ /\ \E k \in Matches(p.data) : p.face \in Pending(pit[k])
            /\ \A k \in Matches(p.data) : p.face \notin Pending(pit'[k])
         \/ /\ sent' = {p}
            /\ \E i \in Interest : /\ onContentStoreHit(p.face, i, p.data)
                                   /\ pit'[KeyOf(i)].isSatisfied
                                   /\ Downstreams(pit'[KeyOf(i)]) = {}]_vars

\* Interest i may have arrived from face f in this step and been given to the
\* strategy.
Arrives(f, i) == onContentStoreMiss(f, i, AnyInterestDecision(i))

\* A Nack to a face either answers the looping Interest that arrives from it,
\* and leaves the PIT alone; or that face waits no more, and the Nack carries the
\* nonce of the Interest it was waiting with: of the one that arrives from it in
\* this step, which renews its in-record, else of the in-record it had.
NackReturnsInterest ==
    [][\A p \in sent' : p.type = "Nack" =>
         \/ /\ p.reason = DUPLICATE /\ UNCHANGED pit
            /\ \E i \in Interest : /\ KeyOf(i) = p.key /\ i.nonce = p.nonce
                                   /\ onInterestLoop(p.face, i)
         \/ /\ p.face \notin Downstreams(pit'[p.key])
            /\ \A i \in Interest : KeyOf(i) = p.key /\ i.nonce # p.nonce => ~Arrives(p.face, i)
            /\ \/ /\ p.face \in Downstreams(pit[p.key])
                  /\ pit[p.key].in[p.face].nonce = p.nonce
               \/ \E i \in Interest : /\ KeyOf(i) = p.key /\ i.nonce = p.nonce
                                      /\ Arrives(p.face, i)]_vars

\* The PIT drains: once no arriving Interest creates an entry or prolongs a
\* timer any more, every entry is finalised.
Prolonged ==
    \E k \in Key : pit'[k].live /\ (pit[k].live => pit'[k].timer > pit[k].timer)
PitDrains == <>[][~Prolonged]_vars => <>[](\A k \in Key : ~pit[k].live)
=============================================================================
