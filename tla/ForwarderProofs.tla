--------------------------- MODULE ForwarderProofs ---------------------------
(***************************************************************************)
(* Proofs about Forwarder, for any strategy and any number of faces,       *)
(* names and packets: the inductive invariant is a predicate on single     *)
(* entries, and every pipeline is a composition of a few operations that   *)
(* preserve it.                                                            *)
(***************************************************************************)
EXTENDS Forwarder, WellFoundedInduction, TLAPS

USE InterestAssumption
\* The provers a leaf that names none is tried with.
USE SMTT(30), ZenonT(30), SMTT(60)

\* What holds of an entry when the faces in U exist.
Covered(e) ==
    e.timer \notin {0, None} => \A f \in Downstreams(e) : e.in[f].ttl < e.timer + Millisecond
Unrepeated(e) ==
    \A f, g \in Downstreams(e) : e.in[f].nonce = e.in[g].nonce => f = g
Sound(e, U) ==
    /\ e \in Entry
    /\ Covered(e)
    /\ Downstreams(e) \cup Upstreams(e) \subseteq U
    /\ Unrepeated(e)
Armed(e) == e.live = TRUE /\ e.timer # None
Kept(e) == Armed(e) \/ e = Absent

IInv ==
    /\ up \subseteq Face
    /\ dead \subseteq Name \X Nonce
    /\ cs \in [Data -> {"absent", "stale", "fresh"}]
    /\ DOMAIN pit = Key /\ pit = [k \in Key |-> pit[k]]
    /\ \A k \in Key : Sound(pit[k], up) /\ Kept(pit[k])

-----------------------------------------------------------------------------
\* The keys of Interests name them.
LEMMA KeyFacts ==
    /\ \A i \in Interest : KeyOf(i) \in Key
    /\ \A k \in Key : k.name \in Name
BY DEF Key, KeyOf

\* Records are not None.
LEMMA NoneFacts ==
    /\ \A t \in 0 .. MaxLifetime : t # None
    /\ \A r \in InRecord : r # None
    /\ \A r \in OutRecord : r # None
BY NoneAssumption

\* An entry outside the PIT is sound whatever faces exist.
LEMMA AbsentSound == ASSUME NEW U PROVE Sound(Absent, U)
<1>1. Absent \in Entry
  BY DEF Absent, Entry
<1>2. Downstreams(Absent) = {} /\ Upstreams(Absent) = {}
  BY DEF Absent, Downstreams, Upstreams
<1> QED BY <1>1, <1>2 DEF Sound, Covered, Unrepeated

\* Deleting in-records, here of the faces S, keeps an entry sound.
LEMMA DeleteInSound ==
    ASSUME NEW U, NEW e, NEW S, Sound(e, U)
    PROVE  LET r == deleteInRecords(e, S)
           IN  /\ Sound(r, U) /\ r.live = e.live /\ r.timer = e.timer
               /\ Downstreams(r) = Downstreams(e) \ S
<1> DEFINE r == deleteInRecords(e, S)
<1>1. e \in Entry
  BY DEF Sound
<1>2. /\ r \in Entry /\ r.live = e.live /\ r.timer = e.timer /\ r.out = e.out
      /\ \A f \in Face : r.in[f] = IF f \in S THEN None ELSE e.in[f]
  BY <1>1 DEF deleteInRecords, Entry
<1>3. Downstreams(r) = Downstreams(e) \ S /\ Upstreams(r) = Upstreams(e)
  BY <1>2 DEF Downstreams, Upstreams
<1>4. \A f \in Downstreams(r) : f \in Face /\ r.in[f] = e.in[f]
  BY <1>2, <1>3 DEF Downstreams
<1> HIDE DEF r
<1> QED BY <1>2, <1>3, <1>4 DEF Sound, Covered, Unrepeated, r

\* Deleting an out-record keeps an entry sound.
LEMMA DeleteOutSound ==
    ASSUME NEW U, NEW e, NEW f \in Face, Sound(e, U)
    PROVE  LET r == deleteOutRecord(e, f)
           IN  /\ Sound(r, U) /\ r.live = e.live /\ r.timer = e.timer
               /\ r.in = e.in /\ Upstreams(r) = Upstreams(e) \ {f}
<1> DEFINE r == deleteOutRecord(e, f)
<1>1. e \in Entry
  BY DEF Sound
<1>2. /\ r \in Entry /\ r.live = e.live /\ r.timer = e.timer /\ r.in = e.in
      /\ \A u \in Face : r.out[u] = IF u = f THEN None ELSE e.out[u]
  BY <1>1 DEF deleteOutRecord, Entry
<1>3. Downstreams(r) = Downstreams(e) /\ Upstreams(r) = Upstreams(e) \ {f}
  BY <1>2 DEF Downstreams, Upstreams
<1> HIDE DEF r
<1> QED BY <1>2, <1>3 DEF Sound, Covered, Unrepeated, r

\* Data with FreshnessPeriod d answers the downstreams S of an entry: the timer
\* is set to now and their in-records go.
Answered(e, d, S) ==
    deleteInRecords([e EXCEPT !.timer = 0, !.isSatisfied = TRUE,
                              !.dataFreshnessPeriod = d], S)

LEMMA AnsweredSound ==
    ASSUME NEW U, NEW e, NEW d \in Nat, NEW S, Sound(e, U)
    PROVE  /\ Sound(Answered(e, d, S), U)
           /\ Answered(e, d, S).live = e.live /\ Answered(e, d, S).timer = 0
<1> DEFINE r == [e EXCEPT !.timer = 0, !.isSatisfied = TRUE, !.dataFreshnessPeriod = d]
<1>1. e \in Entry
  BY DEF Sound
<1>2. r.live = e.live /\ r.timer = 0 /\ r.in = e.in /\ r.out = e.out
  BY <1>1 DEF Entry
<1>3. 0 \in 0 .. MaxLifetime
  OBVIOUS
<1>4. r \in Entry
  BY ZenonT(60), <1>1, <1>3 DEF Entry
<1>5. Downstreams(r) = Downstreams(e) /\ Upstreams(r) = Upstreams(e)
  BY <1>2 DEF Downstreams, Upstreams
<1>6. Answered(e, d, S) = deleteInRecords(r, S)
  BY DEF Answered
<1> HIDE DEF r
<1>7. Sound(r, U)
  BY <1>2, <1>4, <1>5 DEF Sound, Covered, Unrepeated
<1> DEFINE a == deleteInRecords(r, S)
<1>8. Sound(a, U) /\ a.live = r.live /\ a.timer = r.timer
  BY <1>7, DeleteInSound
<1> HIDE DEF a
<1> QED BY <1>2, <1>6, <1>8 DEF a

\* A non-empty set of numbers has a least element.
LEMMA LeastExists ==
    ASSUME NEW T, T \subseteq Nat, T # {}
    PROVE  \E t \in T : \A s \in T : t =< s
<1> DEFINE R == {p \in Nat \X Nat : p[1] < p[2]}
<1>1. IsWellFoundedOn(R, Nat)
  BY NatLessThanWellFounded DEF OpToRel
<1>2. \A x, y \in Nat : x < y => <<x, y>> \in R
  OBVIOUS
<1> HIDE DEF R
<1>3. PICK t \in T : \A s \in T : ~(<<s, t>> \in R)
  BY ZenonT(60), <1>1, WFMin
<1>4. ASSUME NEW s \in T PROVE t =< s
  <2>1. ~(s < t)
    BY ZenonT(60), <1>2, <1>3
  <2> QED BY <2>1
<1> QED BY <1>4

\* A non-empty set of numbers up to n has a greatest element: the mirrored set
\* has a least one.
LEMMA GreatestExists ==
    ASSUME NEW n \in Nat, NEW T, T \subseteq 0 .. n, T # {}
    PROVE  \E t \in T : \A s \in T : s =< t
<1> DEFINE M == {n - t : t \in T}
<1>1. M \subseteq Nat /\ M # {}
  <2>1. \A t \in T : n - t \in Nat
    OBVIOUS
  <2>2. ASSUME NEW x \in M PROVE x \in Nat
    BY <2>1
  <2>3. PICK t \in T : n - t \in M
    BY ZenonT(60)
  <2> HIDE DEF M
  <2> QED BY <2>2, <2>3
<1>2. PICK x \in M : \A y \in M : x =< y
  <2> HIDE DEF M
  <2> QED BY ZenonT(60), <1>1, LeastExists
<1>3. PICK t \in T : x = n - t
  OBVIOUS
<1>4. ASSUME NEW s \in T PROVE s =< t
  <2>1. n - t =< n - s
    BY ZenonT(60), <1>2, <1>3
  <2> QED BY <2>1
<1> QED BY <1>4

\* LastExpiry is the greatest time left of an in-record.
LEMMA LastExpiryFacts ==
    ASSUME NEW e \in Entry, Downstreams(e) # {}
    PROVE  /\ LastExpiry(e) \in 0 .. MaxLifetime
           /\ \A f \in Downstreams(e) : e.in[f].ttl =< LastExpiry(e)
<1> DEFINE T == {e.in[f].ttl : f \in Downstreams(e)}
<1>1. \A f \in Downstreams(e) : e.in[f] \in InRecord
  BY DEF Downstreams, Entry
<1>2. T \subseteq 0 .. MaxLifetime /\ T # {}
  BY <1>1 DEF InRecord
<1>3. PICK t \in T : \A s \in T : s =< t
  BY ZenonT(60), <1>2, GreatestExists
<1>4. /\ t \in 0 .. MaxLifetime
      /\ \E f \in Downstreams(e) : e.in[f].ttl = t
      /\ \A f \in Downstreams(e) : e.in[f].ttl =< t
  BY <1>2, <1>3
<1> HIDE DEF T
<1> QED BY <1>4 DEF LastExpiry

\* Rounding down loses less than a millisecond.
LEMMA DurationCastFacts ==
    ASSUME NEW t \in 0 .. MaxLifetime
    PROVE  duration_cast(t) \in 0 .. MaxLifetime /\ t < duration_cast(t) + Millisecond
<1>1. t \in Nat /\ Millisecond \in Nat /\ Millisecond > 0
  BY MillisecondAssumption
<1>2. t % Millisecond \in 0 .. Millisecond - 1
  BY <1>1
<1>3. t % Millisecond =< t
  <2>1. t = Millisecond * (t \div Millisecond) + (t % Millisecond)
    BY <1>1
  <2>2. t \div Millisecond \in Nat
    BY <1>1
  <2> DEFINE q == t \div Millisecond
             m == t % Millisecond
  <2>3. q \in Nat /\ m \in Nat /\ t = Millisecond * q + m
    BY <1>2, <2>1, <2>2, <1>1
  <2> HIDE DEF q, m
  <2>4. Millisecond * q \in Nat
    BY <1>1, <2>3
  <2>5. m =< t
    BY <2>3, <2>4, <1>1
  <2> QED BY <2>5 DEF m
<1> QED BY <1>1, <1>2, <1>3 DEF duration_cast

\* Pit::insert keeps what an entry has.
LEMMA InsertSound ==
    ASSUME NEW U, NEW e, Sound(e, U)
    PROVE  LET r == insert(e)
           IN  /\ Sound(r, U) /\ r.live = TRUE /\ r.timer = e.timer
               /\ r.in = e.in /\ r.out = e.out
<1> DEFINE r == insert(e)
<1>1. e \in Entry
  BY DEF Sound
<1>2. /\ r \in Entry /\ r.live = TRUE /\ r.timer = e.timer
      /\ r.in = e.in /\ r.out = e.out
  BY ZenonT(60), <1>1 DEF insert, Entry
<1>3. Downstreams(r) = Downstreams(e) /\ Upstreams(r) = Upstreams(e)
  BY <1>2 DEF Downstreams, Upstreams
<1> HIDE DEF r
<1> QED BY <1>2, <1>3 DEF Sound, Covered, Unrepeated, r

\* onContentStoreMiss: the in-record of an Interest without a duplicate nonce,
\* and the timer set to the last expiry.
Missed(e, f, i) ==
    LET r == insertOrUpdateInRecord(insert(e), f, i)
    IN  [r EXCEPT !.timer = duration_cast(LastExpiry(r))]

LEMMA MissSound ==
    ASSUME NEW U, U \subseteq Face, NEW e, NEW f \in U, NEW i \in Interest,
           Sound(e, U), ~HasDuplicateNonce(e, i.nonce, f)
    PROVE  Sound(Missed(e, f, i), U) /\ Armed(Missed(e, f, i))
<1> DEFINE n == insert(e)
           r == insertOrUpdateInRecord(n, f, i)
           m == Missed(e, f, i)
<1>1. /\ Sound(n, U) /\ n.live = TRUE /\ n.in = e.in /\ n.out = e.out
      /\ n \in Entry /\ e \in Entry /\ f \in Face
  BY ZenonT(60), InsertSound DEF Sound
<1>2. Downstreams(n) = Downstreams(e) /\ Upstreams(n) = Upstreams(e)
  BY <1>1 DEF Downstreams, Upstreams
<1> HIDE DEF n
<1>3. [nonce |-> i.nonce, ttl |-> i.lifetime] \in InRecord
  BY DEF InRecord
<1>4. /\ r \in Entry /\ r.live = TRUE /\ r.out = e.out
      /\ \A g \in Face : r.in[g] = IF g = f THEN [nonce |-> i.nonce, ttl |-> i.lifetime]
                                            ELSE e.in[g]
  BY <1>1, <1>3 DEF insertOrUpdateInRecord, Entry
<1>5. Downstreams(r) = Downstreams(e) \cup {f} /\ Upstreams(r) = Upstreams(e)
  BY <1>1, <1>3, <1>4, NoneFacts DEF Downstreams, Upstreams
<1>6. m = [r EXCEPT !.timer = duration_cast(LastExpiry(r))]
  BY DEF Missed, n
<1> HIDE DEF r, m
<1>7. /\ LastExpiry(r) \in 0 .. MaxLifetime
      /\ \A g \in Downstreams(r) : r.in[g].ttl =< LastExpiry(r)
      /\ duration_cast(LastExpiry(r)) \in 0 .. MaxLifetime
      /\ LastExpiry(r) < duration_cast(LastExpiry(r)) + Millisecond
  BY <1>4, <1>5, LastExpiryFacts, DurationCastFacts
<1>8. /\ m.timer = duration_cast(LastExpiry(r)) /\ m.live = TRUE /\ m.in = r.in /\ m.out = r.out
  BY <1>4, <1>6, <1>7 DEF Entry
<1>9. m \in Entry
  BY <1>4, <1>6, <1>7 DEF Entry
<1>10. Downstreams(m) = Downstreams(e) \cup {f} /\ Upstreams(m) = Upstreams(e)
  BY <1>5, <1>8 DEF Downstreams, Upstreams
<1>11. Covered(m)
  <2>1. ASSUME NEW g \in Downstreams(r) PROVE r.in[g].ttl < m.timer + Millisecond
    <3>1. r.in[g] \in InRecord
      BY <1>4 DEF Downstreams, Entry
    <3> QED BY <1>7, <1>8, <3>1, MillisecondAssumption DEF InRecord
  <2> QED BY <1>5, <1>8, <1>10, <2>1 DEF Covered
<1>12. Unrepeated(m)
  <2>1. ASSUME NEW g \in Downstreams(e), g # f PROVE e.in[g].nonce # i.nonce
    <3>1. ~(f \in Downstreams(e) /\ e.in[f].nonce = i.nonce) \/ e.in[g].nonce # i.nonce
      BY <2>1 DEF Sound, Unrepeated
    <3> QED BY <2>1, <3>1 DEF HasDuplicateNonce
  <2>2. m.in[f].nonce = i.nonce
    BY <1>1, <1>4, <1>8
  <2>3. \A g \in Downstreams(e) : g # f => m.in[g] = e.in[g]
    BY <1>4, <1>8 DEF Downstreams
  <2> QED BY <1>10, <2>1, <2>2, <2>3 DEF Unrepeated, Sound
<1>13. Armed(m)
  BY <1>7, <1>8, NoneFacts DEF Armed
<1> QED BY <1>9, <1>10, <1>11, <1>12, <1>13 DEF Sound, m

\* Out-records of Interests that are sent.
LEMMA SendSound ==
    ASSUME NEW U, U \subseteq Face, NEW e, NEW S, S \subseteq U, NEW nonce,
           NEW lifetime \in 0 .. MaxLifetime,
           \A u \in S : nonce[u] \in Nonce, Sound(e, U)
    PROVE  LET r == insertOrUpdateOutRecords(e, S, nonce, lifetime)
           IN  Sound(r, U) /\ r.live = e.live /\ r.timer = e.timer
<1> DEFINE r == insertOrUpdateOutRecords(e, S, nonce, lifetime)
           o(u) == [nonce |-> nonce[u], ttl |-> lifetime, age |-> 0,
                    nack |-> IF e.out[u] = None THEN 0 ELSE e.out[u].nack]
           out == [u \in Face |-> IF u \notin S THEN e.out[u] ELSE o(u)]
<1>1. e \in Entry
  BY DEF Sound
<1>2. ASSUME NEW u \in S PROVE o(u) \in OutRecord
  <2>1. e.out[u] # None => e.out[u] \in OutRecord
    BY <1>1 DEF Entry
  <2>2. (IF e.out[u] = None THEN 0 ELSE e.out[u].nack) \in {0} \cup Reason
    BY <2>1 DEF OutRecord
  <2>3. nonce[u] \in Nonce /\ lifetime \in -1 .. MaxLifetime /\ 0 \in 0 .. AgeBound
    BY <1>2
  <2> QED BY <2>2, <2>3 DEF OutRecord
<1>3. out \in [Face -> OutRecord \cup {None}]
  BY <1>1, <1>2 DEF Entry
<1>4. r = [e EXCEPT !.out = out]
  BY DEF insertOrUpdateOutRecords
<1>5. \A u \in Face : u \notin S => out[u] = e.out[u]
  OBVIOUS
<1> HIDE DEF r, out
<1>6. r.live = e.live /\ r.timer = e.timer /\ r.in = e.in /\ r.out = out
  BY <1>1, <1>4 DEF Entry
<1>7. r \in Entry
  BY <1>1, <1>3, <1>4 DEF Entry
<1>8. Downstreams(r) = Downstreams(e) /\ Upstreams(r) \subseteq Upstreams(e) \cup S
  BY <1>5, <1>6 DEF Downstreams, Upstreams
<1> QED BY <1>6, <1>7, <1>8 DEF Sound, Covered, Unrepeated, r

\* Closing an entry without satisfying it.
LEMMA RejectSound ==
    ASSUME NEW U, NEW e, Sound(e, U)
    PROVE  LET r == [e EXCEPT !.timer = 0]
           IN  Sound(r, U) /\ r.live = e.live /\ r.timer = 0
<1> DEFINE r == [e EXCEPT !.timer = 0]
<1>1. e \in Entry
  BY DEF Sound
<1>2. r.live = e.live /\ r.timer = 0 /\ r.in = e.in /\ r.out = e.out
  BY <1>1 DEF Entry
<1>3. 0 \in 0 .. MaxLifetime
  OBVIOUS
<1>4. r \in Entry
  BY <1>1, <1>3 DEF Entry
<1>5. Downstreams(r) = Downstreams(e) /\ Upstreams(r) = Upstreams(e)
  BY <1>2 DEF Downstreams, Upstreams
<1> HIDE DEF r
<1> QED BY <1>2, <1>4, <1>5 DEF Sound, Covered, Unrepeated, r

\* Whatever a strategy decides leaves an entry sound and its timer armed.
LEMMA DecidedSound ==
    ASSUME NEW e, NEW d, NEW hopLimit, NEW lifetime \in 0 .. MaxLifetime,
           up \subseteq Face, Sound(e, up), Armed(e),
           \A u \in Sendable(hopLimit, d.to) : d.nonce[u] \in Nonce
    PROVE  /\ Sound(Decided(e, d, hopLimit, lifetime), up)
           /\ Armed(Decided(e, d, hopLimit, lifetime))
<1> DEFINE S == Sendable(hopLimit, d.to)
           e1 == insertOrUpdateOutRecords(e, S, d.nonce, lifetime)
           N == Nackable(e, d.nack)
           e2 == deleteInRecords(e1, N)
<1>1. S \subseteq up
  BY DEF Sendable
<1>2. Sound(e1, up) /\ e1.live = e.live /\ e1.timer = e.timer
  <2> HIDE DEF S
  <2> QED BY <1>1, SendSound DEF S
<1> HIDE DEF e1
<1>3. Sound(e2, up) /\ e2.live = e.live /\ e2.timer = e.timer
  <2> HIDE DEF N
  <2> QED BY <1>2, DeleteInSound
<1>4. Decided(e, d, hopLimit, lifetime) = IF d.reject THEN [e2 EXCEPT !.timer = 0] ELSE e2
  BY DEF Decided, e1
<1> HIDE DEF e2
<1>5. [e2 EXCEPT !.timer = 0].live = e.live /\ [e2 EXCEPT !.timer = 0].timer = 0
      /\ Sound([e2 EXCEPT !.timer = 0], up)
  BY <1>3, RejectSound
<1>6. 0 # None
  BY NoneAssumption
<1> QED BY <1>3, <1>4, <1>5, <1>6 DEF Armed

\* Recording a Nack in an out-record, and closing the entry if it was the last.
LEMMA NackedSound ==
    ASSUME NEW k \in Key, NEW f \in Upstreams(pit[k]), NEW reason \in Reason,
           Sound(pit[k], up), Armed(pit[k])
    PROVE  Sound(NackedEntry(k, f, reason), up) /\ Armed(NackedEntry(k, f, reason))
<1> DEFINE e == pit[k]
           o == [e.out EXCEPT ![f] = [e.out[f] EXCEPT !.nack = reason]]
           r == [e EXCEPT !.out = o]
<1>1. e \in Entry /\ f \in Face /\ e.out[f] \in OutRecord
  BY DEF Sound, Upstreams, Entry
<1>2. [e.out[f] EXCEPT !.nack = reason] \in OutRecord
  BY <1>1 DEF OutRecord
<1>3. /\ o \in [Face -> OutRecord \cup {None}]
      /\ \A u \in Face : u # f => o[u] = e.out[u]
  BY <1>1, <1>2 DEF Entry
<1> HIDE DEF o
<1>4. r \in Entry /\ r.live = e.live /\ r.timer = e.timer /\ r.in = e.in /\ r.out = o
  <2> HIDE DEF e
  <2>1. r.live = e.live /\ r.timer = e.timer /\ r.in = e.in /\ r.out = o
    BY <1>1 DEF Entry
  <2>2. r \in Entry
    BY <1>1, <1>3 DEF Entry
  <2> QED BY <2>1, <2>2 DEF e
<1>5. Downstreams(r) = Downstreams(e) /\ Upstreams(r) \subseteq Upstreams(e)
  BY <1>1, <1>3, <1>4 DEF Downstreams, Upstreams
<1>6. NackedEntry(k, f, reason) = IF hasPendingOutRecords(r) THEN r ELSE [r EXCEPT !.timer = 0]
  BY DEF NackedEntry, o
<1> HIDE DEF r
<1>7. Sound(r, up)
  BY <1>4, <1>5 DEF Sound, Covered, Unrepeated
<1>8. Sound([r EXCEPT !.timer = 0], up) /\ [r EXCEPT !.timer = 0].live = r.live
      /\ [r EXCEPT !.timer = 0].timer = 0
  BY <1>7, RejectSound
<1>9. 0 # None
  BY NoneAssumption
<1> QED BY <1>4, <1>6, <1>7, <1>8, <1>9 DEF Armed

\* Time passes: records and the timer, which is not due, lose one tick each.
LEMMA OlderSound ==
    ASSUME NEW U, NEW e, Sound(e, U), e.timer # 0, Kept(e)
    PROVE  Sound(Older(e), U) /\ Kept(Older(e))
<1> DEFINE in == [f \in Face |-> OlderIn(e.in[f])]
           out == [f \in Face |-> OlderOut(e.out[f])]
           timer == IF e.timer = None THEN None ELSE e.timer - 1
           r == Older(e)
<1>1. e \in Entry
  BY DEF Sound
<1>2. ASSUME NEW f \in Face
      PROVE  /\ OlderIn(e.in[f]) \in InRecord \cup {None}
             /\ e.in[f] = None <=> OlderIn(e.in[f]) = None
             /\ e.in[f] # None => /\ OlderIn(e.in[f]).nonce = e.in[f].nonce
                                  /\ OlderIn(e.in[f]).ttl = IF e.in[f].ttl = 0 THEN 0
                                                            ELSE e.in[f].ttl - 1
  <2>1. CASE e.in[f] = None
    BY <2>1 DEF OlderIn
  <2>2. CASE e.in[f] \in InRecord
    <3> DEFINE x == e.in[f]
    <3>1. x \in InRecord /\ x # None /\ x.ttl \in 0 .. MaxLifetime /\ x.nonce \in Nonce
      BY <2>2, NoneFacts DEF InRecord
    <3> HIDE DEF x
    <3>2. [x EXCEPT !.ttl = x.ttl - 1].nonce = x.nonce
          /\ [x EXCEPT !.ttl = x.ttl - 1].ttl = x.ttl - 1
      BY <3>1 DEF InRecord
    <3>3. x.ttl # 0 => [x EXCEPT !.ttl = x.ttl - 1] \in InRecord
      BY <3>1 DEF InRecord
    <3>4. OlderIn(x) \in InRecord
      BY <3>1, <3>3 DEF OlderIn
    <3>5. OlderIn(x) # None
      BY <3>4, NoneFacts
    <3>6. OlderIn(x).nonce = x.nonce
          /\ OlderIn(x).ttl = IF x.ttl = 0 THEN 0 ELSE x.ttl - 1
      BY <3>1, <3>2 DEF OlderIn
    <3> QED BY <3>1, <3>4, <3>5, <3>6 DEF x
  <2> QED BY <1>1, <2>1, <2>2 DEF Entry
<1>3. ASSUME NEW f \in Face
      PROVE  /\ OlderOut(e.out[f]) \in OutRecord \cup {None}
             /\ e.out[f] = None => OlderOut(e.out[f]) = None
  <2>1. CASE e.out[f] = None
    BY <2>1 DEF OlderOut
  <2>2. CASE e.out[f] \in OutRecord
    <3> DEFINE x == e.out[f]
               t == IF x.ttl = -1 THEN -1 ELSE x.ttl - 1
               a == IF x.age = AgeBound THEN AgeBound ELSE x.age + 1
    <3>1. x \in OutRecord /\ x # None
      BY <2>2, NoneFacts
    <3> HIDE DEF x
    <3>2. t \in -1 .. MaxLifetime /\ a \in 0 .. AgeBound
      BY <3>1 DEF OutRecord
    <3>3. OlderOut(x) = [x EXCEPT !.ttl = t, !.age = a]
      BY <3>1 DEF OlderOut
    <3> HIDE DEF t, a
    <3>4. OlderOut(x) \in OutRecord
      BY ZenonT(60), <3>1, <3>2, <3>3 DEF OutRecord
    <3> QED BY <2>2, <3>1, <3>4 DEF x
  <2> QED BY <1>1, <2>1, <2>2 DEF Entry
<1>4. /\ in \in [Face -> InRecord \cup {None}] /\ out \in [Face -> OutRecord \cup {None}]
      /\ \A f \in Face : in[f] = OlderIn(e.in[f]) /\ out[f] = OlderOut(e.out[f])
  BY <1>2, <1>3
<1>5. timer \in 0 .. MaxLifetime \cup {None} /\ (timer = None <=> e.timer = None)
  <2>1. CASE e.timer = None
    BY <2>1
  <2>2. CASE e.timer \in 0 .. MaxLifetime
    <3>1. e.timer # None
      BY <2>2, NoneFacts
    <3>2. timer = e.timer - 1
      BY <3>1
    <3>3. timer \in 0 .. MaxLifetime
      BY <2>2, <3>2
    <3> HIDE DEF timer
    <3>4. timer # None
      BY <3>3, NoneFacts
    <3> QED BY <3>1, <3>3, <3>4
  <2> QED BY <1>1, <2>1, <2>2 DEF Entry
<1>6. r = [e EXCEPT !.in = in, !.out = out, !.timer = timer]
  BY DEF Older
<1>7. e.timer # None => timer = e.timer - 1 /\ e.timer \in 0 .. MaxLifetime
  BY <1>1 DEF Entry
<1> HIDE DEF in, out, timer, r
<1>8. r.in = in /\ r.out = out /\ r.timer = timer /\ r.live = e.live
  BY <1>1, <1>6 DEF Entry
<1>9. r \in Entry
  BY ZenonT(60), <1>1, <1>4, <1>5, <1>6 DEF Entry
<1>10. Downstreams(r) = Downstreams(e) /\ Upstreams(r) \subseteq Upstreams(e)
  BY <1>2, <1>3, <1>4, <1>8 DEF Downstreams, Upstreams
<1>11. Covered(r)
  <2> SUFFICES ASSUME timer # 0, timer # None, NEW f \in Downstreams(e)
               PROVE  in[f].ttl < timer + Millisecond
    BY <1>8, <1>10 DEF Covered
  <2>1. e.timer # None /\ e.in[f].ttl < e.timer + Millisecond /\ f \in Face /\ e.in[f] # None
    BY <1>5 DEF Sound, Covered, Downstreams
  <2>2. in[f].ttl = IF e.in[f].ttl = 0 THEN 0 ELSE e.in[f].ttl - 1
    BY <1>2, <1>4, <2>1
  <2>3. e.in[f].ttl \in 0 .. MaxLifetime
    BY <1>1, <2>1 DEF Entry, InRecord
  <2> QED BY <1>7, <2>1, <2>2, <2>3, MillisecondAssumption
<1>12. Unrepeated(r)
  <2>1. \A f \in Downstreams(e) : r.in[f].nonce = e.in[f].nonce
    BY <1>2, <1>4, <1>8 DEF Downstreams
  <2> QED BY <1>10, <2>1 DEF Sound, Unrepeated
<1>13. Armed(e) => Armed(r)
  BY <1>5, <1>8 DEF Armed
<1>14. ASSUME e = Absent PROVE r = Absent
  BY ZenonT(60), <1>6, <1>14 DEF Absent, in, out, timer, OlderIn, OlderOut
<1> QED BY <1>9, <1>10, <1>11, <1>12, <1>13, <1>14 DEF Sound, Kept, r

-----------------------------------------------------------------------------
\* An entry with records, or with a timer that is due, is in the PIT.
LEMMA RecordsMeanArmed ==
    ASSUME NEW e, Kept(e), Downstreams(e) # {} \/ Upstreams(e) # {} \/ e.timer = 0
    PROVE  Armed(e)
BY NoneAssumption DEF Kept, Absent, Downstreams, Upstreams

\* A step that gives entry k a sound value keeps IInv.
LEMMA OneEntry ==
    ASSUME IInv, NEW k \in Key, NEW e, Sound(e, up), Kept(e),
           pit' = [pit EXCEPT ![k] = e], up' = up,
           cs' \in [Data -> {"absent", "stale", "fresh"}], dead' \subseteq Name \X Nonce
    PROVE  IInv'
<1>1. DOMAIN pit' = Key /\ pit' = [j \in Key |-> pit'[j]]
  BY DEF IInv
<1>2. ASSUME NEW j \in Key PROVE Sound(pit'[j], up) /\ Kept(pit'[j])
  <2>1. pit'[j] = IF j = k THEN e ELSE pit[j]
    BY DEF IInv
  <2> QED BY <2>1 DEF IInv
<1>3. up' \subseteq Face
  BY DEF IInv
<1> QED BY <1>1, <1>2, <1>3 DEF IInv

\* A step that leaves the PIT and the faces alone keeps IInv.
LEMMA SameEntries ==
    ASSUME IInv, pit' = pit, up' = up,
           cs' \in [Data -> {"absent", "stale", "fresh"}], dead' \subseteq Name \X Nonce
    PROVE  IInv'
BY DEF IInv

\* What insertDeadNonceList adds are names with nonces.
LEMMA DeadNoncesType ==
    ASSUME NEW k \in Key, NEW e \in Entry, NEW S
    PROVE  DeadNonces(k, e, S) \subseteq Name \X Nonce
<1>1. \A u \in Upstreams(e) : e.out[u] \in OutRecord
  BY DEF Upstreams, Entry
<1>2. \A u \in Upstreams(e) : e.out[u].nonce \in Nonce
  BY <1>1 DEF OutRecord
<1>3. k.name \in Name
  BY KeyFacts
<1> QED BY <1>2, <1>3 DEF DeadNonces

-----------------------------------------------------------------------------
\* The incoming Interest pipeline keeps IInv, whatever the strategy decides.
LEMMA InterestStep == IInv /\ IncomingInterest => IInv'
<1> SUFFICES ASSUME IInv, NEW f \in Face, NEW i \in Interest,
                    \/ DropInterest(f, i)
                    \/ onInterestLoop(f, i)
                    \/ \E d \in Data : onContentStoreHit(f, i, d)
                    \/ onContentStoreMiss(f, i, AnyInterestDecision(i))
             PROVE  IInv'
  BY DEF IncomingInterest
<1> DEFINE k == KeyOf(i)
           e == pit[k]
<1>1. k \in Key /\ up \subseteq Face
  BY KeyFacts DEF IInv
<1>2. Sound(e, up) /\ Kept(e) /\ e \in Entry
  BY <1>1 DEF IInv, Sound
<1>3. /\ cs \in [Data -> {"absent", "stale", "fresh"}] /\ dead \subseteq Name \X Nonce
  BY DEF IInv
<1>4. CASE DropInterest(f, i)
  BY <1>3, <1>4, SameEntries DEF DropInterest
<1>5. CASE onInterestLoop(f, i)
  <2>1. up' = up /\ cs' = cs /\ dead' = dead
    BY <1>5 DEF onInterestLoop
  <2>2. CASE InDnl(i)
    BY <1>3, <1>5, <2>1, <2>2, SameEntries DEF onInterestLoop
  <2>3. CASE ~InDnl(i)
    <3>1. HasDuplicateNonce(e, i.nonce, f) /\ pit' = [pit EXCEPT ![k] = insert(e)]
      BY <1>5, <2>3 DEF onInterestLoop, Looped
    <3>2. Armed(e)
      BY ZenonT(60), SMTT(60), <1>2, <3>1, RecordsMeanArmed DEF HasDuplicateNonce
    <3>3. Sound(insert(e), up) /\ Kept(insert(e))
      BY ZenonT(60), <1>2, <3>2, InsertSound DEF Armed, Kept
    <3> HIDE DEF k, e
    <3> QED BY ZenonT(60), <1>1, <1>3, <2>1, <3>1, <3>3, OneEntry
  <2> QED BY <2>2, <2>3
<1>6. ASSUME NEW d \in Data, onContentStoreHit(f, i, d) PROVE IInv'
  <2> DEFINE n == insert(e)
             c == Answered(n, d.freshness, {f})
  <2>1. up' = up /\ cs' = cs /\ dead' = dead /\ pit' = [pit EXCEPT ![k] = c]
    BY ZenonT(60), <1>6 DEF onContentStoreHit, HitEntry, Answered
  <2>2. Sound(n, up) /\ n.live = TRUE
    BY ZenonT(60), <1>2, InsertSound
  <2> HIDE DEF n
  <2>3. d.freshness \in Nat
    OBVIOUS
  <2>4. Sound(c, up) /\ c.live = n.live /\ c.timer = 0
    BY <2>2, <2>3, AnsweredSound
  <2>5. Kept(c)
    BY <2>2, <2>4, NoneAssumption DEF Kept, Armed
  <2> HIDE DEF k, e, c
  <2> QED BY ZenonT(60), <1>1, <1>3, <2>1, <2>4, <2>5, OneEntry
<1>7. CASE onContentStoreMiss(f, i, AnyInterestDecision(i))
  <2> DEFINE m == Missed(e, f, i)
  <2>1. PICK d \in IF i.nextHop = None THEN AnyInterestDecision(i)
                   ELSE {SendTo({i.nextHop}, i.nonce)} :
          pit' = [pit EXCEPT ![k] = Decided(m, d, i.hopLimit, i.lifetime)]
    BY ZenonT(60), <1>7 DEF onContentStoreMiss, MissEntry, Missed
  <2>2. /\ up' = up /\ cs' = cs /\ dead' = dead
        /\ f \in up /\ ~HasDuplicateNonce(e, i.nonce, f)
    BY <1>7 DEF onContentStoreMiss, Accepted, Looped
  <2>3. Sound(m, up) /\ Armed(m)
    BY <1>1, <1>2, <2>2, MissSound
  <2> HIDE DEF m
  <2>4. \A u \in Face : d.nonce[u] \in Nonce
    BY <2>1 DEF AnyInterestDecision, SendTo
  <2>5. \A u \in Sendable(i.hopLimit, d.to) : d.nonce[u] \in Nonce
    BY <1>1, <2>4 DEF Sendable
  <2>6. i.lifetime \in 0 .. MaxLifetime
    OBVIOUS
  <2>7. /\ Sound(Decided(m, d, i.hopLimit, i.lifetime), up)
        /\ Armed(Decided(m, d, i.hopLimit, i.lifetime))
    BY <1>1, <2>3, <2>5, <2>6, DecidedSound
  <2> HIDE DEF k, e
  <2> QED BY ZenonT(60), <1>1, <1>3, <2>1, <2>2, <2>7, OneEntry DEF Kept
<1> QED BY <1>4, <1>5, <1>6, <1>7

\* The incoming Data pipeline keeps IInv: it answers every entry it matches.
LEMMA DataStep == IInv /\ IncomingData => IInv'
<1> SUFFICES ASSUME IInv, NEW f \in Face, NEW d \in Data,
                    \/ DropData(f, d)
                    \/ \E same \in BOOLEAN : onIncomingData(f, d, same)
                    \/ onDataUnsolicited(f, d)
             PROVE  IInv'
  BY ZenonT(60) DEF IncomingData
<1>1. /\ cs \in [Data -> {"absent", "stale", "fresh"}] /\ dead \subseteq Name \X Nonce
      /\ up \subseteq Face
  BY DEF IInv
<1>2. ASSUME NEW c \in CsInsert(d) PROVE c \in [Data -> {"absent", "stale", "fresh"}]
  BY <1>1, <1>2 DEF CsInsert
<1>3. CASE DropData(f, d)
  BY <1>1, <1>3, SameEntries DEF DropData
<1>4. CASE onDataUnsolicited(f, d)
  BY <1>1, <1>2, <1>4, SameEntries DEF onDataUnsolicited
<1>5. ASSUME NEW same \in BOOLEAN, onIncomingData(f, d, same) PROVE IInv'
  <2>1. PICK o \in MatchOrders(Matches(d)) :
          pit' = [k \in Key |-> IF k \in Matches(d)
                                THEN SatisfiedEntry(k, d, f, SatisfiedUpTo(o, k))
                                ELSE pit[k]]
    BY <1>5 DEF onIncomingData
  <2>2. /\ up' = up /\ cs' \in CsInsert(d)
        /\ dead' = dead \cup UNION {DeadBySatisfying(k, f) : k \in Matches(d)}
    BY <1>5 DEF onIncomingData
  <2>3. ASSUME NEW k \in Key, k \in Matches(d)
        PROVE  /\ Sound(SatisfiedEntry(k, d, f, SatisfiedUpTo(o, k)), up)
               /\ Kept(SatisfiedEntry(k, d, f, SatisfiedUpTo(o, k)))
    <3> DEFINE e == pit[k]
               S == SatisfiedUpTo(o, k)
               a == Answered(e, d.freshness, S)
               r == deleteOutRecord(a, f)
    <3>1. Sound(e, up) /\ Kept(e) /\ e.live
      BY <2>3 DEF IInv, Matches
    <3>2. Armed(e)
      BY <3>1 DEF Kept, Absent, Armed
    <3>3. d.freshness \in Nat
      OBVIOUS
    <3>4. Sound(a, up) /\ a.live = e.live /\ a.timer = 0
      <4> HIDE DEF e, S
      <4> QED BY ZenonT(60), <3>1, <3>3, AnsweredSound
    <3>5. SatisfiedEntry(k, d, f, S) = r
      BY DEF SatisfiedEntry, Answered
    <3> HIDE DEF a
    <3>6. Sound(r, up) /\ r.live = a.live /\ r.timer = a.timer
      BY SMTT(60), ZenonT(60), <3>4, DeleteOutSound
    <3> HIDE DEF r
    <3>7. Kept(r)
      BY <3>2, <3>4, <3>6, NoneAssumption DEF Kept, Armed
    <3> QED BY ZenonT(60), SMTT(60), <3>5, <3>6, <3>7
  <2>4. ASSUME NEW k \in Key PROVE Sound(pit'[k], up) /\ Kept(pit'[k])
    <3>1. CASE k \in Matches(d)
      <4>1. pit'[k] = SatisfiedEntry(k, d, f, SatisfiedUpTo(o, k))
        BY <2>1, <3>1
      <4> QED BY <2>3, <3>1, <4>1
    <3>2. CASE k \notin Matches(d)
      <4>1. pit'[k] = pit[k]
        BY <2>1, <3>2
      <4> QED BY <4>1 DEF IInv
    <3> QED BY <3>1, <3>2
  <2>5. DOMAIN pit' = Key /\ pit' = [k \in Key |-> pit'[k]]
    BY <2>1
  <2>6. ASSUME NEW k \in Key PROVE DeadBySatisfying(k, f) \subseteq Name \X Nonce
    <3>1. pit[k] \in Entry
      BY DEF IInv, Sound
    <3>2. [pit[k] EXCEPT !.isSatisfied = TRUE] \in Entry
      BY ZenonT(60), <3>1 DEF Entry
    <3> QED BY <3>2, DeadNoncesType DEF DeadBySatisfying
  <2>7. dead' \subseteq Name \X Nonce
    <3>1. Matches(d) \subseteq Key
      BY DEF Matches
    <3>2. \A p \in dead' : p \in dead \/ \E k \in Key : p \in DeadBySatisfying(k, f)
      BY <2>2, <3>1
    <3> QED BY <1>1, <2>6, <3>2
  <2> QED BY <1>1, <1>2, <2>2, <2>4, <2>5, <2>7 DEF IInv
<1> QED BY <1>3, <1>4, <1>5

\* The incoming Nack pipeline keeps IInv.
LEMMA NackStep == IInv /\ IncomingNack => IInv'
<1> SUFFICES ASSUME IInv, NEW f \in Face, NEW k \in Key, NEW nonce \in Nonce,
                    \/ DropNack(f, k, nonce)
                    \/ \E r \in Reason : onIncomingNack(f, k, nonce, r, AnyNackDecision)
             PROVE  IInv'
  BY DEF IncomingNack
<1>1. /\ cs \in [Data -> {"absent", "stale", "fresh"}] /\ dead \subseteq Name \X Nonce
      /\ up \subseteq Face
  BY DEF IInv
<1>2. CASE DropNack(f, k, nonce)
  BY <1>1, <1>2, SameEntries DEF DropNack
<1>3. ASSUME NEW r \in Reason, onIncomingNack(f, k, nonce, r, AnyNackDecision)
      PROVE  IInv'
  <2> DEFINE e == NackedEntry(k, f, r)
  <2>1. PICK d \in AnyNackDecision : pit' = [pit EXCEPT ![k] = Decided(e, d, 2, 0)]
    BY ZenonT(60), <1>3 DEF onIncomingNack
  <2>2. up' = up /\ cs' = cs /\ dead' = dead /\ f \in Upstreams(pit[k])
    BY <1>3 DEF onIncomingNack, AnswersOutRecord
  <2>3. Sound(pit[k], up) /\ Armed(pit[k])
    BY <2>2, RecordsMeanArmed DEF IInv
  <2>4. Sound(e, up) /\ Armed(e)
    BY <2>2, <2>3, NackedSound
  <2>5. d.to = {}
    BY SMTT(60), ZenonT(60), <2>1 DEF AnyNackDecision, NackTo
  <2>6. \A u \in Sendable(2, d.to) : d.nonce[u] \in Nonce
    BY <2>5 DEF Sendable
  <2>7. 0 \in 0 .. MaxLifetime
    OBVIOUS
  <2> HIDE DEF e
  <2>8. Sound(Decided(e, d, 2, 0), up) /\ Armed(Decided(e, d, 2, 0))
    BY <1>1, <2>4, <2>6, <2>7, DecidedSound
  <2> QED BY ZenonT(60), <1>1, <2>1, <2>2, <2>8, OneEntry DEF Kept
<1> QED BY <1>2, <1>3

\* Interests that a strategy sends later keep IInv.
LEMMA StrategyStep == IInv /\ StrategyEvent => IInv'
<1> SUFFICES ASSUME IInv, NEW i \in Interest, NEW U \in SUBSET Face, sendLater(i, U)
             PROVE  IInv'
  BY DEF StrategyEvent
<1> DEFINE k == KeyOf(i)
           e == pit[k]
           d == SendTo(U, i.nonce)
           r == Decided(e, d, i.hopLimit, i.lifetime)
<1>1. k \in Key /\ up \subseteq Face /\ cs \in [Data -> {"absent", "stale", "fresh"}]
      /\ dead \subseteq Name \X Nonce
  BY KeyFacts DEF IInv
<1>2. /\ up' = up /\ cs' = cs /\ dead' = dead /\ pit' = [pit EXCEPT ![k] = r]
      /\ Downstreams(e) # {}
  BY DEF sendLater
<1>3. Sound(e, up) /\ Armed(e)
  BY <1>1, <1>2, RecordsMeanArmed DEF IInv
<1>4. \A u \in Sendable(i.hopLimit, d.to) : d.nonce[u] \in Nonce
  BY <1>1 DEF Sendable, SendTo
<1>5. i.lifetime \in 0 .. MaxLifetime
  OBVIOUS
<1> HIDE DEF k, e, d
<1>6. Sound(r, up) /\ Armed(r)
  BY <1>1, <1>3, <1>4, <1>5, DecidedSound
<1> HIDE DEF r
<1> QED BY ZenonT(60), <1>1, <1>2, <1>6, OneEntry DEF Kept

\* Removing the records of a face leaves no reference to it.
LEMMA CleanupSound ==
    ASSUME NEW U, NEW e, NEW f \in Face, Sound(e, U), Kept(e)
    PROVE  /\ Sound(deleteOutRecord(deleteInRecords(e, {f}), f), U \ {f})
           /\ Kept(deleteOutRecord(deleteInRecords(e, {f}), f))
<1> DEFINE S == {f}
           a == deleteInRecords(e, S)
           r == deleteOutRecord(a, f)
<1>1. Sound(a, U) /\ a.live = e.live /\ a.timer = e.timer
      /\ Downstreams(a) = Downstreams(e) \ S
  <2> HIDE DEF S
  <2> QED BY ZenonT(60), DeleteInSound
<1> DEFINE none == [g \in Face |-> None]
<1>0. Absent.in = none /\ Absent.out = none
      /\ [Absent EXCEPT !.in = none] = Absent /\ [Absent EXCEPT !.out = none] = Absent
  <2>1. Absent.in = none /\ Absent.out = none
    BY DEF Absent
  <2>2. [Absent EXCEPT !.in = Absent.in] = Absent
    BY ZenonT(60) DEF Absent
  <2>3. [Absent EXCEPT !.out = Absent.out] = Absent
    BY ZenonT(60) DEF Absent
  <2> HIDE DEF none
  <2> QED BY <2>1, <2>2, <2>3
<1>2. ASSUME e = Absent PROVE a = Absent
  <2>1. [g \in Face |-> IF g \in S THEN None ELSE e.in[g]] = none
    BY <1>0, <1>2
  <2> HIDE DEF none
  <2> QED BY <1>0, <1>2, <2>1 DEF deleteInRecords
<1> HIDE DEF a
<1>3. Sound(r, U) /\ r.live = a.live /\ r.timer = a.timer /\ r.in = a.in
      /\ Upstreams(r) = Upstreams(a) \ {f}
  BY <1>1, DeleteOutSound
<1>4. ASSUME a = Absent PROVE r = Absent
  <2>1. [a.out EXCEPT ![f] = None] = none
    BY <1>0, <1>4
  <2> HIDE DEF none
  <2> QED BY <1>0, <1>4, <2>1 DEF deleteOutRecord
<1> HIDE DEF r
<1>5. Downstreams(r) = Downstreams(e) \ {f}
  BY <1>1, <1>3 DEF Downstreams
<1>6. Sound(r, U \ {f})
  BY <1>3, <1>5 DEF Sound
<1>7. Kept(r)
  BY <1>1, <1>2, <1>3, <1>4 DEF Kept, Armed
<1> QED BY <1>6, <1>7 DEF r, a

\* Faces that come and go, and packets and nonces that age, keep IInv.
LEMMA EnvironmentStep == IInv /\ Environment => IInv'
<1> SUFFICES ASSUME IInv, Environment PROVE IInv'
  OBVIOUS
<1>1. /\ cs \in [Data -> {"absent", "stale", "fresh"}] /\ dead \subseteq Name \X Nonce
      /\ up \subseteq Face
  BY DEF IInv
<1>2. ASSUME NEW f \in Face, removeFace(f) PROVE IInv'
  <2>1. /\ up' = up \ {f} /\ cs' = cs /\ dead' = dead
        /\ pit' = [k \in Key |-> deleteOutRecord(deleteInRecords(pit[k], {f}), f)]
    BY <1>2 DEF removeFace
  <2>2. ASSUME NEW k \in Key PROVE Sound(pit'[k], up') /\ Kept(pit'[k])
    <3>1. pit'[k] = deleteOutRecord(deleteInRecords(pit[k], {f}), f)
      BY <2>1
    <3>2. Sound(pit[k], up) /\ Kept(pit[k])
      BY DEF IInv
    <3> QED BY <2>1, <3>1, <3>2, CleanupSound
  <2>3. DOMAIN pit' = Key /\ pit' = [k \in Key |-> pit'[k]]
    BY <2>1
  <2> QED BY ZenonT(60), <1>1, <2>1, <2>2, <2>3 DEF IInv
<1>3. ASSUME NEW f \in Face, addFace(f) PROVE IInv'
  <2>1. up' = up \cup {f} /\ cs' = cs /\ dead' = dead /\ pit' = pit
    BY <1>3 DEF addFace
  <2>2. ASSUME NEW k \in Key PROVE Sound(pit[k], up') /\ Kept(pit[k])
    BY <2>1 DEF IInv, Sound
  <2> QED BY ZenonT(60), <1>1, <2>1, <2>2 DEF IInv
<1>4. ASSUME NEW d \in Data, ageOrEvict(d) PROVE IInv'
  <2>1. cs' \in [Data -> {"absent", "stale", "fresh"}]
    BY <1>1, <1>4 DEF ageOrEvict
  <2> QED BY <1>1, <1>4, <2>1, SameEntries DEF ageOrEvict
<1>5. ASSUME NEW p \in dead, forget(p) PROVE IInv'
  BY <1>1, <1>5, SameEntries DEF forget
<1> QED BY <1>2, <1>3, <1>4, <1>5 DEF Environment

\* The expiry timer removes a whole entry.
LEMMA FinalizeStep == IInv /\ Finalize => IInv'
<1> SUFFICES ASSUME IInv, NEW k \in Key, onInterestFinalize(k) PROVE IInv'
  BY DEF Finalize
<1>1. /\ pit' = [pit EXCEPT ![k] = Absent] /\ up' = up /\ cs' = cs
      /\ dead' = dead \cup DeadNonces(k, pit[k], Face)
  BY DEF onInterestFinalize
<1>2. pit[k] \in Entry
  BY DEF IInv, Sound
<1>3. DeadNonces(k, pit[k], Face) \subseteq Name \X Nonce
  BY <1>2, DeadNoncesType
<1>4. /\ dead' \subseteq Name \X Nonce
      /\ cs' \in [Data -> {"absent", "stale", "fresh"}]
  BY <1>1, <1>3 DEF IInv
<1>5. Sound(Absent, up) /\ Kept(Absent)
  BY AbsentSound DEF Kept
<1> QED BY ZenonT(60), <1>1, <1>4, <1>5, OneEntry

\* Time passes only while no timer is due.
LEMMA TickStep == IInv /\ Tick => IInv'
<1> SUFFICES ASSUME IInv, Tick PROVE IInv'
  OBVIOUS
<1>1. /\ up' = up /\ cs' = cs /\ dead' = dead
      /\ pit' = [k \in Key |-> Older(pit[k])]
      /\ \A k \in Key : pit[k].timer # 0
  BY DEF Tick
<1>2. ASSUME NEW k \in Key PROVE Sound(pit'[k], up) /\ Kept(pit'[k])
  <2>1. Sound(pit[k], up) /\ Kept(pit[k]) /\ pit[k].timer # 0
    BY <1>1 DEF IInv
  <2>2. pit'[k] = Older(pit[k])
    BY <1>1
  <2> QED BY <2>1, <2>2, OlderSound
<1>3. DOMAIN pit' = Key /\ pit' = [k \in Key |-> pit'[k]]
  BY <1>1
<1> QED BY <1>1, <1>2, <1>3 DEF IInv

-----------------------------------------------------------------------------
\* IInv holds when the forwarder starts.
LEMMA IInvInit == Init => IInv
<1> SUFFICES ASSUME Init PROVE IInv
  OBVIOUS
<1>1. ASSUME NEW k \in Key PROVE Sound(pit[k], up) /\ Kept(pit[k])
  <2>1. pit[k] = Absent
    BY DEF Init
  <2> QED BY <2>1, AbsentSound DEF Kept
<1> QED BY <1>1 DEF Init, IInv

\* No step breaks IInv.
LEMMA IInvStep == IInv /\ [Next]_vars => IInv'
<1>1. IInv /\ UNCHANGED vars => IInv'
  BY DEF IInv, vars
<1> QED BY <1>1, InterestStep, DataStep, NackStep, StrategyStep, EnvironmentStep,
           FinalizeStep, TickStep DEF Next

\* The entry that onContentStoreMiss gives the strategy is sound.
LEMMA MissTyped ==
    ASSUME IInv, NEW f \in Face, NEW i \in Interest, Accepted(f, i), ~Looped(f, i)
    PROVE  Sound(MissEntry(f, i), up) /\ Armed(MissEntry(f, i))
<1>1. up \subseteq Face /\ f \in up /\ Sound(pit[KeyOf(i)], up)
  BY KeyFacts DEF IInv, Accepted
<1>2. ~HasDuplicateNonce(pit[KeyOf(i)], i.nonce, f)
  BY DEF Looped
<1>3. MissEntry(f, i) = Missed(pit[KeyOf(i)], f, i)
  BY DEF MissEntry, Missed
<1> QED BY <1>1, <1>2, <1>3, MissSound

\* IInv holds in every reachable state of the forwarder, for any strategy.
THEOREM InductiveInvariant == Spec => []IInv
BY IInvInit, IInvStep, PTL DEF Spec

\* Type correctness of the PIT, the FaceTable, the Dead Nonce List and the
\* Content Store after any sequence of packets, face changes and timers.
THEOREM TypeCorrect == Spec => []TypeOK
<1>1. IInv => TypeOK
  <2> SUFFICES ASSUME IInv PROVE TypeOK
    OBVIOUS
  <2>1. \A k \in Key : pit[k] \in Entry
    BY DEF IInv, Sound
  <2>2. pit \in [Key -> Entry]
    BY <2>1 DEF IInv
  <2> QED BY <2>2 DEF IInv, TypeOK
<1> QED BY <1>1, InductiveInvariant, PTL

\* No pipeline leaves an entry in the PIT without an expiry timer, and none
\* leaves records behind when it takes an entry out.
THEOREM PitNeverLeaks == Spec => []NoLeak
<1>1. IInv => NoLeak
  <2> SUFFICES ASSUME IInv, NEW k \in Key
               PROVE  IF pit[k].live THEN pit[k].timer # None ELSE pit[k] = Absent
    BY DEF NoLeak
  <2>1. Kept(pit[k])
    BY DEF IInv
  <2>2. ~Absent.live
    BY DEF Absent
  <2> QED BY <2>1, <2>2 DEF Kept, Armed
<1> QED BY <1>1, InductiveInvariant, PTL

\* setExpiryTimer never cuts a waiting downstream short: a timer that is not
\* due outlasts every in-record.
THEOREM TimerCovers == Spec => []TimerCoversInRecords
<1>1. IInv => TimerCoversInRecords
  BY DEF IInv, Sound, Covered, TimerCoversInRecords
<1> QED BY <1>1, InductiveInvariant, PTL

\* cleanupOnFaceRemoval and the pipelines keep every record's Face alive.
THEOREM RecordsNeverDangle == Spec => []NoDanglingRecords
<1>1. IInv => NoDanglingRecords
  BY DEF IInv, Sound, NoDanglingRecords
<1> QED BY <1>1, InductiveInvariant, PTL

\* findDuplicateNonce keeps the nonces of an entry's in-records apart.
THEOREM NoncesDistinct == Spec => []DistinctInNonces
<1>1. IInv => DistinctInNonces
  BY DEF IInv, Sound, Unrepeated, DistinctInNonces
<1> QED BY <1>1, InductiveInvariant, PTL

-----------------------------------------------------------------------------
\* What the packets of one step say: the action properties.

\* Pit::insert finds the entry that is there.
LEMMA InsertLive ==
    ASSUME NEW e \in Entry, e.live = TRUE
    PROVE  insert(e) = e
<1>1. e = [live |-> e.live, in |-> e.in, out |-> e.out, timer |-> e.timer,
           isSatisfied |-> e.isSatisfied, dataFreshnessPeriod |-> e.dataFreshnessPeriod]
  BY DEF Entry
<1>2. insert(e) = [live |-> TRUE, in |-> e.in, out |-> e.out, timer |-> e.timer,
           isSatisfied |-> e.isSatisfied, dataFreshnessPeriod |-> e.dataFreshnessPeriod]
  BY ZenonT(60) DEF Entry, insert
<1> QED BY <1>1, <1>2

\* An Interest that loops leaves the PIT as it was: the entry in which its nonce
\* was found is there already.
LEMMA LoopKeepsPit ==
    ASSUME IInv, NEW f \in Face, NEW i \in Interest, onInterestLoop(f, i)
    PROVE  pit' = pit
<1>1. CASE InDnl(i)
  BY <1>1 DEF onInterestLoop
<1>2. CASE ~InDnl(i)
  <2> DEFINE k == KeyOf(i)
             e == pit[k]
  <2>1. k \in Key
    BY KeyFacts
  <2>2. Sound(e, up) /\ Kept(e) /\ e \in Entry
    BY <2>1 DEF IInv, Sound
  <2>3. HasDuplicateNonce(e, i.nonce, f)
    BY <1>2 DEF onInterestLoop, Looped
  <2>4. Downstreams(e) # {} \/ Upstreams(e) # {}
    BY <2>3 DEF HasDuplicateNonce
  <2>5. Armed(e)
    BY <2>2, <2>4, RecordsMeanArmed
  <2>6. e.live = TRUE
    BY <2>5 DEF Armed
  <2>7. insert(e) = e
    BY ZenonT(60), <2>2, <2>6, InsertLive
  <2>8. pit' = [pit EXCEPT ![k] = insert(e)]
    BY <1>2 DEF onInterestLoop
  <2>9. pit = [j \in Key |-> pit[j]]
    BY DEF IInv
  <2> HIDE DEF k
  <2> QED BY <2>1, <2>7, <2>8, <2>9
<1> QED BY <1>1, <1>2

\* A Nack that a strategy sends goes to a downstream of the entry, with the nonce
\* of its in-record, and takes that in-record away.
NackedBack(p, k, e, r) ==
    p.type = "Nack" => /\ p.key = k /\ p.face \in Downstreams(e)
                       /\ p.nonce = e.in[p.face].nonce
                       /\ p.face \notin Downstreams(r)

LEMMA DecidedNacks ==
    ASSUME NEW k, NEW e \in Entry, NEW d, NEW hopLimit, NEW lifetime,
           NEW p \in DecidedSent(k, e, d, hopLimit)
    PROVE  NackedBack(p, k, e, Decided(e, d, hopLimit, lifetime))
<1> DEFINE e1 == insertOrUpdateOutRecords(e, Sendable(hopLimit, d.to), d.nonce, lifetime)
           N == Nackable(e, d.nack)
           e2 == deleteInRecords(e1, N)
           r == Decided(e, d, hopLimit, lifetime)
<1>1. ASSUME NEW u \in Sendable(hopLimit, d.to), p = OutInterest(k, u, d.nonce[u])
      PROVE  p.type # "Nack"
  BY <1>1 DEF OutInterest
<1>2. ASSUME NEW g \in N, p = OutNack(k, g, e.in[g].nonce, d.reason)
      PROVE  NackedBack(p, k, e, r)
  <2>1. p.key = k /\ p.face = g /\ p.nonce = e.in[g].nonce
    BY <1>2 DEF OutNack
  <2>2. g \in Downstreams(e) /\ g \in Face
    BY <1>2 DEF Nackable, Downstreams
  <2>3. DOMAIN e1 = DOMAIN e
    BY DEF insertOrUpdateOutRecords
  <2>4. "in" \in DOMAIN e1 /\ "timer" # "in"
    BY <2>3 DEF Entry
  <2>5. e2.in[g] = None
    <3> HIDE DEF e1, N
    <3> QED BY <1>2, <2>2, <2>4 DEF deleteInRecords
  <2>6. r = IF d.reject THEN [e2 EXCEPT !.timer = 0] ELSE e2
    BY DEF Decided
  <2>7. [e2 EXCEPT !.timer = 0].in = e2.in
    <3>1. DOMAIN e2 = DOMAIN e1
      BY DEF deleteInRecords
    <3> HIDE DEF e2
    <3> QED BY <2>4, <3>1
  <2>8. r.in = e2.in
    <3> HIDE DEF e2, r
    <3> QED BY <2>6, <2>7
  <2>9. g \notin Downstreams(r)
    <3> HIDE DEF e2, r
    <3> QED BY <2>5, <2>8 DEF Downstreams
  <2> HIDE DEF r
  <2> QED BY <2>1, <2>2, <2>9 DEF NackedBack
<1>3. \/ \E u \in Sendable(hopLimit, d.to) : p = OutInterest(k, u, d.nonce[u])
      \/ \E g \in N : p = OutNack(k, g, e.in[g].nonce, d.reason)
  BY DEF DecidedSent
<1> QED BY <1>1, <1>2, <1>3 DEF NackedBack

\* Strategies send Interests and Nacks, never Data.
LEMMA DecidedNoData ==
    ASSUME NEW k, NEW e, NEW d, NEW hopLimit,
           NEW p \in DecidedSent(k, e, d, hopLimit)
    PROVE  p.type # "Data"
BY DEF DecidedSent, OutInterest, OutNack

\* A decision that nacks nobody sends Interests only.
LEMMA DecidedInterests ==
    ASSUME NEW k, NEW e, NEW d, NEW hopLimit, Nackable(e, d.nack) = {},
           NEW p \in DecidedSent(k, e, d, hopLimit)
    PROVE  p.type = "Interest"
BY DEF DecidedSent, OutInterest

\* The two action properties as statements about one step.
LoopNack(p) ==
    /\ p.reason = DUPLICATE /\ UNCHANGED pit
    /\ \E i \in Interest : /\ KeyOf(i) = p.key /\ i.nonce = p.nonce
                           /\ onInterestLoop(p.face, i)

NoOtherArrives(p) ==
    \A i \in Interest : KeyOf(i) = p.key /\ i.nonce # p.nonce => ~Arrives(p.face, i)

WaitedWith(p) ==
    /\ p.face \in Downstreams(pit[p.key])
    /\ pit[p.key].in[p.face].nonce = p.nonce

ArrivesWith(p) ==
    \E i \in Interest : /\ KeyOf(i) = p.key /\ i.nonce = p.nonce
                        /\ Arrives(p.face, i)

NackOk(p) ==
    p.type = "Nack" =>
        \/ LoopNack(p)
        \/ /\ p.face \notin Downstreams(pit'[p.key])
           /\ NoOtherArrives(p)
           /\ WaitedWith(p) \/ ArrivesWith(p)

HitData(p) ==
    /\ sent' = {p}
    /\ \E i \in Interest : /\ onContentStoreHit(p.face, i, p.data)
                           /\ pit'[KeyOf(i)].isSatisfied
                           /\ Downstreams(pit'[KeyOf(i)]) = {}

DataOk(p) ==
    p.type = "Data" =>
        \/ /\ \E k \in Matches(p.data) : p.face \in Pending(pit[k])
           /\ \A k \in Matches(p.data) : p.face \notin Pending(pit'[k])
        \/ HitData(p)

\* What outgoingData sends.
LEMMA OutgoingDataFacts ==
    ASSUME NEW d, NEW S, NEW p \in outgoingData(d, S)
    PROVE  p.type = "Data" /\ p.data = d /\ p.face \in S
BY DEF outgoingData

\* The Content Store answers the arriving Interest only, and closes its entry.
LEMMA HitDataOk ==
    ASSUME IInv, NEW f \in Face, NEW i \in Interest, NEW d \in Data,
           onContentStoreHit(f, i, d), NEW p \in sent'
    PROVE  DataOk(p)
<1> DEFINE k == KeyOf(i)
           e == insert(pit[k])
           e1 == [e EXCEPT !.timer = 0, !.isSatisfied = TRUE,
                           !.dataFreshnessPeriod = d.freshness]
<1>1. k \in Key
  BY KeyFacts
<1>2. p.data = d /\ p.face = f
  BY OutgoingDataFacts DEF onContentStoreHit
<1>3. sent' = {p}
  <2>1. sent' = outgoingData(d, {f})
    BY DEF onContentStoreHit
  <2>2. ASSUME NEW q \in outgoingData(d, {f})
        PROVE  q = [type |-> "Data", face |-> f, data |-> d]
    BY <2>2 DEF outgoingData
  <2> QED BY <2>1, <2>2
<1>5. pit'[k] = deleteInRecords(e1, {f})
  BY <1>1 DEF onContentStoreHit, HitEntry, IInv
<1>6. pit[k] \in Entry
  BY <1>1 DEF IInv, Sound
<1>7. e \in Entry /\ e.in = pit[k].in
  BY ZenonT(60), <1>6 DEF insert, Entry
<1>8. /\ DOMAIN e1 = {"live", "in", "out", "timer", "isSatisfied", "dataFreshnessPeriod"}
      /\ e1.in = pit[k].in /\ e1.isSatisfied = TRUE
  <2> HIDE DEF e
  <2> QED BY <1>7 DEF Entry
<1>9. pit'[k].isSatisfied = TRUE
      /\ \A g \in Face : pit'[k].in[g] = IF g \in {f} THEN None ELSE pit[k].in[g]
  <2> HIDE DEF e1
  <2> QED BY <1>5, <1>8 DEF deleteInRecords
<1>10. Downstreams(pit'[k]) = {}
  <2>1. \A g \in Face : pit[k].in[g] = None
    BY DEF onContentStoreHit, Downstreams
  <2>2. \A g \in Face : pit'[k].in[g] = None
    BY <1>9, <2>1
  <2> QED BY <2>2 DEF Downstreams
<1>11. onContentStoreHit(p.face, i, p.data)
  BY <1>2
<1>12. HitData(p)
  BY ZenonT(60), SMTT(60), <1>3, <1>9, <1>10, <1>11 DEF HitData
<1> QED BY <1>12 DEF DataOk

\* Every downstream that Data is sent to loses its unexpired in-record in every
\* entry the Data matches, whatever order the entries are processed in.
LEMMA AnswerDataOk ==
    ASSUME IInv, NEW f \in Face, NEW d \in Data, NEW same,
           onIncomingData(f, d, same), NEW p \in sent'
    PROVE  DataOk(p)
<1> DEFINE U == UNION {Pending(pit[k]) : k \in Matches(d)}
<1>1. p.data = d /\ p.face \in U
  <2>1. PICK S \in SUBSET U : sent' = outgoingData(d, S)
    <3> DEFINE V == {g \in U : g # f \/ ~same \/ g \in AdHoc}
    <3>1. sent' = outgoingData(d, V)
      BY ZenonT(60), SMTT(60) DEF onIncomingData
    <3> QED BY ZenonT(60), SMTT(60), <3>1
  <2> HIDE DEF U
  <2>2. p \in outgoingData(d, S)
    BY ZenonT(60), SMTT(60), <2>1
  <2> QED BY ZenonT(60), SMTT(60), <2>2, OutgoingDataFacts
<1>2. \E k \in Matches(d) : p.face \in Pending(pit[k])
  BY ZenonT(60), SMTT(60), <1>1
<1>3. PICK o \in MatchOrders(Matches(d)) :
         pit' = [k \in Key |-> IF k \in Matches(d)
                               THEN SatisfiedEntry(k, d, f, SatisfiedUpTo(o, k))
                               ELSE pit[k]]
  BY DEF onIncomingData
<1>4. ASSUME NEW k \in Matches(d), p.face \in Pending(pit'[k])
      PROVE  FALSE
  <2> DEFINE S == SatisfiedUpTo(o, k)
             e1 == [pit[k] EXCEPT !.timer = 0, !.isSatisfied = TRUE,
                                  !.dataFreshnessPeriod = d.freshness]
             e2 == deleteInRecords(e1, S)
  <2>1. k \in Key
    BY DEF Matches
  <2>2. pit'[k] = deleteOutRecord(e2, f)
    BY ZenonT(60), <1>3, <2>1 DEF SatisfiedEntry
  <2>3. pit[k] \in Entry
    BY <2>1 DEF IInv, Sound
  <2>4. /\ DOMAIN e1 = {"live", "in", "out", "timer", "isSatisfied", "dataFreshnessPeriod"}
        /\ e1.in = pit[k].in
    BY <2>3 DEF Entry
  <2>5. /\ DOMAIN e2 = DOMAIN e1
        /\ e2.in = [g \in Face |-> IF g \in S THEN None ELSE pit[k].in[g]]
    <3> HIDE DEF e1, S
    <3> QED BY <2>4 DEF deleteInRecords
  <2>6. pit'[k].in = e2.in
    <3> HIDE DEF e2
    <3> QED BY <2>2, <2>4, <2>5 DEF deleteOutRecord
  <2>7. p.face \in Face /\ pit'[k].in[p.face] # None /\ pit'[k].in[p.face].ttl > 0
    BY <1>4 DEF Pending, Downstreams
  <2>8. p.face \notin S /\ p.face \in Pending(pit[k])
    <3> HIDE DEF S, e2
    <3> QED BY <2>5, <2>6, <2>7 DEF Pending, Downstreams
  <2>9. k \in DOMAIN o /\ o[k] =< o[k]
    <3>1. o \in [Matches(d) -> 1 .. Cardinality(Matches(d))]
      BY DEF MatchOrders
    <3>2. o[k] \in Int
      BY <3>1
    <3> QED BY <3>1, <3>2
  <2>10. Pending(pit[k]) \subseteq S
    BY <2>9 DEF SatisfiedUpTo
  <2> QED BY <2>8, <2>10
<1> QED BY <1>1, <1>2, <1>4 DEF DataOk

\* What the strategy decides for an Interest arriving from f nacks f with the
\* nonce of that Interest, and other faces with the nonce they waited with.
MissNacked(p, f, i) ==
    /\ p.key = KeyOf(i) /\ p.face \notin Downstreams(pit'[p.key])
    /\ p.face = f => p.nonce = i.nonce
    /\ p.face # f => WaitedWith(p)

LEMMA MissNacks ==
    ASSUME IInv, NEW f \in Face, NEW i \in Interest, NEW D,
           onContentStoreMiss(f, i, D), NEW p \in sent'
    PROVE  p.type # "Data" /\ (p.type = "Nack" => MissNacked(p, f, i))
<1> DEFINE k == KeyOf(i)
           e == MissEntry(f, i)
<1>1. k \in Key
  BY KeyFacts
<1>2. e \in Entry
  BY MissTyped DEF onContentStoreMiss, Sound
<1>3. \A g \in Face : e.in[g] = IF g = f THEN [nonce |-> i.nonce, ttl |-> i.lifetime]
                                ELSE pit[k].in[g]
  <2> DEFINE e0 == insert(pit[k])
             e1 == insertOrUpdateInRecord(e0, f, i)
  <2>1. pit[k] \in Entry
    BY <1>1 DEF IInv, Sound
  <2>2. e0 \in Entry /\ e0.in = pit[k].in
    BY ZenonT(60), <2>1 DEF insert, Entry
  <2> HIDE DEF e0
  <2>3. /\ e1.in = [e0.in EXCEPT ![f] = [nonce |-> i.nonce, ttl |-> i.lifetime]]
        /\ DOMAIN e1 = {"live", "in", "out", "timer", "isSatisfied", "dataFreshnessPeriod"}
        /\ DOMAIN e0.in = Face
    BY <2>2 DEF insertOrUpdateInRecord, Entry
  <2>4. e = [e1 EXCEPT !.timer = duration_cast(LastExpiry(e1))]
    BY DEF MissEntry, e0
  <2>5. e.in = e1.in
    <3> HIDE DEF e1, e
    <3> QED BY <2>3, <2>4
  <2> HIDE DEF e1, e
  <2> QED BY <2>2, <2>3, <2>5
<1> HIDE DEF e
<1>4. PICK d : /\ sent' = DecidedSent(k, e, d, i.hopLimit)
               /\ pit' = [pit EXCEPT ![k] = Decided(e, d, i.hopLimit, i.lifetime)]
  BY ZenonT(60) DEF onContentStoreMiss, e
<1>5. pit'[k] = Decided(e, d, i.hopLimit, i.lifetime)
  BY <1>1, <1>4 DEF IInv
<1>6. NackedBack(p, k, e, pit'[k])
  BY <1>2, <1>4, <1>5, DecidedNacks
<1>7. p.type # "Data"
  BY <1>4, DecidedNoData
<1>8. ASSUME p.type = "Nack" PROVE MissNacked(p, f, i)
  <2>1. p.key = k /\ p.face \in Downstreams(e) /\ p.nonce = e.in[p.face].nonce
        /\ p.face \notin Downstreams(pit'[k])
    BY <1>6, <1>8 DEF NackedBack
  <2>2. p.face \in Face /\ e.in[p.face] # None
    BY <2>1 DEF Downstreams
  <2>3. ASSUME p.face = f PROVE p.nonce = i.nonce
    <3>1. e.in[f] = [nonce |-> i.nonce, ttl |-> i.lifetime]
      BY <1>3
    <3> QED BY <2>1, <2>3, <3>1
  <2>4. ASSUME p.face # f PROVE WaitedWith(p)
    <3>1. e.in[p.face] = pit[k].in[p.face]
      BY <1>3, <2>2, <2>4
    <3>2. p.face \in Downstreams(pit[k]) /\ pit[k].in[p.face].nonce = p.nonce
      BY <2>1, <2>2, <3>1 DEF Downstreams
    <3> HIDE DEF k
    <3> QED BY ZenonT(60), SMTT(60), <2>1, <3>2 DEF WaitedWith
  <2> QED BY ZenonT(60), SMTT(60), <2>1, <2>3, <2>4 DEF MissNacked
<1> QED BY <1>7, <1>8

\* No Interest with another nonce than the Nack's arrives from the Nack's face in
\* this step: its arrival would have renewed the in-record.
LEMMA NoneOtherArrives ==
    ASSUME IInv, NEW p \in sent', p.type = "Nack"
    PROVE  NoOtherArrives(p)
<1>1. SUFFICES ASSUME NEW i \in Interest, i.nonce # p.nonce, Arrives(p.face, i)
               PROVE  FALSE
  BY DEF NoOtherArrives
<1>2. onContentStoreMiss(p.face, i, AnyInterestDecision(i))
  BY <1>1 DEF Arrives
<1>3. p.face \in Face
  BY <1>2 DEF onContentStoreMiss, Accepted, IInv
<1>4. MissNacked(p, p.face, i)
  BY ZenonT(60), SMTT(60), <1>2, <1>3, MissNacks
<1> QED BY <1>1, <1>4 DEF MissNacked

\* A Nack to a downstream that waited with the Nack's nonce and no longer does.
LEMMA ReturnedToWaiting ==
    ASSUME IInv, NEW p \in sent', p.face \notin Downstreams(pit'[p.key]), WaitedWith(p)
    PROVE  NackOk(p)
BY ZenonT(60), SMTT(60), NoneOtherArrives DEF NackOk

\* A Nack that returns an arriving Interest.
LEMMA ReturnedToNew ==
    ASSUME IInv, NEW p \in sent', p.face \notin Downstreams(pit'[p.key]), ArrivesWith(p)
    PROVE  NackOk(p)
BY ZenonT(60), SMTT(60), NoneOtherArrives DEF NackOk

\* What the strategy decides for an arriving Interest nacks it or Interests that
\* were waiting with it.
LEMMA MissNackOk ==
    ASSUME IInv, NEW f \in Face, NEW i \in Interest, Arrives(f, i), NEW p \in sent'
    PROVE  NackOk(p) /\ p.type # "Data"
<1>1. onContentStoreMiss(f, i, AnyInterestDecision(i))
  BY DEF Arrives
<1>2. p.type # "Data" /\ (p.type = "Nack" => MissNacked(p, f, i))
  BY ZenonT(60), SMTT(60), <1>1, MissNacks
<1>3. ASSUME p.type = "Nack" PROVE NackOk(p)
  <2>1. MissNacked(p, f, i)
    BY <1>2, <1>3
  <2>2. CASE p.face = f
    <3>1. ArrivesWith(p)
      BY ZenonT(60), SMTT(60), <2>1, <2>2 DEF MissNacked, ArrivesWith
    <3> QED BY <2>1, <3>1, ReturnedToNew DEF MissNacked
  <2>3. CASE p.face # f
    BY <2>1, <2>3, ReturnedToWaiting DEF MissNacked
  <2> QED BY <2>2, <2>3
<1> QED BY ZenonT(60), SMTT(60), <1>2, <1>3 DEF NackOk

\* What the strategy decides for an arriving Nack goes back to downstreams that
\* are waiting.
LEMMA NackNackOk ==
    ASSUME IInv, NEW f \in Face, NEW k \in Key, NEW nonce, NEW reason \in Reason, NEW D,
           onIncomingNack(f, k, nonce, reason, D), NEW p \in sent'
    PROVE  NackOk(p) /\ p.type # "Data"
<1> DEFINE e == NackedEntry(k, f, reason)
<1>1. Sound(pit[k], up) /\ pit[k] \in Entry /\ f \in Upstreams(pit[k])
  BY DEF IInv, Sound, onIncomingNack, AnswersOutRecord
<1>2. e \in Entry /\ e.in = pit[k].in
  <2> DEFINE o == [pit[k].out[f] EXCEPT !.nack = reason]
             e1 == [pit[k] EXCEPT !.out = [pit[k].out EXCEPT ![f] = o]]
  <2>1. up \subseteq Face /\ Kept(pit[k])
    BY DEF IInv
  <2>2. Upstreams(pit[k]) # {}
    BY <1>1
  <2>3. Armed(pit[k])
    BY <2>1, <2>2, RecordsMeanArmed
  <2>4. e \in Entry
    BY <1>1, <2>1, <2>3, NackedSound DEF Sound
  <2>5. /\ e1.in = pit[k].in
        /\ DOMAIN e1 = {"live", "in", "out", "timer", "isSatisfied", "dataFreshnessPeriod"}
    BY <1>1 DEF Entry
  <2>6. e = IF hasPendingOutRecords(e1) THEN e1 ELSE [e1 EXCEPT !.timer = 0]
    BY DEF NackedEntry
  <2> HIDE DEF e1, e
  <2>7. [e1 EXCEPT !.timer = 0].in = e1.in
    BY <2>5
  <2> QED BY <2>4, <2>5, <2>6, <2>7
<1> HIDE DEF e
<1>3. PICK d : /\ sent' = DecidedSent(k, e, d, 2)
               /\ pit' = [pit EXCEPT ![k] = Decided(e, d, 2, 0)]
  BY ZenonT(60) DEF onIncomingNack, e
<1>4. pit'[k] = Decided(e, d, 2, 0)
  BY <1>3 DEF IInv
<1>5. NackedBack(p, k, e, pit'[k])
  <2>1. p \in DecidedSent(k, e, d, 2)
    BY <1>3
  <2>2. NackedBack(p, k, e, Decided(e, d, 2, 0))
    BY ZenonT(60), SMTT(60), <1>2, <2>1, DecidedNacks
  <2> QED BY <1>4, <2>2
<1>6. p.type # "Data"
  BY <1>3, DecidedNoData
<1>7. ASSUME p.type = "Nack" PROVE NackOk(p)
  <2>1. /\ p.key = k /\ p.face \in Downstreams(e) /\ p.nonce = e.in[p.face].nonce
        /\ p.face \notin Downstreams(pit'[k])
    BY <1>5, <1>7 DEF NackedBack
  <2>2. p.face \in Downstreams(pit[k]) /\ pit[k].in[p.face].nonce = p.nonce
    BY <1>2, <2>1 DEF Downstreams
  <2>3. WaitedWith(p)
    BY ZenonT(60), SMTT(60), <2>1, <2>2 DEF WaitedWith
  <2> QED BY ZenonT(60), SMTT(60), <2>1, <2>3, ReturnedToWaiting
<1> QED BY ZenonT(60), SMTT(60), <1>6, <1>7 DEF NackOk

\* Interests sent outside the Interest pipeline come without a Nack or Data.
LEMMA LaterOk ==
    ASSUME NEW i, NEW U, sendLater(i, U), NEW p \in sent'
    PROVE  p.type \notin {"Nack", "Data"}
<1>1. sent' = DecidedSent(KeyOf(i), pit[KeyOf(i)], SendTo(U, i.nonce), i.hopLimit)
  BY DEF sendLater
<1>2. SendTo(U, i.nonce).nack = {}
  BY DEF SendTo
<1>3. Nackable(pit[KeyOf(i)], SendTo(U, i.nonce).nack) = {}
  BY <1>2 DEF Nackable
<1>4. p.type = "Interest"
  BY ZenonT(60), SMTT(60), <1>1, <1>3, DecidedInterests
<1> QED BY ZenonT(60), SMTT(60), <1>4

\* Every packet of every step is accounted for.
LEMMA PacketsOk ==
    ASSUME IInv, Next, NEW p \in sent'
    PROVE  NackOk(p) /\ DataOk(p)
<1>1. CASE Tick \/ Finalize \/ Environment
  BY ZenonT(60), <1>1 DEF Tick, Finalize, onInterestFinalize, Environment, removeFace, addFace,
              ageOrEvict, forget
<1>2. CASE IncomingInterest
  <2>1. PICK f \in Face, i \in Interest :
          \/ DropInterest(f, i)
          \/ onInterestLoop(f, i)
          \/ \E d \in Data : onContentStoreHit(f, i, d)
          \/ onContentStoreMiss(f, i, AnyInterestDecision(i))
    BY <1>2 DEF IncomingInterest
  <2>2. CASE DropInterest(f, i)
    BY <2>2 DEF DropInterest
  <2>3. CASE onInterestLoop(f, i)
    <3>1. pit' = pit
      BY <2>3, LoopKeepsPit
    <3>2. p = OutNack(KeyOf(i), f, i.nonce, DUPLICATE)
      BY <2>3 DEF onInterestLoop
    <3>3. /\ p.type = "Nack" /\ p.reason = DUPLICATE
          /\ p.key = KeyOf(i) /\ p.face = f /\ p.nonce = i.nonce
      BY <3>2 DEF OutNack
    <3>4. onInterestLoop(p.face, i)
      BY <2>3, <3>3
    <3>5. LoopNack(p)
      BY ZenonT(60), SMTT(60), <3>1, <3>3, <3>4 DEF LoopNack
    <3> QED BY <3>3, <3>5 DEF NackOk, DataOk
  <2>4. CASE \E d \in Data : onContentStoreHit(f, i, d)
    <3>1. PICK d \in Data : onContentStoreHit(f, i, d)
      BY <2>4
    <3>2. p.type = "Data"
      BY <3>1, OutgoingDataFacts DEF onContentStoreHit
    <3> QED BY <3>1, <3>2, HitDataOk DEF NackOk
  <2>5. CASE onContentStoreMiss(f, i, AnyInterestDecision(i))
    BY ZenonT(60), SMTT(60), <2>5, MissNackOk DEF DataOk, Arrives
  <2> QED BY <2>1, <2>2, <2>3, <2>4, <2>5
<1>3. CASE IncomingData
  <2>1. PICK f \in Face, d \in Data :
          \/ DropData(f, d)
          \/ \E same \in IF f \in P2P THEN {TRUE} ELSE BOOLEAN : onIncomingData(f, d, same)
          \/ onDataUnsolicited(f, d)
    BY ZenonT(60), <1>3 DEF IncomingData
  <2>2. CASE DropData(f, d) \/ onDataUnsolicited(f, d)
    BY <2>2 DEF DropData, onDataUnsolicited
  <2>3. CASE \E same \in IF f \in P2P THEN {TRUE} ELSE BOOLEAN : onIncomingData(f, d, same)
    <3>1. PICK same : onIncomingData(f, d, same)
      BY <2>3
    <3>2. PICK S : sent' = outgoingData(d, S)
      BY ZenonT(60), <3>1 DEF onIncomingData
    <3>3. p.type = "Data"
      BY <3>2, OutgoingDataFacts
    <3> QED BY <3>1, <3>3, AnswerDataOk DEF NackOk
  <2> QED BY ZenonT(60), <2>1, <2>2, <2>3
<1>4. CASE IncomingNack
  <2>1. PICK f \in Face, k \in Key, nonce \in Nonce :
          \/ DropNack(f, k, nonce)
          \/ \E r \in Reason : onIncomingNack(f, k, nonce, r, AnyNackDecision)
    BY <1>4 DEF IncomingNack
  <2>2. CASE DropNack(f, k, nonce)
    BY <2>2 DEF DropNack
  <2>3. CASE \E r \in Reason : onIncomingNack(f, k, nonce, r, AnyNackDecision)
    BY ZenonT(60), <2>3, NackNackOk DEF DataOk
  <2> QED BY <2>1, <2>2, <2>3
<1>5. CASE StrategyEvent
  BY <1>5, LaterOk DEF StrategyEvent, NackOk, DataOk
<1> QED BY <1>1, <1>2, <1>3, <1>4, <1>5 DEF Next

\* A Nack answers the looping Interest that arrives from its face and leaves the
\* PIT alone, or its face waits no more and the nonce is that of the Interest the
\* face waited with, whatever the strategy decides.
THEOREM NacksReturnInterests == Spec => NackReturnsInterest
<1>1. IInv /\ [Next]_vars => [\A p \in sent' : NackOk(p)]_vars
  BY PacketsOk
<1>2. (\A p \in sent' : NackOk(p)) =>
        \A p \in sent' : p.type = "Nack" =>
         \/ /\ p.reason = DUPLICATE /\ UNCHANGED pit
            /\ \E i \in Interest : /\ KeyOf(i) = p.key /\ i.nonce = p.nonce
                                   /\ onInterestLoop(p.face, i)
         \/ /\ p.face \notin Downstreams(pit'[p.key])
            /\ \A i \in Interest : KeyOf(i) = p.key /\ i.nonce # p.nonce => ~Arrives(p.face, i)
            /\ \/ /\ p.face \in Downstreams(pit[p.key])
                  /\ pit[p.key].in[p.face].nonce = p.nonce
               \/ \E i \in Interest : /\ KeyOf(i) = p.key /\ i.nonce = p.nonce
                                      /\ Arrives(p.face, i)
  BY ZenonT(60), SMTT(60)
     DEF NackOk, LoopNack, NoOtherArrives, WaitedWith, ArrivesWith
<1> QED BY <1>1, <1>2, InductiveInvariant, PTL DEF Spec, NackReturnsInterest

\* Data answers a downstream once: where it was waiting it stops waiting in every
\* matching entry, in whatever order the entries are processed; otherwise the
\* Content Store answers the Interest arriving from it.
THEOREM DataAnswersOnce == Spec => OneDataPerInterest
<1>1. IInv /\ [Next]_vars => [\A p \in sent' : DataOk(p)]_vars
  BY PacketsOk
<1> QED BY <1>1, InductiveInvariant, PTL DEF Spec, OneDataPerInterest, DataOk, HitData
=============================================================================
