-------------------------- MODULE PitExpiryProofs --------------------------
(***************************************************************************)
(* Proofs about PitExpiry and the Scheduler it runs on, for any numbers of *)
(* nodes and events and any delays: no wake-up is lost, no event is run    *)
(* twice, an entry in the PIT has a timer that will be run, and the timer  *)
(* is exact unless it was set again when its callback was on its way.      *)
(***************************************************************************)
EXTENDS PitExpiry, WellFoundedInduction, TLAPS

USE SchedulerAssumption, PitExpiryAssumption
\* The provers a leaf that names none is tried with.
USE SMTT(30), ZenonT(30), SMTT(60)

\* Events of the Scheduler and of ns-3.  A callback in ns-3 is due at once.
QueueEvent == [id : Id, time : 0 .. MaxDelay, context : Context]
Ns3Event ==
    {y \in [kind : {"exec", "call"}, time : 0 .. MaxDelay, context : Context,
            id : Id \cup {"none"}, timer : BOOLEAN] :
        /\ y.kind = "exec" <=> y.id = "none"
        /\ y.kind = "call" => y.time = 0 /\ y.timer = FALSE}

Elems(s) == {s[j] : j \in DOMAIN s}
Unique(s) == \A i, j \in DOMAIN s : s[i].id = s[j].id => i = j \/ s[i].id = "none"
OneTimer(s) == \A i, j \in DOMAIN s : s[i].timer /\ s[j].timer => i = j

\* ns-3 will call executeEvent no later than the first event of q is due.
ArmedFor(q, n) ==
    q # <<>> => \E y \in Elems(n) : y.kind = "exec" /\ y.time =< Head(q).time

\* The queues of the Scheduler and of ns-3, apart from the wake-up.
Queues(q, n) ==
    /\ q \in Seq(QueueEvent) /\ n \in Seq(Ns3Event)
    /\ Ordered(q) /\ Ordered(n)
    /\ Unique(q) /\ Unique(n)
    /\ \A x \in Elems(q), y \in Elems(n) : x.id # y.id
    /\ OneTimer(n)

-----------------------------------------------------------------------------
\* Sequences

\* A non-empty set of numbers has a least element.
LEMMA LeastOf ==
    ASSUME NEW T, T \subseteq Nat, T # {}
    PROVE  \E t \in T : \A s \in T : t =< s
<1> DEFINE R == {p \in Nat \X Nat : p[1] < p[2]}
<1>1. IsWellFoundedOn(R, Nat)
  BY NatLessThanWellFounded DEF OpToRel
<1>2. \A x, y \in Nat : x < y => <<x, y>> \in R
  OBVIOUS
<1> HIDE DEF R
<1>3. PICK t \in T : \A s \in T : ~(<<s, t>> \in R)
  BY ZenonT(60), <1>1, WFMin
<1>4. ASSUME NEW s \in T PROVE t =< s
  <2>1. ~(s < t)
    BY ZenonT(60), <1>2, <1>3
  <2> QED BY <2>1
<1> QED BY <1>4

\* In an ordered sequence there is a place for every time.
LEMMA PlaceExists ==
    ASSUME NEW R, NEW s \in Seq(R), \A y \in R : y.time \in Nat, Ordered(s), NEW t \in Nat
    PROVE  Places(s, t) # {}
<1> DEFINE T == {p \in 0 .. Len(s) : p = Len(s) \/ s[p + 1].time > t}
<1>1. T \subseteq Nat /\ Len(s) \in T
  OBVIOUS
<1>2. PICK p \in T : \A r \in T : p =< r
  BY ZenonT(60), <1>1, LeastOf
<1>3. ASSUME NEW j \in 1 .. p PROVE s[j].time =< t
  <2>1. j - 1 \notin T /\ j - 1 \in 0 .. Len(s)
    <3>1. p \in 0 .. Len(s)
      BY <1>2
    <3>2. ~(p =< j - 1) /\ j - 1 \in 0 .. Len(s)
      BY <3>1
    <3> HIDE DEF T
    <3> QED BY <1>2, <3>2
  <2>2. j \in DOMAIN s /\ s[j] \in R
    BY <2>1
  <2> QED BY <2>1, <2>2
<1>4. ASSUME NEW j \in p + 1 .. Len(s) PROVE s[j].time > t
  <2>1. s[p + 1].time > t /\ p + 1 \in DOMAIN s /\ j \in DOMAIN s
    BY <1>2
  <2>2. s[p + 1] \in R /\ s[j] \in R
    BY <2>1
  <2>3. s[p + 1].time =< s[j].time
    BY <2>1, <2>2 DEF Ordered
  <2> QED BY <2>1, <2>2, <2>3
<1> QED BY <1>2, <1>3, <1>4 DEF Places

\* r is s with x inserted behind place p, or with place p removed.
Inserted(r, s, p, x) ==
    /\ DOMAIN r = 1 .. Len(s) + 1
    /\ \A k \in 1 .. Len(s) + 1 : r[k] =
         IF k =< p THEN s[k] ELSE IF k = p + 1 THEN x ELSE s[k - 1]
Removed(r, s, p) ==
    /\ DOMAIN r = 1 .. Len(s) - 1
    /\ \A k \in 1 .. Len(s) - 1 : r[k] = IF k < p THEN s[k] ELSE s[k + 1]

\* What insertion does, with the place it finds.
LEMMA InsertShape ==
    ASSUME NEW R, NEW s \in Seq(R), NEW x \in R, \A y \in R : y.time \in Nat, Ordered(s)
    PROVE  \E p \in 0 .. Len(s) :
             /\ \A j \in 1 .. p : s[j].time =< x.time
             /\ \A j \in p + 1 .. Len(s) : s[j].time > x.time
             /\ InsertByTime(s, x) \in Seq(R)
             /\ Inserted(InsertByTime(s, x), s, p, x)
<1> DEFINE p == CHOOSE p \in Places(s, x.time) : TRUE
           r == InsertAfter(s, p, x)
<1>1. p \in Places(s, x.time)
  BY PlaceExists
<1> HIDE DEF p
<1>2. /\ p \in 0 .. Len(s)
      /\ \A j \in 1 .. p : s[j].time =< x.time
      /\ \A j \in p + 1 .. Len(s) : s[j].time > x.time
  BY <1>1 DEF Places
<1>3. r = [k \in 1 .. Len(s) + 1 |->
             IF k =< p THEN s[k] ELSE IF k = p + 1 THEN x ELSE s[k - 1]]
  BY DEF InsertAfter
<1>4. \A k \in 1 .. Len(s) + 1 :
         (IF k =< p THEN s[k] ELSE IF k = p + 1 THEN x ELSE s[k - 1]) \in R
  BY <1>2
<1>5. r \in Seq(R)
  <2>1. Len(s) + 1 \in Nat
    OBVIOUS
  <2>2. r \in [1 .. Len(s) + 1 -> R]
    BY <1>3, <1>4
  <2> HIDE DEF r
  <2> QED BY <2>1, <2>2
<1>6. InsertByTime(s, x) = r
  BY DEF InsertByTime, p
<1>7. Inserted(r, s, p, x)
  BY <1>3 DEF Inserted
<1> HIDE DEF r
<1> QED BY <1>2, <1>5, <1>6, <1>7

\* r is ordered and is s with the element x more.
Enlarged(r, s, x) ==
    /\ r # <<>> /\ Ordered(r)
    /\ Elems(r) = Elems(s) \cup {x}
    /\ Head(r) = x \/ (s # <<>> /\ Head(r) = Head(s))
    /\ Unique(s) /\ (x.id = "none" \/ x.id \notin Ids(s)) => Unique(r)
    /\ OneTimer(s) /\ ~x.timer => OneTimer(r)
    /\ (\A j \in DOMAIN s : ~s[j].timer) => OneTimer(r)

\* Insertion keeps the order and adds one element.
LEMMA InsertFacts ==
    ASSUME NEW R, NEW s \in Seq(R), NEW x \in R, \A y \in R : y.time \in Nat, Ordered(s)
    PROVE  InsertByTime(s, x) \in Seq(R) /\ Enlarged(InsertByTime(s, x), s, x)
<1> DEFINE r == InsertByTime(s, x)
<1>0. PICK p \in 0 .. Len(s) :
        /\ \A j \in 1 .. p : s[j].time =< x.time
        /\ \A j \in p + 1 .. Len(s) : s[j].time > x.time
        /\ r \in Seq(R)
        /\ Inserted(r, s, p, x)
  BY InsertShape
<1>1. /\ \A j \in 1 .. p : s[j].time =< x.time
      /\ \A j \in p + 1 .. Len(s) : s[j].time > x.time
      /\ r \in Seq(R)
      /\ DOMAIN r = 1 .. Len(s) + 1
      /\ \A k \in 1 .. Len(s) + 1 : r[k] =
           IF k =< p THEN s[k] ELSE IF k = p + 1 THEN x ELSE s[k - 1]
  BY <1>0 DEF Inserted
<1> HIDE DEF r
<1>2. \A k \in DOMAIN r : r[k] \in R /\ r[k].time \in Nat
  BY <1>1
<1>3. \A j \in DOMAIN s : s[j] \in R /\ s[j].time \in Nat
  OBVIOUS
<1>4. Ordered(r)
  <2> SUFFICES ASSUME NEW i \in DOMAIN r, NEW j \in DOMAIN r, i < j
               PROVE  r[i].time =< r[j].time
    BY DEF Ordered
  <2>1. CASE j =< p
    BY <1>1, <2>1 DEF Ordered
  <2>2. CASE j = p + 1
    <3>1. i \in 1 .. p /\ r[i] = s[i] /\ r[j] = x
      BY <1>1, <2>2
    <3> QED BY <1>1, <3>1
  <2>3. CASE j > p + 1 /\ i = p + 1
    <3>1. r[j] = s[j - 1] /\ r[i] = x /\ j - 1 \in p + 1 .. Len(s)
      BY <1>1, <2>3
    <3> QED BY <1>1, <1>2, <3>1
  <2>4. CASE j > p + 1 /\ i =< p
    <3>1. /\ r[j] = s[j - 1] /\ r[i] = s[i] /\ i < j - 1
          /\ i \in DOMAIN s /\ j - 1 \in DOMAIN s
      BY <1>1, <2>4
    <3> QED BY <3>1 DEF Ordered
  <2>5. CASE j > p + 1 /\ i > p + 1
    <3>1. /\ r[j] = s[j - 1] /\ r[i] = s[i - 1] /\ i - 1 < j - 1
          /\ i - 1 \in DOMAIN s /\ j - 1 \in DOMAIN s
      BY <1>1, <2>5
    <3> QED BY <3>1 DEF Ordered
  <2> QED BY SMTT(60), ZenonT(60), <1>1, <2>1, <2>2, <2>3, <2>4, <2>5
<1>5. Elems(r) = Elems(s) \cup {x}
  <2>1. ASSUME NEW k \in DOMAIN r PROVE r[k] \in Elems(s) \cup {x}
    <3>1. CASE k =< p
      <4>1. k \in DOMAIN s /\ r[k] = s[k]
        BY <1>1, <3>1
      <4> QED BY <4>1 DEF Elems
    <3>2. CASE k = p + 1
      BY <1>1, <3>2
    <3>3. CASE k > p + 1
      <4>1. k - 1 \in DOMAIN s /\ r[k] = s[k - 1]
        BY <1>1, <3>3
      <4> QED BY <4>1 DEF Elems
    <3> QED BY <1>1, <3>1, <3>2, <3>3
  <2>2. ASSUME NEW j \in DOMAIN s PROVE s[j] \in Elems(r)
    <3>1. CASE j =< p
      BY <1>1, <3>1 DEF Elems
    <3>2. CASE j > p
      <4>1. j + 1 \in DOMAIN r /\ r[j + 1] = s[j]
        BY <1>1, <3>2
      <4> QED BY <4>1 DEF Elems
    <3> QED BY <1>1, <3>1, <3>2
  <2>3. x \in Elems(r)
    <3>1. p + 1 \in DOMAIN r /\ r[p + 1] = x
      BY <1>1
    <3> QED BY <3>1 DEF Elems
  <2> QED BY <2>1, <2>2, <2>3 DEF Elems
<1>6. r # <<>> /\ Head(r) = r[1]
  BY <1>1
<1>7. Head(r) = x \/ (s # <<>> /\ Head(r) = Head(s))
  <2>1. CASE p = 0
    BY <1>1, <1>6, <2>1
  <2>2. CASE p > 0
    BY <1>1, <1>6, <2>2
  <2> QED BY <1>1, <2>1, <2>2
\* Two places of r other than that of x are two places of s.
<1>8. \A i, j \in DOMAIN r : i # j =>
        \/ r[i] = x /\ \E b \in DOMAIN s : r[j] = s[b]
        \/ r[j] = x /\ \E a \in DOMAIN s : r[i] = s[a]
        \/ \E a, b \in DOMAIN s : a # b /\ r[i] = s[a] /\ r[j] = s[b]
  <2> DEFINE m(k) == IF k =< p THEN k ELSE k - 1
  <2>1. \A k \in DOMAIN r : k # p + 1 => m(k) \in DOMAIN s /\ r[k] = s[m(k)]
    BY <1>1
  <2>2. \A i, j \in DOMAIN r : i # j /\ i # p + 1 /\ j # p + 1 => m(i) # m(j)
    BY <1>1
  <2>3. \A k \in DOMAIN r : k = p + 1 => r[k] = x
    BY <1>1
  <2> HIDE DEF m
  <2> QED BY <2>1, <2>2, <2>3
<1>9. ASSUME Unique(s), x.id = "none" \/ x.id \notin Ids(s) PROVE Unique(r)
  BY <1>8, <1>9 DEF Unique, Ids
<1>10. ASSUME OneTimer(s), ~x.timer PROVE OneTimer(r)
  BY <1>8, <1>10 DEF OneTimer
<1>11. ASSUME \A j \in DOMAIN s : ~s[j].timer PROVE OneTimer(r)
  BY <1>8, <1>11 DEF OneTimer
<1>12. Enlarged(r, s, x)
  BY <1>4, <1>5, <1>6, <1>7, <1>9, <1>10, <1>11 DEF Enlarged
<1> QED BY <1>1, <1>12 DEF r


\* Removal keeps the order and takes away one element.
LEMMA RemovedFacts ==
    ASSUME NEW R, NEW s \in Seq(R), NEW p \in DOMAIN s, NEW r \in Seq(R), Removed(r, s, p)
    PROVE  /\ Ordered(s) => Ordered(r)
           /\ \A x : x \in Elems(r) <=> \E j \in DOMAIN s : j # p /\ x = s[j]
           /\ Unique(s) => Unique(r)
           /\ OneTimer(s) => OneTimer(r)
<1> DEFINE m(k) == IF k < p THEN k ELSE k + 1
<1>1. DOMAIN r = 1 .. Len(s) - 1 /\ \A k \in DOMAIN r : r[k] = s[m(k)]
  BY DEF Removed
<1>2. \A k \in DOMAIN r : m(k) \in DOMAIN s /\ m(k) # p
  BY <1>1
<1>3. \A j, k \in DOMAIN r : j < k => m(j) < m(k)
  BY <1>1
<1>4. \A j, k \in DOMAIN r : j # k => m(j) # m(k)
  BY <1>1
<1>5. ASSUME NEW j \in DOMAIN s, j # p PROVE \E k \in DOMAIN r : m(k) = j
  <2>1. CASE j < p
    <3>1. j \in DOMAIN r /\ m(j) = j
      BY <1>1, <2>1
    <3> QED BY <3>1
  <2>2. CASE j > p
    <3>1. j - 1 \in DOMAIN r /\ m(j - 1) = j
      BY <1>1, <2>2
    <3> QED BY <3>1
  <2> QED BY <1>5, <2>1, <2>2
<1> HIDE DEF m
<1>6. ASSUME NEW x PROVE x \in Elems(r) <=> \E j \in DOMAIN s : j # p /\ x = s[j]
  <2>1. ASSUME x \in Elems(r) PROVE \E j \in DOMAIN s : j # p /\ x = s[j]
    BY <1>1, <1>2, <2>1 DEF Elems
  <2>2. ASSUME NEW j \in DOMAIN s, j # p, x = s[j] PROVE x \in Elems(r)
    <3>1. PICK k \in DOMAIN r : m(k) = j
      BY <1>5, <2>2
    <3> QED BY <1>1, <2>2, <3>1 DEF Elems
  <2> QED BY <2>1, <2>2
<1>7. Ordered(s) => Ordered(r)
  BY <1>1, <1>2, <1>3 DEF Ordered
<1>8. Unique(s) => Unique(r)
  BY <1>1, <1>2, <1>4 DEF Unique
<1>9. OneTimer(s) => OneTimer(r)
  BY <1>1, <1>2, <1>4 DEF OneTimer
<1> QED BY <1>6, <1>7, <1>8, <1>9

\* Erasing the element at place p.
LEMMA RemoveFacts ==
    ASSUME NEW R, NEW s \in Seq(R), NEW p \in DOMAIN s
    PROVE  RemoveAt(s, p) \in Seq(R) /\ Removed(RemoveAt(s, p), s, p)
<1> DEFINE r == RemoveAt(s, p)
<1>1. r = [k \in 1 .. Len(s) - 1 |-> IF k < p THEN s[k] ELSE s[k + 1]]
  BY DEF RemoveAt
<1>2. Len(s) - 1 \in Nat
  OBVIOUS
<1>3. r \in [1 .. Len(s) - 1 -> R]
  BY <1>1
<1>4. Removed(r, s, p)
  BY <1>1 DEF Removed
<1> HIDE DEF r
<1>5. r \in Seq(R)
  BY <1>2, <1>3
<1> QED BY <1>4, <1>5 DEF r

\* The first element goes.
LEMMA TailFacts ==
    ASSUME NEW R, NEW s \in Seq(R), s # <<>>
    PROVE  /\ 1 \in DOMAIN s /\ Head(s) = s[1] /\ Head(s) \in R
           /\ Tail(s) \in Seq(R) /\ Removed(Tail(s), s, 1)
<1>1. 1 \in DOMAIN s /\ Head(s) = s[1] /\ s[1] \in R
  OBVIOUS
<1>2. /\ Tail(s) \in Seq(R) /\ DOMAIN Tail(s) = 1 .. Len(s) - 1
      /\ \A k \in 1 .. Len(s) - 1 : Tail(s)[k] = s[k + 1]
  OBVIOUS
<1> QED BY <1>1, <1>2 DEF Removed

-----------------------------------------------------------------------------
\* Operations of the Scheduler

\* Times are numbers, and only callbacks have the id of an event.
LEMMA EventFacts ==
    /\ \A x \in QueueEvent : x.time \in Nat /\ x.id \in Id /\ x.id # "none"
    /\ \A y \in Ns3Event : y.time \in Nat /\ y.timer \in BOOLEAN
    /\ \A y \in Ns3Event : y.timer => y.id = "none"
BY DEF QueueEvent, Ns3Event

\* m_timerEvent is reset: only the marks change.
LEMMA ForgetFacts ==
    ASSUME NEW n \in Seq(Ns3Event), Ordered(n), Unique(n)
    PROVE  LET r == ForgetTimer(n)
           IN  /\ r \in Seq(Ns3Event) /\ Ordered(r) /\ Unique(r)
               /\ DOMAIN r = DOMAIN n
               /\ \A j \in DOMAIN n : /\ r[j].kind = n[j].kind /\ r[j].time = n[j].time
                                      /\ r[j].id = n[j].id /\ r[j].timer = FALSE
<1> DEFINE r == ForgetTimer(n)
<1>1. r = [j \in 1 .. Len(n) |-> [n[j] EXCEPT !.timer = FALSE]]
  BY DEF ForgetTimer
<1>2. \A j \in 1 .. Len(n) :
        /\ [n[j] EXCEPT !.timer = FALSE] \in Ns3Event
        /\ [n[j] EXCEPT !.timer = FALSE].kind = n[j].kind
        /\ [n[j] EXCEPT !.timer = FALSE].time = n[j].time
        /\ [n[j] EXCEPT !.timer = FALSE].id = n[j].id
        /\ [n[j] EXCEPT !.timer = FALSE].timer = FALSE
  <2> SUFFICES ASSUME NEW j \in 1 .. Len(n), NEW y \in Ns3Event, y = n[j]
               PROVE  LET z == [y EXCEPT !.timer = FALSE]
                      IN  /\ z \in Ns3Event /\ z.kind = y.kind /\ z.time = y.time
                          /\ z.id = y.id /\ z.timer = FALSE
    OBVIOUS
  <2> QED BY ZenonT(60) DEF Ns3Event
<1>3. Len(n) \in Nat /\ r \in [1 .. Len(n) -> Ns3Event]
  BY <1>1, <1>2
<1>4. DOMAIN r = DOMAIN n
      /\ \A j \in DOMAIN n : /\ r[j].kind = n[j].kind /\ r[j].time = n[j].time
                             /\ r[j].id = n[j].id /\ r[j].timer = FALSE
  BY <1>1, <1>2
<1> HIDE DEF r
<1>5. r \in Seq(Ns3Event)
  BY <1>3
<1>6. Ordered(r) /\ Unique(r)
  BY <1>4 DEF Ordered, Unique
<1> QED BY <1>4, <1>5, <1>6 DEF r

\* m_timerEvent is cancelled: the events with callbacks stay.
LEMMA WithoutTimerFacts ==
    ASSUME NEW q, NEW n, Queues(q, n)
    PROVE  LET r == WithoutTimer(n)
           IN  /\ Queues(q, r)
               /\ \A x \in Elems(r) : x \in Elems(n)
               /\ \A x \in Elems(n) : x.id # "none" => x \in Elems(r)
<1> DEFINE p == CHOOSE j \in DOMAIN n : n[j].timer
           r == RemoveAt(n, p)
<1>1. n \in Seq(Ns3Event)
  BY DEF Queues
<1>2. CASE \A j \in DOMAIN n : ~n[j].timer
  BY <1>2 DEF WithoutTimer
<1>3. CASE ~ \A j \in DOMAIN n : ~n[j].timer
  <2>1. p \in DOMAIN n /\ n[p].timer
    BY <1>3
  <2>2. WithoutTimer(n) = r
    BY <1>3 DEF WithoutTimer
  <2> HIDE DEF p
  <2>3. r \in Seq(Ns3Event) /\ Removed(r, n, p)
    BY <1>1, <2>1, RemoveFacts
  <2> HIDE DEF r
  <2>4. /\ Ordered(n) => Ordered(r)
        /\ \A x : x \in Elems(r) <=> \E j \in DOMAIN n : j # p /\ x = n[j]
        /\ Unique(n) => Unique(r)
        /\ OneTimer(n) => OneTimer(r)
    BY <1>1, <2>1, <2>3, RemovedFacts
  <2>5. \A x \in Elems(r) : x \in Elems(n)
    BY <2>4 DEF Elems
  <2>6. ASSUME NEW x \in Elems(n), x.id # "none" PROVE x \in Elems(r)
    <3>1. PICK j \in DOMAIN n : x = n[j]
      BY DEF Elems
    <3>2. n[p].id = "none"
      BY <1>1, <2>1, EventFacts
    <3> QED BY <2>4, <2>6, <3>1, <3>2
  <2>7. Queues(q, r)
    BY <2>3, <2>4, <2>5 DEF Queues
  <2> QED BY <2>2, <2>5, <2>6, <2>7
<1> QED BY <1>2, <1>3

\* A Scheduler with its calls in ns-3.
SState == [queue : Seq(QueueEvent), ns3 : Seq(Ns3Event), executing : BOOLEAN]
Ready(s) ==
    /\ s \in SState /\ Queues(s.queue, s.ns3)
    /\ ~s.executing => ArmedFor(s.queue, s.ns3)

\* The events whose callbacks ns-3 is to run.
Called(n) == Ids(n) \ {"none"}

\* A call of executeEvent for the first event arms the queue.
LEMMA RearmFacts ==
    ASSUME NEW q, NEW n, Queues(q, n), q # <<>>, NEW c \in Context
    PROVE  LET r == InsertByTime(ForgetTimer(n), Exec(c, expiresFromNow(Head(q))))
           IN  Queues(q, r) /\ ArmedFor(q, r) /\ Called(r) = Called(n)
<1> DEFINE g == ForgetTimer(n)
           x == Exec(c, expiresFromNow(Head(q)))
           r == InsertByTime(g, x)
<1>1. /\ q \in Seq(QueueEvent) /\ n \in Seq(Ns3Event)
      /\ Ordered(n) /\ Unique(n)
  BY DEF Queues
<1>2. Head(q) \in QueueEvent
  BY <1>1, TailFacts
<1>3. expiresFromNow(Head(q)) = Head(q).time
  BY <1>2 DEF expiresFromNow, QueueEvent
<1>4. /\ x \in Ns3Event /\ x.id = "none" /\ x.kind = "exec" /\ x.time = Head(q).time
  BY <1>2, <1>3 DEF Exec, Ns3Event, QueueEvent
<1> HIDE DEF x
<1>5. /\ g \in Seq(Ns3Event) /\ Ordered(g) /\ Unique(g) /\ DOMAIN g = DOMAIN n
      /\ \A j \in DOMAIN n : g[j].id = n[j].id /\ g[j].timer = FALSE
  BY ZenonT(60), <1>1, ForgetFacts
<1> HIDE DEF g
<1>6. /\ r \in Seq(Ns3Event) /\ Ordered(r) /\ Elems(r) = Elems(g) \cup {x}
      /\ Unique(r) /\ OneTimer(r)
  <2>1. \A y \in Ns3Event : y.time \in Nat
    BY EventFacts
  <2>2. r \in Seq(Ns3Event) /\ Enlarged(r, g, x)
    BY <1>4, <1>5, <2>1, InsertFacts
  <2> HIDE DEF r
  <2> QED BY <1>4, <1>5, <2>2 DEF Enlarged
<1> HIDE DEF r
<1>7. ArmedFor(q, r)
  <2>1. Head(q).time =< Head(q).time
    BY <1>2, EventFacts
  <2> QED BY <1>4, <1>6, <2>1 DEF ArmedFor
<1>8. \A y \in Elems(r) : y.id = "none" \/ \E z \in Elems(n) : z.id = y.id
  BY ZenonT(60), <1>4, <1>5, <1>6 DEF Elems
<1>9. \A z \in Elems(n) : \E y \in Elems(r) : z.id = y.id
  BY ZenonT(60), <1>5, <1>6 DEF Elems
<1>10. \A i : i \in Called(r) <=> i \in Called(n)
  BY <1>8, <1>9 DEF Called, Ids, Elems
<1>11. \A a \in Elems(q), y \in Elems(r) : a.id # y.id
  <2>1. \A a \in Elems(q) : a.id # "none"
    BY <1>1, EventFacts DEF Elems
  <2> QED BY <1>8, <2>1 DEF Queues
<1>12. Queues(q, r)
  BY <1>1, <1>6, <1>11 DEF Queues
<1> QED BY ZenonT(60), <1>7, <1>10, <1>12 DEF r, g, x

\* Scheduler::scheduleNext
LEMMA ScheduleNextFacts ==
    ASSUME NEW s \in SState, Queues(s.queue, s.ns3), NEW c \in Context
    PROVE  LET t == scheduleNext(s, c)
           IN  /\ Ready(t) /\ t.queue = s.queue /\ t.executing = s.executing
               /\ ArmedFor(t.queue, t.ns3)
               /\ Called(t.ns3) = Called(s.ns3)
<1>1. CASE s.queue = <<>>
  BY <1>1 DEF scheduleNext, Ready, ArmedFor
<1>2. CASE s.queue # <<>>
  <2> DEFINE r == InsertByTime(ForgetTimer(s.ns3),
                               Exec(c, expiresFromNow(Head(s.queue))))
             t == [s EXCEPT !.ns3 = r]
  <2>1. Queues(s.queue, r) /\ ArmedFor(s.queue, r) /\ Called(r) = Called(s.ns3)
    BY <1>2, RearmFacts
  <2>2. scheduleNext(s, c) = t
    BY <1>2 DEF scheduleNext
  <2> HIDE DEF r
  <2>3. r \in Seq(Ns3Event)
    BY <2>1 DEF Queues
  <2>4. t \in SState /\ t.queue = s.queue /\ t.ns3 = r /\ t.executing = s.executing
    BY <2>3 DEF SState
  <2> HIDE DEF t
  <2> QED BY <2>1, <2>2, <2>4 DEF Ready
<1> QED BY <1>1, <1>2

\* Scheduler::cancelImpl: the event leaves the queue, no other does, and the
\* rest is armed.
LEMMA CancelFacts ==
    ASSUME NEW s, Ready(s), NEW id, NEW c \in Context
    PROVE  LET t == cancelImpl(s, id, c)
           IN  /\ Ready(t) /\ t.executing = s.executing
               /\ Called(t.ns3) = Called(s.ns3)
               /\ \A x : x \in Elems(t.queue) <=> x \in Elems(s.queue) /\ x.id # id
<1> USE DEF Ready
<1>1. CASE id \notin Ids(s.queue)
  <2>1. \A x \in Elems(s.queue) : x.id # id
    BY <1>1 DEF Ids, Elems
  <2> QED BY <1>1, <2>1 DEF cancelImpl
<1>2. CASE id \in Ids(s.queue)
  <2> DEFINE p == CHOOSE j \in DOMAIN s.queue : s.queue[j].id = id
             q == RemoveAt(s.queue, p)
             n == WithoutTimer(s.ns3)
             s1 == [s EXCEPT !.queue = q, !.ns3 = n]
  <2>1. p \in DOMAIN s.queue /\ s.queue[p].id = id
    BY <1>2 DEF Ids
  <2>2. Without(s.queue, id) = q
    BY DEF Without
  <2> HIDE DEF p
  <2>3. s.queue \in Seq(QueueEvent) /\ s.ns3 \in Seq(Ns3Event)
    BY DEF SState
  <2>4. q \in Seq(QueueEvent) /\ Removed(q, s.queue, p)
    BY <2>1, <2>3, RemoveFacts
  <2>5. cancelImpl(s, id, c) = IF s.executing THEN s1 ELSE scheduleNext(s1, c)
    BY <1>2, <2>2 DEF cancelImpl
  <2> HIDE DEF q
  <2>6. /\ Ordered(s.queue) => Ordered(q)
        /\ \A x : x \in Elems(q) <=> \E j \in DOMAIN s.queue : j # p /\ x = s.queue[j]
        /\ Unique(s.queue) => Unique(q)
    BY <2>1, <2>3, <2>4, RemovedFacts
  <2>7. \A x : x \in Elems(q) <=> x \in Elems(s.queue) /\ x.id # id
    <3>1. \A j \in DOMAIN s.queue : s.queue[j].id # "none"
      BY <2>3, EventFacts
    <3>2. \A j \in DOMAIN s.queue : j # p <=> s.queue[j].id # id
      BY <2>1, <3>1 DEF Queues, Unique
    <3> QED BY <2>6, <3>2 DEF Elems
  <2>8. Queues(q, s.ns3)
    BY <2>4, <2>6, <2>7 DEF Queues
  <2>9. /\ Queues(q, n)
        /\ \A x \in Elems(n) : x \in Elems(s.ns3)
        /\ \A x \in Elems(s.ns3) : x.id # "none" => x \in Elems(n)
    BY <2>8, WithoutTimerFacts
  <2> HIDE DEF n
  <2>10. Called(n) = Called(s.ns3)
    <3>1. \A i : i \in Called(n) <=> i \in Called(s.ns3)
      BY <2>9 DEF Called, Ids, Elems
    <3> QED BY <3>1
  <2>11. s1 \in SState /\ s1.queue = q /\ s1.ns3 = n /\ s1.executing = s.executing
    BY ZenonT(60), <2>9 DEF SState, Queues
  <2> HIDE DEF s1
  <2>12. CASE s.executing
    BY ZenonT(60), <2>5, <2>7, <2>9, <2>10, <2>11, <2>12
  <2>13. CASE ~s.executing
    BY <2>5, <2>7, <2>9, <2>10, <2>11, <2>13, ScheduleNextFacts
  <2> QED BY <2>12, <2>13
<1> QED BY <1>1, <1>2

\* Scheduler::schedule: an event that is nowhere yet enters the queue.
LEMMA ScheduleFacts ==
    ASSUME NEW s, Ready(s), NEW id \in Id, id \notin Ids(s.queue), id \notin Ids(s.ns3),
           NEW after \in 0 .. MaxDelay, NEW c \in Context
    PROVE  LET t == schedule(s, id, after, c)
           IN  /\ Ready(t) /\ t.executing = s.executing
               /\ Called(t.ns3) = Called(s.ns3)
               /\ Elems(t.queue) =
                    Elems(s.queue) \cup {[id |-> id, time |-> after, context |-> c]}
<1> USE DEF Ready
<1> DEFINE x == [id |-> id, time |-> after, context |-> c]
           q == InsertByTime(s.queue, x)
           s1 == [s EXCEPT !.queue = q]
<1>1. x \in QueueEvent /\ x.id = id
  BY DEF QueueEvent
<1>2. schedule(s, id, after, c) =
        IF ~s.executing /\ Head(s1.queue).id = id THEN scheduleNext(s1, c) ELSE s1
  BY DEF schedule
<1> HIDE DEF x
<1>3. /\ s.queue \in Seq(QueueEvent) /\ s.ns3 \in Seq(Ns3Event)
      /\ Ordered(s.queue) /\ Unique(s.queue)
  BY DEF SState, Queues
<1>4. /\ q \in Seq(QueueEvent) /\ q # <<>> /\ Ordered(q) /\ Elems(q) = Elems(s.queue) \cup {x}
      /\ Head(q) = x \/ (s.queue # <<>> /\ Head(q) = Head(s.queue))
      /\ Unique(q)
  <2>1. \A y \in QueueEvent : y.time \in Nat
    BY EventFacts
  <2>2. q \in Seq(QueueEvent) /\ Enlarged(q, s.queue, x)
    BY <1>1, <1>3, <2>1, InsertFacts
  <2> HIDE DEF q
  <2> QED BY <1>1, <1>3, <2>2 DEF Enlarged
<1> HIDE DEF q
<1>5. \A a \in Elems(q), y \in Elems(s.ns3) : a.id # y.id
  <2>1. \A y \in Elems(s.ns3) : x.id # y.id
    BY <1>1 DEF Ids, Elems
  <2> QED BY <1>4, <2>1 DEF Queues
<1>6. Queues(q, s.ns3)
  BY <1>4, <1>5 DEF Queues
<1>7. s1 \in SState /\ s1.queue = q /\ s1.ns3 = s.ns3 /\ s1.executing = s.executing
  BY <1>4 DEF SState
<1> HIDE DEF s1
<1>8. CASE ~s.executing /\ Head(s1.queue).id = id
  BY <1>2, <1>4, <1>6, <1>7, <1>8, ScheduleNextFacts DEF x
<1>9. CASE s.executing
  BY ZenonT(60), <1>2, <1>4, <1>6, <1>7, <1>9 DEF x
<1>10. CASE ~s.executing /\ Head(s1.queue).id # id
  <2>1. s.queue # <<>> /\ Head(q) = Head(s.queue)
    BY <1>1, <1>4, <1>7, <1>10
  <2>2. ArmedFor(q, s.ns3)
    BY <1>10, <2>1 DEF ArmedFor
  <2> QED BY <1>2, <1>4, <1>6, <1>7, <1>10, <2>2 DEF x
<1> QED BY ZenonT(60), SMTT(60), <1>8, <1>9, <1>10

\* r is s with the event x in its queue.
Enqueued(s, r, x) ==
    /\ Ready(r) /\ r.executing = s.executing
    /\ Called(r.ns3) = Called(s.ns3) /\ Elems(r.queue) = Elems(s.queue) \cup {x}

\* The same of a state and an event that have names.
LEMMA ScheduleEnqueues ==
    ASSUME NEW s, Ready(s), NEW id \in Id, id \notin Ids(s.queue), id \notin Ids(s.ns3),
           NEW t \in 0 .. MaxDelay, NEW c \in Context,
           NEW r, r = schedule(s, id, t, c), NEW x, x = [id |-> id, time |-> t, context |-> c]
    PROVE  Enqueued(s, r, x)
BY ScheduleFacts DEF Enqueued

-----------------------------------------------------------------------------
\* Steps of the Scheduler

\* What a ready state consists of, and what makes one.
LEMMA ReadyFields ==
    ASSUME Ready(state)
    PROVE  /\ Queues(queue, ns3) /\ executing \in BOOLEAN
           /\ ~executing => ArmedFor(queue, ns3)
           /\ state.queue = queue /\ state.ns3 = ns3 /\ state.executing = executing
BY DEF Ready, state, SState
LEMMA ReadyNext ==
    ASSUME Queues(queue', ns3'), executing' \in BOOLEAN,
           ~executing' => ArmedFor(queue', ns3')
    PROVE  Ready(state')
<1>1. queue' \in Seq(QueueEvent) /\ ns3' \in Seq(Ns3Event)
  BY DEF Queues
<1> QED BY <1>1 DEF Ready, state, SState
LEMMA ReadyBecomes ==
    ASSUME NEW t, Ready(t), Becomes(t), executing' = t.executing
    PROVE  Ready(state')
<1>1. t.executing \in BOOLEAN /\ queue' = t.queue /\ ns3' = t.ns3
  BY DEF Ready, SState, Becomes
<1> QED BY <1>1, ReadyNext DEF Ready

\* Nothing is taken from or added to the events.
Quiet ==
    ran' = {} /\ Elems(queue') = Elems(queue) /\ Called(ns3') = Called(ns3)

\* executeEvent takes a call of itself from ns-3.
LEMMA ExecuteEffect ==
    ASSUME Ready(state), executeEvent
    PROVE  Ready(state') /\ Quiet
<1> DEFINE u == Tail(ns3)
           r == ForgetTimer(u)
<1>1. /\ Queues(queue, ns3) /\ ns3 # <<>> /\ Head(ns3).kind = "exec"
      /\ queue' = queue /\ ns3' = r /\ executing' = TRUE /\ ran' = {}
  BY ReadyFields DEF executeEvent
<1>2. /\ queue \in Seq(QueueEvent) /\ ns3 \in Seq(Ns3Event) /\ Ordered(ns3) /\ Unique(ns3)
      /\ \A x \in Elems(queue), y \in Elems(ns3) : x.id # y.id
  BY <1>1 DEF Queues
<1>3. /\ 1 \in DOMAIN ns3 /\ Head(ns3) = ns3[1] /\ Head(ns3) \in Ns3Event
      /\ u \in Seq(Ns3Event) /\ Removed(u, ns3, 1)
  BY <1>1, <1>2, TailFacts
<1> HIDE DEF u
<1>4. /\ Ordered(u) /\ Unique(u)
      /\ \A x : x \in Elems(u) <=> \E j \in DOMAIN ns3 : j # 1 /\ x = ns3[j]
  BY <1>2, <1>3, RemovedFacts
<1>5. /\ r \in Seq(Ns3Event) /\ Ordered(r) /\ Unique(r) /\ DOMAIN r = DOMAIN u
      /\ \A j \in DOMAIN u : r[j].id = u[j].id /\ r[j].timer = FALSE
  BY ZenonT(60), <1>3, <1>4, ForgetFacts
<1> HIDE DEF r
<1>6. \A y \in Elems(r) : \E z \in Elems(ns3) : z.id = y.id
  <2>1. \A y \in Elems(r) : \E z \in Elems(u) : z.id = y.id
    BY <1>5 DEF Elems
  <2>2. \A z \in Elems(u) : z \in Elems(ns3)
    BY <1>4 DEF Elems
  <2> QED BY <2>1, <2>2
<1>7. OneTimer(r)
  BY <1>5 DEF OneTimer
<1>8. Queues(queue, r)
  <2>1. Ordered(queue) /\ Unique(queue)
    BY <1>1 DEF Queues
  <2> QED BY <1>2, <1>5, <1>6, <1>7, <2>1 DEF Queues
<1>9. ns3[1].id = "none"
  BY <1>1, <1>3 DEF Ns3Event
<1>10. \A i : i \in Called(r) <=> i \in Called(ns3)
  <2>1. \A z \in Elems(ns3) : z.id # "none" => z \in Elems(u)
    BY <1>4, <1>9 DEF Elems
  <2>2. \A z \in Elems(u) : \E y \in Elems(r) : y.id = z.id
    BY <1>5 DEF Elems
  <2> QED BY <1>6, <2>1, <2>2 DEF Called, Ids, Elems
<1>11. Ready(state')
  BY <1>1, <1>8, ReadyNext
<1> QED BY ZenonT(60), <1>1, <1>10, <1>11 DEF Quiet

\* The event x leaves the queue; it is run, or ns-3 is to run it.
Dispatched(x) ==
    /\ x \in Elems(queue) /\ x.time = 0
    /\ \A y : y \in Elems(queue') <=> y \in Elems(queue) /\ y.id # x.id
    /\ \/ ran' = {x.id} /\ Called(ns3') = Called(ns3)
       \/ ran' = {} /\ Called(ns3') = Called(ns3) \cup {x.id}

LEMMA ProcessEffect ==
    ASSUME Ready(state), ProcessExpired
    PROVE  Ready(state') /\ \E x \in QueueEvent : Dispatched(x)
<1> DEFINE x == Head(queue)
           q == Tail(queue)
           y == Call(x.context, x.id)
           n == InsertByTime(ns3, y)
<1>1. /\ Queues(queue, ns3) /\ executing = TRUE /\ queue # <<>> /\ x.time =< 0
      /\ queue' = q /\ executing' = executing
      /\ \/ ran' = {x.id} /\ ns3' = ns3
         \/ ran' = {} /\ ns3' = n
  BY ReadyFields DEF ProcessExpired
<1>2. /\ queue \in Seq(QueueEvent) /\ ns3 \in Seq(Ns3Event)
      /\ Ordered(queue) /\ Unique(queue) /\ Ordered(ns3) /\ Unique(ns3) /\ OneTimer(ns3)
      /\ \A a \in Elems(queue), b \in Elems(ns3) : a.id # b.id
  BY <1>1 DEF Queues
<1>3. /\ 1 \in DOMAIN queue /\ x = queue[1] /\ x \in QueueEvent
      /\ q \in Seq(QueueEvent) /\ Removed(q, queue, 1)
  BY <1>1, <1>2, TailFacts
<1> HIDE DEF x, q
<1>4. /\ Ordered(q) /\ Unique(q)
      /\ \A a : a \in Elems(q) <=> \E j \in DOMAIN queue : j # 1 /\ a = queue[j]
  BY <1>2, <1>3, RemovedFacts
<1>5. x \in Elems(queue) /\ x.time = 0 /\ x.id \in Id /\ x.id # "none" /\ x.context \in Context
  BY <1>1, <1>3 DEF Elems, QueueEvent
<1>6. \A a : a \in Elems(q) <=> a \in Elems(queue) /\ a.id # x.id
  <2>1. \A j \in DOMAIN queue : j # 1 <=> queue[j].id # x.id
    BY <1>2, <1>3, <1>5 DEF Unique
  <2> QED BY <1>4, <2>1 DEF Elems
<1>7. Queues(q, ns3)
  BY <1>2, <1>3, <1>4, <1>6 DEF Queues
<1>8. CASE ran' = {x.id} /\ ns3' = ns3
  <2>1. Ready(state')
    BY <1>1, <1>7, <1>8, ReadyNext
  <2>2. Dispatched(x)
    BY <1>1, <1>5, <1>6, <1>8 DEF Dispatched
  <2> QED BY <1>3, <2>1, <2>2
<1>9. CASE ran' = {} /\ ns3' = n
  <2>1. y \in Ns3Event /\ y.id = x.id /\ y.timer = FALSE
    BY <1>5 DEF Call, Ns3Event
  <2>2. y.id \notin Ids(ns3)
    BY <1>2, <1>5, <2>1 DEF Ids, Elems
  <2> HIDE DEF y
  <2>3. \A b \in Ns3Event : b.time \in Nat
    BY EventFacts
  <2>4. n \in Seq(Ns3Event) /\ Enlarged(n, ns3, y)
    BY <1>2, <2>1, <2>3, InsertFacts
  <2> HIDE DEF n
  <2>5. /\ Ordered(n) /\ Unique(n) /\ OneTimer(n) /\ Elems(n) = Elems(ns3) \cup {y}
    BY <1>2, <2>1, <2>2, <2>4 DEF Enlarged
  <2>6. Queues(q, n)
    <3>1. \A a \in Elems(q), b \in Elems(n) : a.id # b.id
      BY <1>2, <1>6, <2>1, <2>5
    <3> QED BY <1>3, <1>4, <2>4, <2>5, <3>1 DEF Queues
  <2>7. Called(n) = Called(ns3) \cup {x.id}
    <3>1. Ids(n) = {b.id : b \in Elems(n)} /\ Ids(ns3) = {b.id : b \in Elems(ns3)}
      BY DEF Ids, Elems
    <3>2. \A i : i \in Ids(n) <=> i \in Ids(ns3) \/ i = x.id
      BY <2>1, <2>5, <3>1
    <3> QED BY <1>5, <3>2 DEF Called
  <2>8. Ready(state')
    BY <1>1, <1>9, <2>6, ReadyNext
  <2>9. Dispatched(x)
    BY <1>1, <1>5, <1>6, <1>9, <2>7 DEF Dispatched
  <2> QED BY <1>3, <2>8, <2>9
<1> QED BY <1>1, <1>8, <1>9

\* The loop of executeEvent ends and arms the rest of the queue.
LEMMA EndEffect ==
    ASSUME Ready(state), EndExecuting, current \in Context
    PROVE  Ready(state') /\ Quiet
<1> DEFINE t == scheduleNext(state, current)
<1>1. state \in SState /\ Queues(state.queue, state.ns3)
  BY DEF Ready
<1>2. /\ Ready(t) /\ t.queue = state.queue /\ ArmedFor(t.queue, t.ns3)
      /\ Called(t.ns3) = Called(state.ns3)
  BY <1>1, ScheduleNextFacts
<1>3. queue' = t.queue /\ ns3' = t.ns3 /\ executing' = FALSE /\ ran' = {}
  BY DEF EndExecuting, Becomes
<1> HIDE DEF t
<1>4. Ready(state')
  BY ZenonT(60), <1>2, <1>3, ReadyNext DEF Ready
<1> QED BY <1>2, <1>3, <1>4, ReadyFields DEF Quiet

\* ns-3 runs the callback of event i.
RunByNs3(i) ==
    /\ i \in Called(ns3) /\ ran' = {i} /\ Called(ns3') = Called(ns3) \ {i}
    /\ queue' = queue

LEMMA CallbackEffect ==
    ASSUME Ready(state), RunCallback
    PROVE  Ready(state') /\ \E i \in Id : RunByNs3(i)
<1> DEFINE r == Tail(ns3)
           i == ns3[1].id
<1>1. /\ Queues(queue, ns3) /\ ns3 # <<>> /\ Head(ns3).kind = "call" /\ ~executing
      /\ executing \in BOOLEAN /\ ArmedFor(queue, ns3)
      /\ queue' = queue /\ ns3' = r /\ executing' = executing /\ ran' = {Head(ns3).id}
  BY ReadyFields DEF RunCallback
<1>2. /\ queue \in Seq(QueueEvent) /\ ns3 \in Seq(Ns3Event) /\ Ordered(ns3) /\ Unique(ns3)
      /\ OneTimer(ns3) /\ Ordered(queue) /\ Unique(queue)
      /\ \A x \in Elems(queue), y \in Elems(ns3) : x.id # y.id
  BY <1>1 DEF Queues
<1>3. /\ 1 \in DOMAIN ns3 /\ Head(ns3) = ns3[1] /\ Head(ns3) \in Ns3Event
      /\ r \in Seq(Ns3Event) /\ Removed(r, ns3, 1)
  BY <1>1, <1>2, TailFacts
<1> HIDE DEF r
<1>4. /\ Ordered(r) /\ Unique(r) /\ OneTimer(r)
      /\ \A x : x \in Elems(r) <=> \E j \in DOMAIN ns3 : j # 1 /\ x = ns3[j]
  BY <1>2, <1>3, RemovedFacts
<1>5. i \in Id /\ i # "none" /\ ns3[1].kind = "call"
  BY <1>1, <1>3 DEF Ns3Event
<1>6. \A y \in Elems(r) : y \in Elems(ns3) /\ y.id # i
  <2>1. \A j \in DOMAIN ns3 : j # 1 => ns3[j].id # i
    BY <1>2, <1>3, <1>5 DEF Unique
  <2> QED BY <1>4, <2>1 DEF Elems
<1>7. \A y \in Elems(ns3) : y.kind = "exec" \/ y.id # i => y \in Elems(r)
  BY <1>4, <1>5 DEF Elems
<1>8. Queues(queue, r)
  BY <1>2, <1>3, <1>4, <1>6 DEF Queues
<1>9. ArmedFor(queue, r)
  BY <1>1, <1>7 DEF ArmedFor
<1>10. Ready(state')
  BY <1>1, <1>8, <1>9, ReadyNext
<1>11. RunByNs3(i)
  <2>1. ran' = {i}
    BY <1>1, <1>3
  <2>2. i \in Called(ns3)
    BY <1>3, <1>5 DEF Called, Ids
  <2> HIDE DEF i
  <2>3. \A a : a \in Called(r) <=> a \in Called(ns3) /\ a # i
    BY <1>6, <1>7 DEF Called, Ids, Elems
  <2> QED BY <1>1, <2>1, <2>2, <2>3 DEF RunByNs3
<1> QED BY <1>5, <1>10, <1>11

\* Nothing in an ordered sequence is earlier than its first element.
LEMMA HeadIsFirst ==
    ASSUME NEW R, NEW s \in Seq(R), \A y \in R : y.time \in Nat, Ordered(s), NEW j \in DOMAIN s
    PROVE  s # <<>> /\ Head(s).time =< s[j].time
<1>1. 1 \in DOMAIN s /\ s # <<>> /\ Head(s) = s[1] /\ s[1] \in R /\ s[j] \in R
  OBVIOUS
<1>2. CASE j = 1
  BY <1>1, <1>2
<1>3. CASE j # 1
  BY <1>1, <1>3 DEF Ordered
<1> QED BY <1>2, <1>3

\* r is s with every element a unit of time nearer.
Nearer(r, s) ==
    /\ DOMAIN r = DOMAIN s
    /\ \A j \in DOMAIN s : r[j] = [s[j] EXCEPT !.time = s[j].time - 1]

LEMMA EarlierFacts ==
    ASSUME NEW s, \A j \in DOMAIN s : s[j].time \in Nat
    PROVE  Nearer(Earlier(s), s)
<1>1. \A j \in DOMAIN s : ~(s[j].time < 0)
  OBVIOUS
<1>2. Earlier(s) = [j \in DOMAIN s |-> [s[j] EXCEPT !.time = IF s[j].time < 0 THEN s[j].time
                                                            ELSE s[j].time - 1]]
  BY DEF Earlier
<1> QED BY <1>1, <1>2 DEF Nearer

\* Time passes only when no callback is waiting in ns-3 and no event is due.
Passed ==
    /\ ran' = {} /\ Called(ns3) = {} /\ Called(ns3') = {}
    /\ DOMAIN queue' = DOMAIN queue
    /\ \A j \in DOMAIN queue : /\ queue[j].time > 0 /\ queue'[j].id = queue[j].id
                               /\ queue'[j].time = queue[j].time - 1

LEMMA TickEffect ==
    ASSUME Ready(state), Tick
    PROVE  Ready(state') /\ Passed
<1>1. /\ Queues(queue, ns3) /\ executing \in BOOLEAN /\ ~executing /\ ArmedFor(queue, ns3)
      /\ ns3 # <<>> => Head(ns3).time > 0
      /\ queue' = Earlier(queue) /\ ns3' = Earlier(ns3) /\ executing' = executing /\ ran' = {}
  BY ReadyFields DEF Tick
<1>2. /\ queue \in Seq(QueueEvent) /\ ns3 \in Seq(Ns3Event) /\ Ordered(ns3) /\ Unique(ns3)
      /\ OneTimer(ns3) /\ Ordered(queue) /\ Unique(queue)
      /\ \A x \in Elems(queue), y \in Elems(ns3) : x.id # y.id
  BY <1>1 DEF Queues
<1>3. /\ \A x \in QueueEvent : x.time \in Nat
      /\ \A x \in Ns3Event : x.time \in Nat
  BY EventFacts
<1>4. \A j \in DOMAIN ns3 : ns3[j] \in Ns3Event /\ ns3[j].time \in Nat /\ ns3[j].time > 0
  <2> SUFFICES ASSUME NEW j \in DOMAIN ns3
               PROVE  ns3[j] \in Ns3Event /\ ns3[j].time \in Nat /\ ns3[j].time > 0
    OBVIOUS
  <2>1. ns3 # <<>> /\ Head(ns3).time =< ns3[j].time
    BY <1>2, <1>3, HeadIsFirst
  <2>2. ns3[j] \in Ns3Event /\ Head(ns3) \in Ns3Event
    BY <1>2, <2>1, TailFacts
  <2>3. ns3[j].time \in Nat /\ Head(ns3).time \in Nat
    BY <1>3, <2>2
  <2> QED BY <1>1, <2>1, <2>2, <2>3
<1>5. \A j \in DOMAIN queue : queue[j] \in QueueEvent /\ queue[j].time \in Nat /\ queue[j].time > 0
  <2> SUFFICES ASSUME NEW j \in DOMAIN queue
               PROVE  queue[j] \in QueueEvent /\ queue[j].time \in Nat /\ queue[j].time > 0
    OBVIOUS
  <2>1. queue # <<>> /\ Head(queue).time =< queue[j].time
    BY <1>2, <1>3, HeadIsFirst
  <2>2. queue[j] \in QueueEvent /\ Head(queue) \in QueueEvent
    BY <1>2, <2>1, TailFacts
  <2>3. PICK y \in Elems(ns3) : y.time =< Head(queue).time
    BY <1>1, <2>1 DEF ArmedFor
  <2>4. y.time \in Nat /\ y.time > 0
    BY <1>4, <2>3 DEF Elems
  <2>5. queue[j].time \in Nat /\ Head(queue).time \in Nat
    BY <1>3, <2>2
  <2> QED BY <2>1, <2>2, <2>3, <2>4, <2>5
<1>6. Nearer(queue', queue) /\ Nearer(ns3', ns3)
  BY <1>1, <1>4, <1>5, EarlierFacts
<1>7. \A j \in DOMAIN queue :
        /\ queue'[j] \in QueueEvent
        /\ queue'[j].id = queue[j].id /\ queue'[j].time = queue[j].time - 1
  <2>1. ASSUME NEW x \in QueueEvent, x.time > 0, NEW y, y = [x EXCEPT !.time = x.time - 1]
        PROVE  y \in QueueEvent /\ y.id = x.id /\ y.time = x.time - 1
    BY <2>1 DEF QueueEvent
  <2>2. \A j \in DOMAIN queue :
          /\ queue[j] \in QueueEvent /\ queue[j].time > 0
          /\ queue'[j] = [queue[j] EXCEPT !.time = queue[j].time - 1]
    BY <1>5, <1>6 DEF Nearer
  <2> QED BY ZenonT(60), SMTT(60), <2>1, <2>2
<1>8. \A j \in DOMAIN ns3 :
        /\ ns3'[j] \in Ns3Event /\ ns3[j].kind = "exec"
        /\ ns3'[j].id = ns3[j].id /\ ns3'[j].time = ns3[j].time - 1
        /\ ns3'[j].kind = ns3[j].kind /\ ns3'[j].timer = ns3[j].timer
  <2>1. \A j \in DOMAIN ns3 : ns3[j].kind = "exec"
    BY <1>4 DEF Ns3Event
  <2> SUFFICES ASSUME NEW j \in DOMAIN ns3, NEW x \in Ns3Event, x.time > 0, x.kind = "exec"
               PROVE  LET y == [x EXCEPT !.time = x.time - 1]
                      IN  /\ y \in Ns3Event /\ y.id = x.id /\ y.time = x.time - 1
                          /\ y.kind = x.kind /\ y.timer = x.timer
    BY ZenonT(60), SMTT(60), <1>4, <1>6, <2>1 DEF Nearer
  <2> QED BY DEF Ns3Event
<1>9. DOMAIN queue' = DOMAIN queue /\ DOMAIN ns3' = DOMAIN ns3
  BY <1>6 DEF Nearer
<1>10. queue' \in Seq(QueueEvent) /\ ns3' \in Seq(Ns3Event)
  <2>1. queue' = [j \in 1 .. Len(queue) |-> queue'[j]]
    BY <1>1, <1>2, <1>9 DEF Earlier
  <2>2. ns3' = [j \in 1 .. Len(ns3) |-> ns3'[j]]
    BY <1>1, <1>2, <1>9 DEF Earlier
  <2>3. queue' \in [1 .. Len(queue) -> QueueEvent] /\ Len(queue) \in Nat
    BY <1>2, <1>7, <2>1
  <2>4. ns3' \in [1 .. Len(ns3) -> Ns3Event] /\ Len(ns3) \in Nat
    BY <1>2, <1>8, <2>2
  <2> QED BY <2>3, <2>4
<1>11. Ordered(queue') /\ Ordered(ns3')
  <2>1. Ordered(queue')
    BY <1>2, <1>5, <1>7, <1>9 DEF Ordered
  <2>2. Ordered(ns3')
    BY <1>2, <1>4, <1>8, <1>9 DEF Ordered
  <2> QED BY <2>1, <2>2
<1>12. Unique(queue') /\ Unique(ns3') /\ OneTimer(ns3')
  BY <1>2, <1>7, <1>8, <1>9 DEF Unique, OneTimer
<1>13. \A x \in Elems(queue'), y \in Elems(ns3') : x.id # y.id
  BY <1>2, <1>7, <1>8, <1>9 DEF Elems
<1>14. Queues(queue', ns3')
  BY <1>10, <1>11, <1>12, <1>13 DEF Queues
<1>15. ArmedFor(queue', ns3')
  <2> SUFFICES ASSUME queue' # <<>>
               PROVE  \E y \in Elems(ns3') : y.kind = "exec" /\ y.time =< Head(queue').time
    BY DEF ArmedFor
  <2>1. 1 \in DOMAIN queue' /\ Head(queue') = queue'[1]
    BY <1>10, TailFacts
  <2>2. queue # <<>> /\ Head(queue) = queue[1] /\ 1 \in DOMAIN queue
    BY <1>2, <1>9, <2>1
  <2>3. PICK j \in DOMAIN ns3 : ns3[j].kind = "exec" /\ ns3[j].time =< Head(queue).time
    BY <1>1, <2>2 DEF ArmedFor, Elems
  <2>4. ns3'[j].kind = "exec" /\ ns3'[j].time =< Head(queue').time /\ ns3'[j] \in Elems(ns3')
    BY <1>4, <1>5, <1>7, <1>8, <1>9, <2>1, <2>2, <2>3 DEF Elems
  <2> QED BY <2>4
<1>16. Ready(state')
  BY <1>1, <1>14, <1>15, ReadyNext
<1>17. Called(ns3) = {} /\ Called(ns3') = {}
  <2>1. \A j \in DOMAIN ns3 : ns3[j].id = "none"
    BY <1>4, <1>8 DEF Ns3Event
  <2> QED BY <1>8, <1>9, <2>1 DEF Called, Ids
<1> QED BY <1>1, <1>5, <1>7, <1>9, <1>16, <1>17 DEF Passed

-----------------------------------------------------------------------------
\* The entry and its timer

NoTimerEvents ==
    (\A x \in Elems(queue) : x.id \notin TimerId) /\ Called(ns3) \cap TimerId = {}

\* The event of the timer is in one of the two queues.
TimerSet ==
    phase = "live" /\ ~finalizing =>
        (\E x \in Elems(queue) : x.id = expiryTimer) \/ expiryTimer \in Called(ns3)

\* The only timer event around is that of the timer set last, in the queue with
\* the time that is left, or in ns-3 when none is left.
Exact ==
    /\ finalizing => phase = "live" /\ left = 0 /\ NoTimerEvents
    /\ phase # "live" => NoTimerEvents
    /\ phase = "live" =>
         /\ \A x \in Elems(queue) : x.id \in TimerId => x.id = expiryTimer /\ x.time = left
         /\ \A i \in Called(ns3) : i \in TimerId => i = expiryTimer /\ left = 0

\* The inductive invariant.
PInv ==
    /\ Ready(state) /\ current \in Context
    /\ left \in Nat /\ finalizing \in BOOLEAN /\ raced \in BOOLEAN
    /\ phase = "live" => expiryTimer \in TimerId
    /\ TimerSet
    /\ ~raced => Exact

LEMMA PInvInit == PitExpiryInit => PInv
<1> SUFFICES ASSUME PitExpiryInit PROVE PInv
  OBVIOUS
<1>1. /\ queue = <<>> /\ ns3 = <<>> /\ executing = FALSE /\ current \in Context
      /\ phase = "new" /\ left = 0 /\ finalizing = FALSE /\ raced = FALSE
  BY DEF PitExpiryInit, Init
<1>2. Elems(queue) = {} /\ Elems(ns3) = {} /\ Called(ns3) = {}
  BY <1>1 DEF Elems, Called, Ids
<1>3. Queues(queue, ns3)
  BY <1>1, <1>2 DEF Queues, Ordered, Unique, OneTimer
<1>4. state \in SState /\ state.queue = queue /\ state.ns3 = ns3
      /\ ArmedFor(queue, ns3)
  BY ZenonT(60), <1>1, <1>3 DEF state, SState, Queues, ArmedFor
<1> QED BY ZenonT(60), <1>1, <1>2, <1>3, <1>4 DEF PInv, Ready, TimerSet, Exact, NoTimerEvents

\* Setting the timer: the old event is cancelled, if it is still in the queue,
\* and a new one takes its place.
LEMMA SetTimerStep ==
    ASSUME PInv, NEW id \in TimerId, NEW t \in 0 .. MaxDelay, SetTimer(id, t)
    PROVE  PInv'
<1> DEFINE s1 == cancelImpl(state, expiryTimer, Node)
           s2 == schedule(s1, id, t, Node)
           x == [id |-> id, time |-> t, context |-> Node]
<1>1. Ready(state) /\ state.queue = queue /\ state.ns3 = ns3 /\ state.executing = executing
  BY ReadyFields DEF PInv
<1>2. /\ Ready(s1) /\ s1.executing = executing /\ Called(s1.ns3) = Called(ns3)
      /\ \A y : y \in Elems(s1.queue) <=> y \in Elems(queue) /\ y.id # expiryTimer
  BY <1>1, CancelFacts
<1> HIDE DEF s1
<1>3. id \in Id /\ id # "none" /\ id \notin Ids(queue) /\ id \notin Ids(ns3)
  BY DEF SetTimer
<1>4. id \notin Ids(s1.queue) /\ id \notin Ids(s1.ns3)
  <2>1. \A y \in Elems(queue) : y.id # id
    BY <1>3 DEF Ids, Elems
  <2>2. \A y \in Elems(s1.queue) : y.id # id
    BY <1>2, <2>1
  <2>3. id \notin Called(s1.ns3)
    BY <1>2, <1>3 DEF Called
  <2> QED BY <1>3, <2>2, <2>3 DEF Called, Ids, Elems
<1>5. /\ Ready(s2) /\ s2.executing = s1.executing /\ Called(s2.ns3) = Called(s1.ns3)
      /\ Elems(s2.queue) = Elems(s1.queue) \cup {x}
  <2>1. s2 = schedule(s1, id, t, Node) /\ x = [id |-> id, time |-> t, context |-> Node]
    OBVIOUS
  <2> HIDE DEF s2, x
  <2>2. Enqueued(s1, s2, x)
    BY ZenonT(60), SMTT(60), <1>2, <1>3, <1>4, <2>1, PitExpiryAssumption, ScheduleEnqueues
  <2> QED BY ZenonT(60), SMTT(60), <2>2 DEF Enqueued
<1>6. x.id = id /\ x.time = t
  OBVIOUS
<1>7. Becomes(s2) /\ executing' = executing
  BY DEF SetTimer, setExpiryTimer, s1
<1> HIDE DEF s2, x
<1>8. Ready(state')
  BY <1>2, <1>5, <1>7, ReadyBecomes
<1>9. queue' = s2.queue /\ ns3' = s2.ns3
  BY <1>7 DEF Becomes
<1>10. /\ \A y : y \in Elems(queue') <=> (y \in Elems(queue) /\ y.id # expiryTimer) \/ y = x
       /\ Called(ns3') = Called(ns3)
  BY <1>2, <1>5, <1>9
<1>11. /\ phase' = "live" /\ expiryTimer' = id /\ left' = t /\ finalizing' = finalizing
       /\ ~finalizing /\ phase # "erased" /\ raced' = (raced \/ expiryTimer \in Ids(ns3))
       /\ current' = current
  BY DEF SetTimer
<1>12. TimerSet'
  <2>1. x \in Elems(queue')
    BY <1>10
  <2> QED BY <1>6, <1>11, <2>1 DEF TimerSet
<1>13. ~raced' => Exact'
  <2> SUFFICES ASSUME ~raced' PROVE Exact'
    OBVIOUS
  <2>1. Exact /\ expiryTimer \notin Called(ns3)
    BY ZenonT(60), <1>11 DEF PInv, Called
  <2>2. \A y \in Elems(queue) : y.id \in TimerId => y.id = expiryTimer
    BY <2>1 DEF Exact, NoTimerEvents
  <2>3. \A i \in Called(ns3) : i \notin TimerId
    BY <2>1 DEF Exact, NoTimerEvents
  <2> QED BY <1>6, <1>10, <1>11, <2>2, <2>3 DEF Exact
<1>14. left' \in Nat /\ finalizing' \in BOOLEAN /\ raced' \in BOOLEAN /\ current' \in Context
  BY <1>11 DEF PInv
<1> QED BY <1>8, <1>11, <1>12, <1>13, <1>14 DEF PInv

\* The callback: the entry goes, and with it the event of its timer.
LEMMA FinalizeStep == ASSUME PInv, onInterestFinalize PROVE PInv'
<1> DEFINE s1 == cancelImpl(state, expiryTimer, Node)
<1>1. Ready(state) /\ state.queue = queue /\ state.ns3 = ns3 /\ state.executing = executing
  BY ReadyFields DEF PInv
<1>2. /\ Ready(s1) /\ s1.executing = executing /\ Called(s1.ns3) = Called(ns3)
      /\ \A y : y \in Elems(s1.queue) <=> y \in Elems(queue) /\ y.id # expiryTimer
  BY <1>1, CancelFacts
<1>3. Becomes(s1) /\ executing' = executing /\ queue' = s1.queue /\ ns3' = s1.ns3
  BY DEF onInterestFinalize, Becomes
<1> HIDE DEF s1
<1>4. Ready(state')
  BY <1>2, <1>3, ReadyBecomes
<1>5. /\ finalizing /\ finalizing' = FALSE /\ phase' = "erased" /\ left' = left
      /\ raced' = raced /\ current' = current
  BY DEF onInterestFinalize
<1>6. ~raced' => Exact'
  <2> SUFFICES ASSUME ~raced' PROVE Exact'
    OBVIOUS
  <2>1. NoTimerEvents
    BY <1>5 DEF PInv, Exact
  <2>2. NoTimerEvents'
    BY <1>2, <1>3, <2>1 DEF NoTimerEvents
  <2> QED BY <1>5, <2>2 DEF Exact
<1> QED BY ZenonT(60), <1>4, <1>5, <1>6 DEF PInv, TimerSet

\* What a step of executeEvent or of ns-3 does to the invariant.
LEMMA RunStep == ASSUME PInv, RunScheduler PROVE PInv'
<1>1. /\ phase' = phase /\ expiryTimer' = expiryTimer /\ left' = left /\ raced' = raced
      /\ ~finalizing /\ finalizing' = (ran' \cap TimerId # {})
  BY DEF RunScheduler
<1>2. Ready(state) /\ current \in Context
  BY DEF PInv
<1>3. CASE executeEvent \/ EndExecuting
  <2>1. Ready(state') /\ Quiet
    BY <1>2, <1>3, ExecuteEffect, EndEffect
  <2>2. current' \in Context
    <3>1. CASE executeEvent
      <4>1. ns3 # <<>> /\ ns3 \in Seq(Ns3Event) /\ current' = Head(ns3).context
        BY <1>2, <3>1, ReadyFields DEF executeEvent, Queues
      <4>2. Head(ns3) \in Ns3Event
        BY <4>1, TailFacts
      <4> QED BY <4>1, <4>2 DEF Ns3Event
    <3>2. CASE EndExecuting
      BY <1>2, <3>2 DEF EndExecuting
    <3> QED BY <1>3, <3>1, <3>2
  <2>3. finalizing' = FALSE
    BY ZenonT(60), <1>1, <2>1 DEF Quiet
  <2>4. TimerSet'
    BY <1>1, <2>1 DEF PInv, TimerSet, Quiet
  <2>5. ~raced' => Exact'
    BY <1>1, <2>1, <2>3 DEF PInv, Exact, NoTimerEvents, Quiet
  <2> QED BY <1>1, <2>1, <2>2, <2>3, <2>4, <2>5 DEF PInv
<1>4. CASE ProcessExpired
  <2>1. Ready(state') /\ current' = current
    BY <1>2, <1>4, ProcessEffect DEF ProcessExpired
  <2>2. PICK x \in QueueEvent : Dispatched(x)
    BY <1>2, <1>4, ProcessEffect
  <2>3. /\ x \in Elems(queue) /\ x.time = 0
        /\ \A y : y \in Elems(queue') <=> y \in Elems(queue) /\ y.id # x.id
        /\ \/ ran' = {x.id} /\ Called(ns3') = Called(ns3)
           \/ ran' = {} /\ Called(ns3') = Called(ns3) \cup {x.id}
    BY <2>2 DEF Dispatched
  <2>4. finalizing' \in BOOLEAN
    BY <1>1
  <2>5. TimerSet'
    <3> SUFFICES ASSUME phase = "live", ~finalizing'
                 PROVE  (\E y \in Elems(queue') : y.id = expiryTimer)
                        \/ expiryTimer \in Called(ns3')
      BY <1>1 DEF TimerSet
    <3>1. expiryTimer \in TimerId
      BY DEF PInv
    <3>2. (\E y \in Elems(queue) : y.id = expiryTimer) \/ expiryTimer \in Called(ns3)
      BY <1>1 DEF PInv, TimerSet
    <3>3. CASE ran' = {x.id} /\ Called(ns3') = Called(ns3)
      <4>1. x.id # expiryTimer
        BY ZenonT(60), <1>1, <3>1, <3>3
      <4> QED BY <2>3, <3>2, <3>3, <4>1
    <3>4. CASE ran' = {} /\ Called(ns3') = Called(ns3) \cup {x.id}
      BY <2>3, <3>2, <3>4
    <3> QED BY <2>3, <3>3, <3>4
  <2>6. ~raced' => Exact'
    <3> SUFFICES ASSUME ~raced PROVE Exact'
      BY <1>1
    <3>1. Exact
      BY DEF PInv
    <3>2. CASE x.id \in TimerId
      <4>1. phase = "live" /\ x.id = expiryTimer /\ left = 0
        BY <2>3, <3>1, <3>2 DEF Exact, NoTimerEvents
      <4>2. \A y \in Elems(queue') : y.id \notin TimerId
        BY <2>3, <3>1, <4>1 DEF Exact
      <4>3. x.id \notin Called(ns3)
        <5>1. Queues(queue, ns3)
          BY <1>2, ReadyFields
        <5> QED BY <2>3, <5>1 DEF Queues, Called, Ids, Elems
      <4>4. Called(ns3) \cap TimerId = {}
        BY <3>1, <4>1, <4>3 DEF Exact
      <4>5. CASE ran' = {x.id} /\ Called(ns3') = Called(ns3)
        <5>1. NoTimerEvents'
          BY <4>2, <4>4, <4>5 DEF NoTimerEvents
        <5> QED BY <1>1, <4>1, <4>2, <4>4, <4>5, <5>1 DEF Exact
      <4>6. CASE ran' = {} /\ Called(ns3') = Called(ns3) \cup {x.id}
        <5>1. finalizing' = FALSE
          BY ZenonT(60), <1>1, <4>6
        <5> QED BY <1>1, <4>1, <4>2, <4>4, <4>6, <5>1 DEF Exact
      <4> QED BY <2>3, <4>5, <4>6
    <3>3. CASE x.id \notin TimerId
      <4>1. finalizing' = FALSE
        BY ZenonT(60), <1>1, <2>3, <3>3
      <4>2. \A i \in Called(ns3') : i \in TimerId => i \in Called(ns3)
        BY <2>3, <3>3
      <4> QED BY <1>1, <2>3, <3>1, <4>1, <4>2 DEF Exact, NoTimerEvents
    <3> QED BY <3>2, <3>3
  <2> QED BY <1>1, <1>2, <2>1, <2>4, <2>5, <2>6 DEF PInv
<1>5. CASE RunCallback
  <2>1. Ready(state') /\ current' = current
    BY <1>2, <1>5, CallbackEffect DEF RunCallback
  <2>2. PICK i \in Id : RunByNs3(i)
    BY <1>2, <1>5, CallbackEffect
  <2>3. /\ i \in Called(ns3) /\ ran' = {i} /\ Called(ns3') = Called(ns3) \ {i}
        /\ queue' = queue
    BY <2>2 DEF RunByNs3
  <2>4. finalizing' \in BOOLEAN /\ (finalizing' <=> i \in TimerId)
    BY ZenonT(60), <1>1, <2>3
  <2>5. TimerSet'
    BY <1>1, <2>3, <2>4 DEF PInv, TimerSet
  <2>6. ~raced' => Exact'
    <3> SUFFICES ASSUME ~raced PROVE Exact'
      BY <1>1
    <3>1. Exact
      BY DEF PInv
    <3>2. CASE i \in TimerId
      <4>1. phase = "live" /\ i = expiryTimer /\ left = 0
        BY <2>3, <3>1, <3>2 DEF Exact, NoTimerEvents
      <4>2. \A y \in Elems(queue) : y.id # i
        <5>1. Queues(queue, ns3)
          BY <1>2, ReadyFields
        <5> QED BY <2>3, <5>1 DEF Queues, Called, Ids, Elems
      <4>3. NoTimerEvents'
        BY <2>3, <3>1, <4>1, <4>2 DEF NoTimerEvents, Exact
      <4> QED BY <1>1, <4>1, <4>3 DEF Exact, NoTimerEvents
    <3>3. CASE i \notin TimerId
      BY <1>1, <2>3, <2>4, <3>1, <3>3 DEF Exact, NoTimerEvents
    <3> QED BY <3>2, <3>3
  <2> QED BY <1>1, <1>2, <2>1, <2>4, <2>5, <2>6 DEF PInv
<1> QED BY <1>3, <1>4, <1>5 DEF RunScheduler

\* Time passes for the timer and for the entry alike.
LEMMA TimeStep == ASSUME PInv, Time PROVE PInv'
<1>1. /\ phase' = phase /\ expiryTimer' = expiryTimer /\ raced' = raced
      /\ ~finalizing /\ finalizing' = finalizing
      /\ left' = IF left = 0 THEN 0 ELSE left - 1
      /\ Tick /\ current' = current
  BY DEF Time, Tick
<1>2. Ready(state') /\ Passed
  BY <1>1, TickEffect DEF PInv
<1>3. /\ Called(ns3) = {} /\ Called(ns3') = {} /\ DOMAIN queue' = DOMAIN queue
      /\ \A j \in DOMAIN queue : /\ queue[j].time > 0 /\ queue'[j].id = queue[j].id
                                 /\ queue'[j].time = queue[j].time - 1
  BY <1>2 DEF Passed
<1>4. left' \in Nat
  BY <1>1 DEF PInv
<1>5. TimerSet'
  <2> SUFFICES ASSUME phase = "live" PROVE \E y \in Elems(queue') : y.id = expiryTimer
    BY <1>1 DEF TimerSet
  <2>1. PICK x \in Elems(queue) : x.id = expiryTimer
    BY <1>1, <1>3 DEF PInv, TimerSet
  <2>2. PICK j \in DOMAIN queue : x = queue[j]
    BY DEF Elems
  <2>3. queue'[j] \in Elems(queue') /\ queue'[j].id = expiryTimer
    BY <1>3, <2>1, <2>2 DEF Elems
  <2> QED BY <2>3
<1>6. ~raced' => Exact'
  <2> SUFFICES ASSUME ~raced PROVE Exact'
    BY <1>1
  <2>1. Exact
    BY DEF PInv
  <2>2. ASSUME NEW y \in Elems(queue'), y.id \in TimerId
        PROVE  phase = "live" /\ y.id = expiryTimer /\ y.time = left'
    <3>1. PICK j \in DOMAIN queue : y = queue'[j]
      BY <1>3 DEF Elems
    <3>2. queue[j] \in Elems(queue) /\ queue[j].id = y.id
      BY <1>3, <3>1 DEF Elems
    <3>3. phase = "live" /\ y.id = expiryTimer /\ queue[j].time = left
      BY <2>1, <2>2, <3>2 DEF Exact, NoTimerEvents
    <3> QED BY <1>1, <1>3, <3>1, <3>3
  <2> QED BY <1>1, <1>3, <2>2 DEF Exact, NoTimerEvents
<1> QED BY <1>1, <1>2, <1>4, <1>5, <1>6 DEF PInv

\* Other events come and go without touching the timer's.
LEMMA OtherStep == ASSUME PInv, OtherEvents PROVE PInv'
<1>1. /\ phase' = phase /\ expiryTimer' = expiryTimer /\ left' = left /\ raced' = raced
      /\ finalizing' = finalizing
  BY DEF OtherEvents, entryVars
<1>2. PICK id \in Id \ TimerId, c \in Context :
        Cancel(id, c) \/ \E t \in 0 .. MaxDelay : Schedule(id, t, c)
  BY DEF OtherEvents, Client
<1>3. Ready(state) /\ state.queue = queue /\ state.ns3 = ns3 /\ state.executing = executing
  BY ReadyFields DEF PInv
<1>4. /\ Ready(state') /\ current' = current
      /\ \A y : y.id # id => (y \in Elems(queue') <=> y \in Elems(queue))
      /\ Called(ns3') = Called(ns3)
  <2>1. CASE Cancel(id, c)
    <3> DEFINE s1 == cancelImpl(state, id, c)
    <3>1. /\ Ready(s1) /\ s1.executing = executing /\ Called(s1.ns3) = Called(ns3)
          /\ \A y : y \in Elems(s1.queue) <=> y \in Elems(queue) /\ y.id # id
      BY <1>3, CancelFacts
    <3>2. Becomes(s1) /\ executing' = executing /\ queue' = s1.queue /\ ns3' = s1.ns3
          /\ current' = current
      BY <2>1 DEF Cancel, Becomes
    <3> HIDE DEF s1
    <3>3. Ready(state')
      BY <3>1, <3>2, ReadyBecomes
    <3> QED BY <3>1, <3>2, <3>3
  <2>2. ASSUME NEW t \in 0 .. MaxDelay, Schedule(id, t, c)
        PROVE  /\ Ready(state') /\ current' = current
               /\ \A y : y.id # id => (y \in Elems(queue') <=> y \in Elems(queue))
               /\ Called(ns3') = Called(ns3)
    <3> DEFINE s1 == schedule(state, id, t, c)
               x == [id |-> id, time |-> t, context |-> c]
    <3>1. id \notin Ids(queue) /\ id \notin Ids(ns3)
      BY <2>2 DEF Schedule
    <3>2. /\ Ready(s1) /\ s1.executing = executing /\ Called(s1.ns3) = Called(ns3)
          /\ Elems(s1.queue) = Elems(queue) \cup {x}
      <4>1. s1 = schedule(state, id, t, c) /\ x = [id |-> id, time |-> t, context |-> c]
        OBVIOUS
      <4> HIDE DEF s1, x
      <4>2. Enqueued(state, s1, x)
        BY ZenonT(60), SMTT(60), <1>2, <1>3, <2>2, <3>1, <4>1, ScheduleEnqueues
      <4> QED BY ZenonT(60), SMTT(60), <1>3, <4>2 DEF Enqueued
    <3>3. Becomes(s1) /\ executing' = executing /\ queue' = s1.queue /\ ns3' = s1.ns3
          /\ current' = current
      BY <2>2 DEF Schedule, Becomes
    <3>4. x.id = id
      OBVIOUS
    <3> HIDE DEF s1, x
    <3>5. Ready(state')
      BY <3>2, <3>3, ReadyBecomes
    <3> QED BY <3>2, <3>3, <3>4, <3>5
  <2> QED BY <1>2, <2>1, <2>2
<1>5. TimerSet'
  BY <1>1, <1>2, <1>4 DEF PInv, TimerSet
<1>6. ~raced' => Exact'
  BY <1>1, <1>2, <1>4 DEF PInv, Exact, NoTimerEvents
<1> QED BY <1>1, <1>4, <1>5, <1>6 DEF PInv

-----------------------------------------------------------------------------
LEMMA PInvStep == PInv /\ [PitExpiryNext]_pitExpiryVars => PInv'
<1> SUFFICES ASSUME PInv, [PitExpiryNext]_pitExpiryVars PROVE PInv'
  OBVIOUS
<1>1. CASE UNCHANGED pitExpiryVars
  <2>1. /\ queue' = queue /\ ns3' = ns3 /\ executing' = executing /\ current' = current
        /\ phase' = phase /\ expiryTimer' = expiryTimer /\ left' = left /\ raced' = raced
        /\ finalizing' = finalizing
    BY <1>1 DEF pitExpiryVars, vars, entryVars
  <2>2. state' = state
    BY <2>1 DEF state
  <2> QED BY <2>1, <2>2 DEF PInv, TimerSet, Exact, NoTimerEvents
<1> QED BY <1>1, SetTimerStep, FinalizeStep, RunStep, TimeStep, OtherStep
        DEF PitExpiryNext, Proceed

\* Every step of the nodes, of the Scheduler and of ns-3 keeps the invariant,
\* for any nodes, events and delays.
THEOREM InductiveInvariant == PitExpirySpec => []PInv
BY PInvInit, PInvStep, PTL DEF PitExpirySpec

\* No wake-up is lost: ns-3 calls executeEvent no later than the first queued
\* event is due.
THEOREM NoWakeUpLost == PitExpirySpec => []HeadIsArmed
<1>1. PInv => HeadIsArmed
  <2> SUFFICES ASSUME PInv, ~executing, queue # <<>>
               PROVE  \E j \in DOMAIN ns3 :
                        ns3[j].kind = "exec" /\ ns3[j].time =< Head(queue).time
    BY DEF HeadIsArmed
  <2>1. ArmedFor(queue, ns3)
    BY ReadyFields DEF PInv
  <2> QED BY <2>1 DEF ArmedFor, Elems
<1> QED BY <1>1, InductiveInvariant, PTL

\* An event is in one place, so that scheduling it once leads to one callback.
THEOREM OnePlaceEach == PitExpirySpec => []OnePlace
<1>1. PInv => OnePlace
  <2> SUFFICES ASSUME PInv PROVE OnePlace
    OBVIOUS
  <2>1. /\ Unique(queue) /\ Unique(ns3) /\ queue \in Seq(QueueEvent)
        /\ \A x \in Elems(queue), y \in Elems(ns3) : x.id # y.id
    BY ReadyFields DEF PInv, Queues
  <2>2. \A j \in DOMAIN queue : queue[j].id # "none"
    BY <2>1, EventFacts
  <2> QED BY <2>1, <2>2 DEF OnePlace, Unique, Elems
<1> QED BY <1>1, InductiveInvariant, PTL

\* An entry in the PIT has a timer whose event is still going to be run.
THEOREM LiveIsTimed == PitExpirySpec => []LiveHasTimer
<1>1. PInv => LiveHasTimer
  BY DEF PInv, TimerSet, LiveHasTimer, Called, Ids, Elems
<1> QED BY <1>1, InductiveInvariant, PTL

\* The entry is erased once and exactly when its timer is due, unless the timer
\* was set when the callback of the one before had been handed to ns-3.
THEOREM ExactTimer == PitExpirySpec => []ExactUnlessRaced
<1>1. PInv => ExactUnlessRaced
  <2> SUFFICES ASSUME PInv, ~raced
               PROVE  /\ EraseFindsEntry
                      /\ finalizing => left = 0
                      /\ phase = "live" => \A j \in DOMAIN queue :
                           queue[j].id = expiryTimer => queue[j].time = left
    BY DEF ExactUnlessRaced
  <2>1. Exact
    BY DEF PInv
  <2>2. phase = "live" => expiryTimer \in TimerId
    BY DEF PInv
  <2> QED BY <2>1, <2>2 DEF Exact, EraseFindsEntry, Elems
<1> QED BY <1>1, InductiveInvariant, PTL
=============================================================================
