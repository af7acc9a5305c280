------------------------ MODULE DnlVisualizerProofs ------------------------
(* Proofs about two parts that share nothing.                                 *)
(*                                                                            *)
(* The Dead Nonce List, for every set of nonces and all constants that        *)
(* satisfy ConstantsAssumption.                                               *)
(*                                                                            *)
(* The visualizer, for every script, every set of speeds and every number of  *)
(* timers: the model never runs ahead of the view, no pause message is lost   *)
(* or repeated, a playing view always has its timer, and slices reach their   *)
(* targets.                                                                   *)
EXTENDS DeadNonceList, Visualizer, FiniteSetTheorems, TLAPS

\* The provers a leaf that names none is tried with.
USE SMTT(30), ZenonT(30), SMTT(60)

-----------------------------------------------------------------------------
(* Sequences.                                                                 *)

(* A sequence is a function on 1 .. Len.                                      *)
LEMMA LenProperties ==
  ASSUME NEW S, NEW q \in Seq(S)
  PROVE  Len(q) \in Nat /\ DOMAIN q = 1 .. Len(q) /\ q \in [1 .. Len(q) -> S]
OBVIOUS

(* Its elements.                                                              *)
LEMMA ElementOfSeq ==
  ASSUME NEW S, NEW q \in Seq(S), NEW i \in 1 .. Len(q)
  PROVE  q[i] \in S
OBVIOUS

(* The empty sequence is the one of length 0.                                 *)
LEMMA EmptySeq ==
  ASSUME NEW S
  PROVE  <<>> \in Seq(S) /\ Len(<<>>) = 0 /\ \A q \in Seq(S) : q # <<>> => Len(q) \in Nat \ {0}
OBVIOUS

(* Type, length and elements of a concatenation.                              *)
LEMMA ConcatProperties ==
  ASSUME NEW S, NEW q \in Seq(S), NEW r \in Seq(S)
  PROVE  /\ q \o r \in Seq(S) /\ Len(q \o r) = Len(q) + Len(r)
         /\ \A i \in 1 .. Len(q) + Len(r) :
              (q \o r)[i] = IF i <= Len(q) THEN q[i] ELSE r[i - Len(q)]
OBVIOUS

(* The empty sequence is neutral.                                             *)
LEMMA ConcatEmptySeq ==
  ASSUME NEW S, NEW q \in Seq(S)
  PROVE  q \o <<>> = q /\ <<>> \o q = q
OBVIOUS

(* Type, length and elements after Append.                                    *)
LEMMA AppendProperties ==
  ASSUME NEW S, NEW q \in Seq(S), NEW x \in S
  PROVE  /\ Append(q, x) \in Seq(S) /\ Append(q, x) # <<>>
         /\ Len(Append(q, x)) = Len(q) + 1 /\ Append(q, x)[Len(q) + 1] = x
         /\ \A i \in 1 .. Len(q) : Append(q, x)[i] = q[i]
OBVIOUS

(* Append concatenates a sequence of one element.                             *)
LEMMA AppendIsConcat ==
  ASSUME NEW S, NEW q \in Seq(S), NEW x \in S
  PROVE  Append(q, x) = q \o <<x>>
OBVIOUS

(* Type, length and elements of a part.                                       *)
LEMMA SubSeqProperties ==
  ASSUME NEW S, NEW q, NEW a \in Int, NEW b \in Int, \A i \in a .. b : q[i] \in S
  PROVE  /\ SubSeq(q, a, b) \in Seq(S)
         /\ Len(SubSeq(q, a, b)) = IF a <= b THEN b - a + 1 ELSE 0
         /\ \A i \in 1 .. b - a + 1 : SubSeq(q, a, b)[i] = q[a + i - 1]
OBVIOUS

-----------------------------------------------------------------------------
(* The Dead Nonce List.                                                       *)

Item == Nonce \cup {MARK}

\* n is among the newest k + 1 entries of q.
Near(q, n, k) == \E i \in 1 .. Len(q) : q[i] = n /\ Len(q) - i =< k

\* Where RetentionGuarantee comes from: the distance of a nonce from the newest
\* end never exceeds the number of entries put behind it.
NearEnd ==
    \A n \in Nonce : pushedSince[n] < MIN_CAPACITY => Near(queue, n, pushedSince[n])

IInv == TypeOK /\ NoDuplicates /\ QueueBounded /\ NearEnd

\* e is q without its d oldest entries, as evictEntries() leaves it.
Evicted(q, e, c) ==
    \E d \in 0 .. Len(q) :
        /\ Len(e) = Len(q) - d
        /\ \A i \in 1 .. Len(q) - d : e[i] = q[i + d]
        /\ d > 0 => Len(q) - d >= c
        /\ Len(q) - d =< c \/ d = EVICT_LIMIT

\* r is q with n moved to the end.
Relocated(q, r, n) ==
    \E p \in 1 .. Len(q) :
        /\ q[p] = n
        /\ \A i \in 1 .. Len(q) :
             r[i] = IF i < p THEN q[i] ELSE IF i < Len(q) THEN q[i + 1] ELSE n

-----------------------------------------------------------------------------
\* evictEntries() drops a prefix.  When it drops anything, at least the capacity
\* remains; and either the queue fits the capacity or EVICT_LIMIT entries went.
LEMMA EvictFacts ==
    ASSUME NEW q \in Seq(Item), NEW c \in Nat
    PROVE  evictEntries(q, c) \in Seq(Item) /\ Evicted(q, evictEntries(q, c), c)
<1> DEFINE excess == IF Len(q) =< c THEN 0 ELSE Len(q) - c
           d == IF excess < EVICT_LIMIT THEN excess ELSE EVICT_LIMIT
<1>1. Len(q) \in Nat /\ \A i \in 1 .. Len(q) : q[i] \in Item
  BY LenProperties, ElementOfSeq
<1>2. /\ d \in 0 .. Len(q)
      /\ d > 0 => Len(q) - d >= c
      /\ Len(q) - d =< c \/ d = EVICT_LIMIT
  BY <1>1, ConstantsAssumption
<1>3. evictEntries(q, c) = SubSeq(q, d + 1, Len(q))
  BY DEF evictEntries
<1> HIDE DEF d
<1>4. /\ SubSeq(q, d + 1, Len(q)) \in Seq(Item)
      /\ Len(SubSeq(q, d + 1, Len(q))) = Len(q) - d
      /\ \A i \in 1 .. Len(q) - d : SubSeq(q, d + 1, Len(q))[i] = q[i + d]
  <2>1. \A i \in d + 1 .. Len(q) : q[i] \in Item
    BY <1>1, <1>2
  <2> QED  BY <2>1, <1>1, <1>2, SubSeqProperties
<1> QED  BY <1>2, <1>3, <1>4 DEF Evicted

\* relocate() moves n to the end, keeps the length, and moves every other entry
\* at most one position towards the front.
LEMMA RelocateFacts ==
    ASSUME NEW q \in Seq(Item), NEW n \in Nonce, n \in Entries(q)
    PROVE  /\ Relocate(q, n) \in Seq(Item)
           /\ Len(Relocate(q, n)) = Len(q)
           /\ Relocated(q, Relocate(q, n), n)
<1> DEFINE p == CHOOSE i \in DOMAIN q : q[i] = n
           r == [i \in 1 .. Len(q) |-> IF i < p THEN q[i]
                                       ELSE IF i < Len(q) THEN q[i + 1] ELSE n]
<1>1. /\ Len(q) \in Nat
      /\ DOMAIN q = 1 .. Len(q)
      /\ \A i \in 1 .. Len(q) : q[i] \in Item
  BY LenProperties, ElementOfSeq
<1>2. p \in 1 .. Len(q) /\ q[p] = n
  BY <1>1 DEF Entries
<1>3. Relocate(q, n) = r
  BY <1>1 DEF Relocate
<1> HIDE DEF p
<1>4. r \in [1 .. Len(q) -> Item]
  BY <1>1, <1>2 DEF Item
<1>5. r \in Seq(Item) /\ Len(r) = Len(q)
  BY <1>1, <1>4
<1> QED  BY <1>2, <1>3, <1>5 DEF Relocated

-----------------------------------------------------------------------------
LEMMA InitIInv == Init => IInv
<1> SUFFICES ASSUME Init PROVE IInv
  OBVIOUS
<1> USE ConstantsAssumption
<1>1. queue \in Seq(Item) /\ Len(queue) = EXPECTED_MARK_COUNT
  BY DEF Init, Item
<1>2. TypeOK
  BY <1>1 DEF Init, TypeOK, Item
<1>3. NoDuplicates
  BY <1>1 DEF Init, NoDuplicates, Distinct
<1>4. QueueBounded
  BY <1>1 DEF Init, QueueBounded
<1>5. NearEnd
  BY DEF Init, NearEnd
<1> QED  BY <1>2, <1>3, <1>4, <1>5 DEF IInv

\* Scaling keeps the capacity between the two limits.
LEMMA ScaledInRange ==
    ASSUME NEW c \in MIN_CAPACITY .. MAX_CAPACITY, NEW counts
    PROVE  Scaled(c, counts) \in MIN_CAPACITY .. MAX_CAPACITY
BY ConstantsAssumption DEF Scaled, Up, Down
-----------------------------------------------------------------------------
\* An entry among the newest ones, no more of them than the capacity, is as
\* near to the end after an eviction.
LEMMA EvictKeepsNear ==
    ASSUME NEW q \in Seq(Item), NEW c \in Nat, NEW n, NEW k \in Nat,
           k < c, Near(q, n, k)
    PROVE  Near(evictEntries(q, c), n, k)
<1> DEFINE e == evictEntries(q, c)
<1>1. Len(q) \in Nat
  BY LenProperties
<1>2. PICK i \in 1 .. Len(q) : q[i] = n /\ Len(q) - i =< k
  BY DEF Near
<1>3. PICK d \in 0 .. Len(q) :
        /\ Len(e) = Len(q) - d
        /\ \A j \in 1 .. Len(q) - d : e[j] = q[j + d]
        /\ d > 0 => Len(q) - d >= c
  BY ZenonT(60), EvictFacts DEF Evicted
<1> HIDE DEF e
<1>4. i - d \in 1 .. Len(e)
  BY <1>1, <1>2, <1>3
<1>5. e[i - d] = n /\ Len(e) - (i - d) =< k
  BY <1>1, <1>2, <1>3, <1>4
<1> QED  BY <1>4, <1>5 DEF e, Near

\* Evicting keeps the entries distinct.
LEMMA EvictKeepsDistinct ==
    ASSUME NEW q \in Seq(Item), NEW c \in Nat, Distinct(q)
    PROVE  Distinct(evictEntries(q, c))
<1> DEFINE e == evictEntries(q, c)
<1>1. Len(q) \in Nat
  BY LenProperties
<1>2. PICK d \in 0 .. Len(q) :
        /\ Len(e) = Len(q) - d
        /\ \A k \in 1 .. Len(q) - d : e[k] = q[k + d]
  BY ZenonT(60), SMTT(60), EvictFacts DEF Evicted
<1> HIDE DEF e
<1>3. \A i \in 1 .. Len(e) : i + d \in 1 .. Len(q) /\ e[i] = q[i + d]
  BY <1>1, <1>2
<1>4. ASSUME NEW i \in 1 .. Len(e), NEW j \in 1 .. Len(e), e[i] = e[j], e[i] # MARK
      PROVE  i = j
  <2>1. i + d \in 1 .. Len(q) /\ j + d \in 1 .. Len(q) /\ q[i + d] = q[j + d] /\ q[i + d] # MARK
    BY ZenonT(60), SMTT(60), <1>3, <1>4
  <2>2. i + d = j + d
    BY ZenonT(60), SMTT(60), <2>1 DEF Distinct
  <2>3. i \in Int /\ j \in Int /\ d \in Int
    BY <1>1, <1>2
  <2> QED  BY <2>2, <2>3
<1> QED  BY <1>4 DEF e, Distinct

\* Appending an entry puts it at the end and every other one a step further.
LEMMA AppendNear ==
    ASSUME NEW q \in Seq(Item), NEW x \in Item, NEW n, NEW k \in Nat
    PROVE  /\ Near(Append(q, x), x, 0)
           /\ Near(q, n, k) => Near(Append(q, x), n, k + 1)
<1>1. /\ Len(q) \in Nat
      /\ Len(Append(q, x)) = Len(q) + 1
      /\ \A i \in 1 .. Len(q) : Append(q, x)[i] = q[i]
      /\ Append(q, x)[Len(q) + 1] = x
  BY LenProperties, AppendProperties
<1> QED  BY <1>1 DEF Near

\* add() of a nonce that is already known.
LEMMA AddKnown ==
    ASSUME IInv, NEW n \in Nonce, add(n), has(n)
    PROVE  IInv'
<1> USE ConstantsAssumption
<1>1. /\ queue \in Seq(Item) /\ Len(queue) \in Nat /\ DOMAIN queue = 1 .. Len(queue)
      /\ pushedSince \in [Nonce -> 0 .. MIN_CAPACITY]
  BY LenProperties DEF IInv, TypeOK, Item
<1>2. queue' = Relocate(queue, n)
  BY DEF add
<1>a. n \in Entries(queue)
  BY DEF has
<1>3. /\ queue' \in Seq(Item) /\ Len(queue') = Len(queue)
      /\ DOMAIN queue' = 1 .. Len(queue)
  <2>1. queue' \in Seq(Item) /\ Len(queue') = Len(queue)
    BY <1>1, <1>2, <1>a, RelocateFacts
  <2> QED  BY <2>1
<1>b. Relocated(queue, queue', n)
  BY <1>1, <1>2, <1>a, RelocateFacts
<1>4. PICK p \in 1 .. Len(queue) :
        /\ queue[p] = n
        /\ \A i \in 1 .. Len(queue) : queue'[i] =
             IF i < p THEN queue[i] ELSE IF i < Len(queue) THEN queue[i + 1] ELSE n
  BY <1>b DEF Relocated
<1>5. TypeOK'
  BY <1>1, <1>3 DEF add, IInv, TypeOK, Item, Older
<1>6. NoDuplicates'
  <2> DEFINE old(i) == IF i < p THEN i ELSE IF i < Len(queue) THEN i + 1 ELSE p
  <2>1. \A i \in 1 .. Len(queue) : old(i) \in 1 .. Len(queue) /\ queue'[i] = queue[old(i)]
    BY <1>1, <1>4
  <2>2. \A i, j \in 1 .. Len(queue) : old(i) = old(j) => i = j
    BY <1>1
  <2> HIDE DEF old
  <2>3. \A i, j \in 1 .. Len(queue) : queue[i] = queue[j] /\ queue[i] # MARK => i = j
    BY DEF IInv, NoDuplicates, Distinct
  <2>4. \A i, j \in 1 .. Len(queue) : queue'[i] = queue'[j] /\ queue'[i] # MARK => i = j
    BY ZenonT(60), <2>1, <2>2, <2>3
  <2> QED  BY <1>3, <2>4 DEF NoDuplicates, Distinct
<1>7. QueueBounded'
  BY <1>3 DEF IInv, QueueBounded, add
<1>8. NearEnd'
  <2> SUFFICES ASSUME NEW m \in Nonce, pushedSince'[m] < MIN_CAPACITY
               PROVE  \E i \in 1 .. Len(queue) :
                        queue'[i] = m /\ Len(queue) - i =< pushedSince'[m]
    BY <1>3 DEF NearEnd, Near
  <2>1. CASE m = n
    <3>1. pushedSince'[n] = 0 /\ queue'[Len(queue)] = n /\ Len(queue) \in 1 .. Len(queue)
      BY <1>1, <1>4 DEF add
    <3> QED  BY <3>1, <2>1, <1>1
  <2>2. CASE m # n
    <3>1. pushedSince[m] < MIN_CAPACITY /\ pushedSince'[m] = pushedSince[m] + 1
      BY <2>2, <1>1 DEF add, Older
    <3>2. PICK i \in 1 .. Len(queue) : queue[i] = m /\ Len(queue) - i =< pushedSince[m]
      BY SMTT(60), ZenonT(60), <3>1 DEF IInv, NearEnd, Near
    <3>3. i # p
      BY <2>2, <3>2, <1>4
    <3>4. CASE i < p
      BY SMTT(60), ZenonT(60), <3>1, <3>2, <3>4, <1>1, <1>4
    <3>5. CASE i > p
      <4>1. i - 1 \in 1 .. Len(queue) /\ queue'[i - 1] = m
        BY <3>2, <3>5, <1>1, <1>4
      <4>2. Len(queue) - (i - 1) =< pushedSince'[m]
        BY <3>1, <3>2, <1>1
      <4> QED  BY <4>1, <4>2
    <3> QED  BY <3>3, <3>4, <3>5, <1>1
  <2> QED  BY <2>1, <2>2
<1> QED  BY <1>5, <1>6, <1>7, <1>8 DEF IInv

\* add() of a nonce that is not stored.
LEMMA AddNew ==
    ASSUME IInv, NEW n \in Nonce, add(n), ~has(n)
    PROVE  IInv'
<1> USE ConstantsAssumption
<1> DEFINE q == Append(queue, n)
<1>1. /\ queue \in Seq(Item) /\ Len(queue) \in Nat /\ DOMAIN queue = 1 .. Len(queue)
      /\ pushedSince \in [Nonce -> 0 .. MIN_CAPACITY]
      /\ capacity \in MIN_CAPACITY .. MAX_CAPACITY /\ window \in Nat
  BY LenProperties DEF IInv, TypeOK, Item
<1>2. /\ q \in Seq(Item) /\ Len(q) = Len(queue) + 1
      /\ \A i \in 1 .. Len(queue) : q[i] = queue[i]
      /\ q[Len(queue) + 1] = n
  BY <1>1, AppendProperties DEF Item
<1>3. queue' = evictEntries(q, capacity) /\ capacity' = capacity
  BY DEF add
<1> HIDE DEF q
<1>3a. capacity \in Nat
  BY <1>1
<1>3b. evictEntries(q, capacity) \in Seq(Item) /\ Evicted(q, evictEntries(q, capacity), capacity)
  BY ZenonT(60), SMTT(60), <1>2, <1>3a, EvictFacts
<1>3c. queue' \in Seq(Item) /\ Evicted(q, queue', capacity)
  BY ZenonT(60), SMTT(60), <1>3, <1>3b
<1>4. queue' \in Seq(Item) /\ Len(queue') \in Nat /\ DOMAIN queue' = 1 .. Len(queue')
  BY <1>3c
<1>5. TypeOK'
  BY <1>1, <1>4 DEF add, IInv, TypeOK, Item, Older
<1>6. NoDuplicates'
  <2>1. Distinct(q)
    <3>1. \A i \in 1 .. Len(queue) : queue[i] # n
      BY <1>1 DEF has, Entries
    <3> QED  BY <3>1, <1>1, <1>2 DEF IInv, NoDuplicates, Distinct
  <2> QED  BY <2>1, <1>1, <1>2, <1>3, EvictKeepsDistinct DEF NoDuplicates
<1>7. QueueBounded'
  <2>1. PICK d \in 0 .. Len(q) :
          /\ Len(queue') = Len(q) - d
          /\ Len(q) - d =< capacity \/ d = EVICT_LIMIT
    BY <1>3c DEF Evicted
  <2>2. Len(queue) =< MAX_CAPACITY + window /\ window' = window
    BY DEF IInv, QueueBounded, add
  <2> QED  BY SMTT(60), ZenonT(60), <2>1, <2>2, <1>1, <1>2 DEF QueueBounded
<1>8. NearEnd'
  <2> SUFFICES ASSUME NEW m \in Nonce, pushedSince'[m] < MIN_CAPACITY
               PROVE  Near(queue', m, pushedSince'[m])
    BY DEF NearEnd
  <2>1. Near(q, m, pushedSince'[m])
    <3>1. CASE m = n
      <4>1. pushedSince'[m] = 0
        BY <3>1 DEF add
      <4> QED  BY ZenonT(60), <4>1, <3>1, <1>1, 0 \in Nat, AppendNear DEF q, Item
    <3>2. CASE m # n
      <4>1. pushedSince[m] < MIN_CAPACITY /\ pushedSince'[m] = pushedSince[m] + 1
        BY <3>2, <1>1 DEF add, Older
      <4>2. Near(queue, m, pushedSince[m]) /\ pushedSince[m] \in Nat
        BY <4>1, <1>1 DEF IInv, NearEnd
      <4>3. Near(q, m, pushedSince[m] + 1)
        <5>1. n \in Item
          BY DEF Item
        <5> QED  BY <5>1, <4>2, <1>1, AppendNear DEF q
      <4> QED  BY <4>1, <4>3
    <3> QED  BY <3>1, <3>2
  <2>2. pushedSince'[m] \in Nat /\ pushedSince'[m] < capacity
    BY <1>1, <1>5 DEF TypeOK
  <2> QED  BY <2>1, <2>2, <1>1, <1>2, <1>3, EvictKeepsNear
<1> QED  BY <1>5, <1>6, <1>7, <1>8 DEF IInv

LEMMA MarkStep == IInv /\ mark => IInv'
<1> SUFFICES ASSUME IInv, mark PROVE IInv'
  OBVIOUS
<1> USE ConstantsAssumption
<1>1. /\ queue \in Seq(Item) /\ Len(queue) \in Nat /\ DOMAIN queue = 1 .. Len(queue)
      /\ pushedSince \in [Nonce -> 0 .. MIN_CAPACITY] /\ window \in Nat
  BY LenProperties DEF IInv, TypeOK, Item
<1>2. /\ queue' = Append(queue, MARK)
      /\ queue' \in Seq(Item) /\ Len(queue') = Len(queue) + 1
      /\ \A i \in 1 .. Len(queue) : queue'[i] = queue[i]
      /\ queue'[Len(queue) + 1] = MARK
  BY <1>1, AppendProperties DEF mark, Item
<1>3. countMarks(queue') \in Nat
  <2>a. IsFiniteSet(1 .. Len(queue) + 1) /\ DOMAIN queue' = 1 .. Len(queue) + 1
    BY <1>1, <1>2, FS_Interval
  <2>1. IsFiniteSet({i \in DOMAIN queue' : queue'[i] = MARK})
    BY <2>a, FS_Subset
  <2> QED  BY <2>1, FS_CardinalityType DEF countMarks
<1>4. TypeOK'
  <2>1. window' \in 0 .. EXPECTED_MARK_COUNT /\ capacity' \in MIN_CAPACITY .. MAX_CAPACITY
    BY <1>1 DEF mark, IInv, TypeOK
  <2>2. markCounts' \subseteq Nat
    BY ZenonT(60), <1>3 DEF mark, IInv, TypeOK
  <2>3. pushedSince' \in [Nonce -> 0 .. MIN_CAPACITY]
    BY <1>1 DEF mark, Older
  <2> QED  BY <1>2, <2>1, <2>2, <2>3 DEF TypeOK, Item
<1>5. NoDuplicates'
  BY <1>1, <1>2 DEF IInv, NoDuplicates, Distinct
<1>6. QueueBounded'
  BY <1>1, <1>2 DEF mark, IInv, QueueBounded
<1>7. NearEnd'
  <2> SUFFICES ASSUME NEW m \in Nonce, pushedSince'[m] < MIN_CAPACITY
               PROVE  Near(queue', m, pushedSince'[m])
    BY DEF NearEnd
  <2>1. pushedSince[m] < MIN_CAPACITY /\ pushedSince'[m] = pushedSince[m] + 1
    BY <1>1 DEF mark, Older
  <2>2. Near(queue, m, pushedSince[m]) /\ pushedSince[m] \in Nat
    BY <2>1, <1>1 DEF IInv, NearEnd
  <2>3. Near(queue', m, pushedSince[m] + 1)
    <3>1. MARK \in Item
      BY DEF Item
    <3> QED  BY <3>1, <2>2, <1>1, <1>2, AppendNear
  <2> QED  BY <2>1, <2>3
<1> QED  BY <1>4, <1>5, <1>6, <1>7 DEF IInv

LEMMA AdjustStep == IInv /\ adjustCapacity => IInv'
<1> SUFFICES ASSUME IInv, adjustCapacity PROVE IInv'
  OBVIOUS
<1> USE ConstantsAssumption
<1>1. /\ queue \in Seq(Item) /\ Len(queue) \in Nat /\ DOMAIN queue = 1 .. Len(queue)
      /\ pushedSince \in [Nonce -> 0 .. MIN_CAPACITY] /\ window = EXPECTED_MARK_COUNT
  BY LenProperties DEF IInv, TypeOK, Item, adjustCapacity
<1>2. capacity' \in MIN_CAPACITY .. MAX_CAPACITY
  BY ScaledInRange DEF adjustCapacity, IInv, TypeOK
<1>3. /\ queue' = evictEntries(queue, capacity')
      /\ queue' \in Seq(Item) /\ Evicted(queue, queue', capacity')
  <2>1. queue' = evictEntries(queue, capacity')
    BY DEF adjustCapacity
  <2>2. capacity' \in Nat
    BY <1>2
  <2>3. /\ evictEntries(queue, capacity') \in Seq(Item)
        /\ Evicted(queue, evictEntries(queue, capacity'), capacity')
    BY ZenonT(60), SMTT(60), <1>1, <2>2, EvictFacts
  <2> QED BY ZenonT(60), SMTT(60), <2>1, <2>3
<1>4. TypeOK'
  BY <1>1, <1>2, <1>3 DEF adjustCapacity, IInv, TypeOK, Item
<1>5. NoDuplicates'
  BY <1>1, <1>2, <1>3, EvictKeepsDistinct DEF IInv, NoDuplicates
<1>6. QueueBounded'
  <2>1. PICK d \in 0 .. Len(queue) :
          /\ Len(queue') = Len(queue) - d
          /\ Len(queue) - d =< capacity' \/ d = EVICT_LIMIT
    BY <1>3 DEF Evicted
  <2>2. Len(queue) =< MAX_CAPACITY + EXPECTED_MARK_COUNT /\ window' = 0
    BY <1>1 DEF IInv, QueueBounded, adjustCapacity
  <2> QED  BY <2>1, <2>2, <1>1, <1>2 DEF QueueBounded
<1>7. NearEnd'
  <2> SUFFICES ASSUME NEW m \in Nonce, pushedSince[m] < MIN_CAPACITY
               PROVE  Near(queue', m, pushedSince[m])
    BY DEF NearEnd, adjustCapacity
  <2>1. Near(queue, m, pushedSince[m]) /\ pushedSince[m] \in Nat
    BY <1>1 DEF IInv, NearEnd
  <2>2. pushedSince[m] < capacity'
    BY <1>1, <1>2, <2>1
  <2> QED  BY <2>1, <2>2, <1>1, <1>2, <1>3, EvictKeepsNear
<1> QED  BY <1>4, <1>5, <1>6, <1>7 DEF IInv

-----------------------------------------------------------------------------
\* The inductive invariant: types, distinct entries, the size bound and the
\* distance of recently added nonces from the newest end.
THEOREM InductiveInvariant == Spec => []IInv
<1>1. IInv /\ [Next]_vars => IInv'
  <2> SUFFICES ASSUME IInv, [Next]_vars PROVE IInv'
    OBVIOUS
  <2>1. ASSUME NEW n \in Nonce, add(n) PROVE IInv'
    BY <2>1, AddKnown, AddNew
  <2>2. CASE mark
    BY <2>2, MarkStep
  <2>3. CASE adjustCapacity
    BY <2>3, AdjustStep
  <2>4. CASE UNCHANGED vars
    BY <2>4 DEF vars, IInv, TypeOK, NoDuplicates, QueueBounded, NearEnd
  <2> QED  BY <2>1, <2>2, <2>3, <2>4 DEF Next, AddSome
<1> QED  BY InitIInv, <1>1, PTL DEF Spec

\* has() answers true for every nonce that add() saw fewer than MIN_CAPACITY
\* insertions ago, for every number of nonces and every interleaving of add(),
\* mark() and adjustCapacity().
THEOREM RetentionHolds == Spec => []RetentionGuarantee
<1>1. IInv => RetentionGuarantee
  <2> SUFFICES ASSUME IInv, NEW n \in Nonce, pushedSince[n] < MIN_CAPACITY
               PROVE  has(n)
    BY DEF RetentionGuarantee
  <2>1. \E i \in 1 .. Len(queue) : queue[i] = n
    BY DEF IInv, NearEnd, Near
  <2>2. DOMAIN queue = 1 .. Len(queue)
    BY LenProperties DEF IInv, TypeOK
  <2> QED  BY <2>1, <2>2 DEF has, Entries
<1> QED  BY InductiveInvariant, <1>1, PTL

\* The queue, the capacity and the counts keep their types and their limits,
\* whatever adjustCapacity() scales.
THEOREM DnlTypeCorrect == Spec => []TypeOK
<1>1. IInv => TypeOK
  BY DEF IInv
<1> QED  BY InductiveInvariant, <1>1, PTL

\* add() never stores a second copy of a nonce.
THEOREM StoredOnce == Spec => []NoDuplicates
<1>1. IInv => NoDuplicates
  BY DEF IInv
<1> QED  BY InductiveInvariant, <1>1, PTL

\* The queue of the Dead Nonce List never outgrows MAX_CAPACITY by more than
\* the marks of one lifetime, although mark() itself does not evict.
THEOREM SizeBoundHolds == Spec => []QueueBounded
<1>1. IInv => QueueBounded
  BY DEF IInv
<1> QED  BY InductiveInvariant, <1>1, PTL

-----------------------------------------------------------------------------
\* Evicting and relocating bring no new entry in.
LEMMA EvictEntriesSubset ==
    ASSUME NEW q \in Seq(Item), NEW c \in Nat
    PROVE  Entries(evictEntries(q, c)) \subseteq Entries(q)
<1> DEFINE e == evictEntries(q, c)
<1>1. e \in Seq(Item) /\ Evicted(q, e, c)
  BY ZenonT(60), EvictFacts
<1> HIDE DEF e
<1>2. /\ Len(q) \in Nat /\ DOMAIN q = 1 .. Len(q)
      /\ DOMAIN e = 1 .. Len(e)
  BY <1>1, LenProperties
<1>3. PICK d \in 0 .. Len(q) :
        /\ Len(e) = Len(q) - d
        /\ \A i \in 1 .. Len(q) - d : e[i] = q[i + d]
  BY <1>1 DEF Evicted
<1>4. \A i \in 1 .. Len(e) : i + d \in DOMAIN q /\ e[i] = q[i + d]
  BY <1>2, <1>3
<1> QED  BY <1>2, <1>4 DEF Entries, e

LEMMA RelocateEntriesSubset ==
    ASSUME NEW q \in Seq(Item), NEW n \in Nonce, n \in Entries(q)
    PROVE  Entries(Relocate(q, n)) \subseteq Entries(q)
<1> DEFINE r == Relocate(q, n)
<1>1. r \in Seq(Item) /\ Len(r) = Len(q) /\ Relocated(q, r, n)
  BY RelocateFacts
<1> HIDE DEF r
<1>2. Len(q) \in Nat /\ DOMAIN q = 1 .. Len(q) /\ DOMAIN r = 1 .. Len(q)
  BY <1>1, LenProperties
<1>3. \A i \in 1 .. Len(q) : r[i] = n \/ \E j \in DOMAIN q : r[i] = q[j]
  BY <1>1, <1>2 DEF Relocated
<1> QED  BY <1>2, <1>3 DEF Entries, r

LEMMA AppendEntries ==
    ASSUME NEW q \in Seq(Item), NEW x \in Item
    PROVE  Entries(Append(q, x)) = Entries(q) \cup {x}
<1>1. /\ Len(q) \in Nat /\ DOMAIN q = 1 .. Len(q)
      /\ Append(q, x) \in Seq(Item)
      /\ Len(Append(q, x)) = Len(q) + 1
      /\ DOMAIN Append(q, x) = 1 .. Len(q) + 1
      /\ \A i \in 1 .. Len(q) : Append(q, x)[i] = q[i]
      /\ Append(q, x)[Len(q) + 1] = x
  BY LenProperties, AppendProperties
<1> QED  BY <1>1 DEF Entries

\* The bounded, timestamp-free list implements the abstract nonce set that the
\* forwarding pipelines rely on: add() makes its nonce known at once, a recent
\* nonce is never forgotten, and no step makes known a nonce that was not added.
THEOREM Refinement == Spec => ImplementsNonceSet
<1> USE ConstantsAssumption
<1> DEFINE dead == Entries(queue) \ {MARK}
           recent == {n \in Nonce : pushedSince[n] < MIN_CAPACITY}
<1>1. Init => Abstract!Init
  <2> SUFFICES ASSUME Init PROVE dead = {} /\ recent = {}
    BY DEF Abstract!Init
  <2>1. \A i \in DOMAIN queue : queue[i] = MARK
    BY DEF Init
  <2> QED  BY <2>1 DEF Init, Entries
<1>2. IInv /\ IInv' /\ [Next]_vars => [Abstract!Next]_<<dead, recent>>
  <2> SUFFICES ASSUME IInv, IInv', [Next]_vars
               PROVE  Abstract!Next \/ (dead' = dead /\ recent' = recent)
    OBVIOUS
  <2>0. /\ queue \in Seq(Item) /\ queue' \in Seq(Item)
        /\ capacity \in Nat /\ capacity' \in Nat
        /\ pushedSince \in [Nonce -> 0 .. MIN_CAPACITY]
    BY DEF IInv, TypeOK, Item
  <2>a. recent' \subseteq dead'
    <3> SUFFICES ASSUME NEW n \in Nonce, pushedSince'[n] < MIN_CAPACITY
                 PROVE  n \in Entries(queue')
      OBVIOUS
    <3>1. Near(queue', n, pushedSince'[n])
      BY DEF IInv, NearEnd
    <3> QED  BY <3>1, <2>0, LenProperties DEF Near, Entries
  <2>b. \A m \in Nonce : Older(m) < MIN_CAPACITY => pushedSince[m] < MIN_CAPACITY
    BY <2>0 DEF Older
  <2>1. ASSUME NEW n \in Nonce, add(n) PROVE Abstract!Next
    <3>1. n \in recent' /\ recent' \subseteq recent \cup {n}
      BY <2>1, <2>b DEF add
    <3>2. Entries(queue') \subseteq Entries(queue) \cup {n}
      <4>1. CASE has(n)
        BY <4>1, <2>0, <2>1, RelocateEntriesSubset DEF add, has
      <4>2. CASE ~has(n)
        <5>1. n \in Item /\ queue' = evictEntries(Append(queue, n), capacity)
          BY <4>2, <2>1 DEF add, Item
        <5>2. Append(queue, n) \in Seq(Item)
          BY <5>1, <2>0, AppendProperties
        <5>3. Entries(Append(queue, n)) = Entries(queue) \cup {n}
          BY <5>1, <2>0, AppendEntries
        <5>4. Entries(queue') \subseteq Entries(Append(queue, n))
          BY ZenonT(60), <5>1, <5>2, <2>0, EvictEntriesSubset
        <5> QED  BY <5>3, <5>4
      <4> QED  BY <4>1, <4>2
    <3>3. dead' \subseteq dead \cup {n}
      BY <3>2
    <3> QED  BY <3>1, <3>3, <2>a DEF Abstract!Next, Abstract!Add
  <2>2. CASE mark
    <3>1. MARK \in Item /\ queue' = Append(queue, MARK)
      BY <2>2 DEF mark, Item
    <3>2. Entries(queue') = Entries(queue) \cup {MARK}
      BY <3>1, <2>0, AppendEntries
    <3>3. dead' \in SUBSET dead
      BY <3>2
    <3>4. recent' \in SUBSET recent
      BY <2>2, <2>b DEF mark
    <3> QED  BY <3>3, <3>4, <2>a DEF Abstract!Next, Abstract!Forget
  <2>3. CASE adjustCapacity
    <3>1. queue' = evictEntries(queue, capacity')
      BY <2>3 DEF adjustCapacity
    <3>2. Entries(queue') \subseteq Entries(queue)
      BY <3>1, <2>0, EvictEntriesSubset
    <3>3. dead' \in SUBSET dead
      BY <3>2
    <3>4. recent' \in SUBSET recent
      BY <2>3 DEF adjustCapacity
    <3> QED  BY <3>3, <3>4, <2>a DEF Abstract!Next, Abstract!Forget
  <2>4. CASE UNCHANGED vars
    BY <2>4 DEF vars
  <2> QED  BY <2>1, <2>2, <2>3, <2>4 DEF Next, AddSome
<1> QED  BY <1>1, <1>2, InductiveInvariant, PTL DEF Spec, ImplementsNonceSet, Abstract!Spec

-----------------------------------------------------------------------------
(* The visualizer.                                                            *)


(* The kinds of events and the shape of the event set.                        *)
Kinds == {"Plain", "Pause", "Stop", "Callback"}
Event == [at : Nat, uid : Nat, kind : Kinds]

History ==
  [raised : Seq(Nat), shown : Seq(Nat), hurried : BOOLEAN,
   slowed : BOOLEAN, stopped : BOOLEAN]

(* The types the arguments below need.                                        *)
VTyped ==
  /\ now \in Nat /\ target_time \in Nat /\ uid \in Nat
  /\ sample_period \in Nat
  /\ events \subseteq Event
  /\ pause_messages \in Seq(Nat) /\ m_pauseMessages \in Seq(Nat)
  /\ history \in History

(* While a slice runs, the view has not moved the target, and the event that  *)
(* ends the slice at the target, callback or stop, is still to come.          *)
EndIsScheduled ==
  pc = "running" =>
    /\ runUntil = target_time
    /\ \E c \in events : c.at = target_time /\ c.kind \in {"Callback", "Stop"}

VInv == VTyped /\ EndIsScheduled /\ NotAheadOfView /\ PausesKept /\ PlayingHasTimer

-----------------------------------------------------------------------------
(* Lists of messages can be joined in any grouping.                           *)
LEMMA Reassociate ==
  \A s, t, u \in Seq(Nat) : (s \o t) \o u = s \o (t \o u)
<1> SUFFICES ASSUME NEW s \in Seq(Nat), NEW t \in Seq(Nat), NEW u \in Seq(Nat)
             PROVE  (s \o t) \o u = s \o (t \o u)
  OBVIOUS
<1> QED OBVIOUS

(* The program starts in a state that satisfies the invariant.                *)
LEMMA VInitInv == VInit => VInv
<1> SUFFICES ASSUME VInit PROVE VInv
  OBVIOUS
<1>1. VTyped
  <2>1. now \in Nat /\ target_time \in Nat /\ uid \in Nat /\ sample_period \in Nat
    BY ScriptAssumption DEF VInit
  <2>2. events \subseteq Event
    <3> SUFFICES ASSUME NEW i \in DOMAIN Script
                 PROVE  [at |-> Script[i].at, uid |-> i, kind |-> Script[i].kind]
                          \in Event
      BY DEF VInit
    <3>1. i \in 1 .. Len(Script) /\ i \in Nat
      BY ScriptAssumption, LenProperties
    <3>2. Script[i] \in [at : Nat, kind : {"Plain", "Pause", "Stop"}]
      BY ZenonT(60), <3>1, ScriptAssumption, ElementOfSeq
    <3> QED
      BY <3>1, <3>2 DEF Event, Kinds
  <2>3. pause_messages \in Seq(Nat) /\ m_pauseMessages \in Seq(Nat)
    BY EmptySeq DEF VInit
  <2>4. history \in History
    BY EmptySeq DEF VInit, History
  <2> QED
    BY <2>1, <2>2, <2>3, <2>4 DEF VTyped
<1>2. EndIsScheduled /\ NotAheadOfView /\ PlayingHasTimer
  BY DEF VInit, EndIsScheduled, NotAheadOfView, PlayingHasTimer
<1>3. PausesKept
  <2>1. <<>> \in Seq(Nat)
    BY EmptySeq
  <2>2. <<>> \o <<>> = <<>>
    BY <2>1, ConcatEmptySeq
  <2>3. history.shown = <<>> /\ history.raised = <<>> /\ pause_messages = <<>>
         /\ ~Locked
    BY DEF VInit, Locked
  <2> QED
    BY <2>2, <2>3 DEF PausesKept
<1> QED
  BY <1>1, <1>2, <1>3 DEF VInv

(* Steps that leave the simulator, the messages and the timers alone keep the *)
(* invariant if they do not enter or leave a slice.                           *)
LEMMA QuietSteps ==
  ASSUME VInv,
         UNCHANGED <<target_time, pause_messages, simVars, sample_period,
                     playing, live>>,
         history'.raised = history.raised, history'.shown = history.shown,
         history' \in History,
         pc' \notin {"running", "extend"}, ~Locked,
         quit => quit', updateId' = updateId \/ quit'
  PROVE  VInv'
<1>1. VTyped'
  BY DEF VInv, VTyped, simVars
<1>2. EndIsScheduled'
  BY DEF EndIsScheduled
<1>3. NotAheadOfView' /\ PlayingHasTimer'
  BY DEF VInv, NotAheadOfView, PlayingHasTimer, simVars
<1>4. PausesKept'
  BY DEF VInv, PausesKept, Locked
<1> QED
  BY <1>1, <1>2, <1>3, <1>4 DEF VInv

(* Entering a slice schedules its end, and the messages it clears have all    *)
(* been copied to the thread's list.                                          *)
LEMMA SliceStarts == ASSUME VInv, SimulatorRunUntil PROVE VInv'
<1> USE DEF VInv
<1>1. history' \in History /\ history'.raised = history.raised
       /\ history'.shown = history.shown
  BY ZenonT(60) DEF VTyped, History, SimulatorRunUntil
<1>2. VTyped'
  <2>1. m_pauseMessages' \in Seq(Nat)
    BY EmptySeq DEF SimulatorRunUntil
  <2>2. events' \subseteq Event /\ uid' \in Nat
    BY DEF SimulatorRunUntil, VTyped, Event, Kinds
  <2> QED
    BY <1>1, <2>1, <2>2 DEF VTyped, SimulatorRunUntil, guiVars
<1>3. EndIsScheduled'
  <2> SUFFICES ASSUME pc' = "running" PROVE EndIsScheduled'
    BY DEF EndIsScheduled
  <2> DEFINE c == [at |-> target_time, uid |-> uid + 1, kind |-> "Callback"]
  <2>1. c \in events' /\ runUntil' = target_time /\ target_time' = target_time
    BY DEF SimulatorRunUntil
  <2>2. c.at = target_time /\ c.kind = "Callback"
    OBVIOUS
  <2> HIDE DEF c
  <2> QED
    BY <2>1, <2>2 DEF EndIsScheduled
<1>4. NotAheadOfView' /\ PlayingHasTimer'
  BY DEF SimulatorRunUntil, NotAheadOfView, PlayingHasTimer, guiVars
<1>5. PausesKept'
  <2>1. history.shown \o pause_messages \in Seq(Nat)
    BY ConcatProperties DEF VTyped, History
  <2>2. <<>> \in Seq(Nat)
    BY EmptySeq
  <2>3. (history.shown \o pause_messages) \o <<>> = history.raised
    BY DEF PausesKept, Locked, SimulatorRunUntil
  <2>4. m_pauseMessages' = <<>> /\ pause_messages' = pause_messages
    BY DEF SimulatorRunUntil
  <2> QED
    BY <1>1, <2>3, <2>4 DEF PausesKept
<1> QED
  BY <1>2, <1>3, <1>4, <1>5

(* An event of a slice is never later than the target, since the end of the   *)
(* slice is scheduled there, and a raised message joins the slice's list.     *)
LEMMA EventRuns == ASSUME VInv, ProcessOneEvent PROVE VInv'
<1> USE DEF VInv
<1>1. PICK e \in events :
        /\ \A f \in events : Before(e, f)
        /\ now' = e.at
        /\ \/ /\ e.kind = "Callback"
              /\ CallbackStopSimulation(e)
              /\ UNCHANGED <<m_pauseMessages, history>>
           \/ /\ e.kind = "Stop"
              /\ events' = events \ {e}
              /\ history' = [history EXCEPT !.stopped = e.uid <= Len(Script)]
              /\ UNCHANGED <<uid, m_pauseMessages>>
           \/ /\ e.kind = "Pause"
              /\ events' = events \ {e}
              /\ m_pauseMessages' = Append(m_pauseMessages, e.uid)
              /\ history' = [history EXCEPT !.raised = Append(@, e.uid)]
              /\ UNCHANGED uid
           \/ /\ e.kind = "Plain"
              /\ events' = events \ {e}
              /\ UNCHANGED <<uid, m_pauseMessages, history>>
        /\ pc' = IF e.kind = "Stop" \/ events' = {} THEN "extend" ELSE "running"
  BY DEF ProcessOneEvent
<1>2. /\ pc = "running"
      /\ UNCHANGED <<runUntil, target_time, pause_messages, playing, live,
                     updateId, quit, sample_period>>
  BY DEF ProcessOneEvent, guiVars
<1>3. e.at \in Nat /\ e.uid \in Nat /\ e.kind \in Kinds /\ events \subseteq Event
  BY DEF VTyped, Event
<1>4. PICK c \in events :
        c.at = target_time /\ c.kind \in {"Callback", "Stop"}
  BY <1>2 DEF EndIsScheduled
<1>5. runUntil = target_time
  BY <1>2 DEF EndIsScheduled
<1>6. NotAheadOfView'
  <2>1. Before(e, c)
    BY <1>1, <1>4
  <2>2. e.at <= target_time
    BY <2>1, <1>3, <1>4 DEF Before, VTyped
  <2> QED
    BY <1>1, <1>2, <2>2 DEF NotAheadOfView
<1>7. PlayingHasTimer'
  BY <1>2 DEF PlayingHasTimer
<1>8. EndIsScheduled'
  <2> SUFFICES ASSUME pc' = "running"
               PROVE  \E d \in events' : d.at = target_time
                                           /\ d.kind \in {"Callback", "Stop"}
    BY <1>2, <1>5 DEF EndIsScheduled
  <2>1. e.kind # "Stop"
    BY <1>1
  <2>2. CASE c # e
    <3>1. c \in events'
      BY <1>1, <2>1, <2>2 DEF CallbackStopSimulation
    <3> QED
      BY <3>1, <1>4
  <2>3. CASE c = e
    <3>1. e.kind = "Callback" /\ e.at = target_time
      BY <2>1, <2>3, <1>4
    <3>2. runUntil <= e.at
      BY <3>1, <1>5 DEF VTyped
    <3>3. [at |-> e.at, uid |-> uid + 1, kind |-> "Stop"] \in events'
      BY <1>1, <3>1, <3>2 DEF CallbackStopSimulation
    <3> QED
      BY <3>1, <3>3
  <2> QED
    BY <2>2, <2>3
<1>9. CASE e.kind = "Pause"
  <2>1. history.raised \in Seq(Nat) /\ history.shown \in Seq(Nat)
         /\ pause_messages \in Seq(Nat) /\ m_pauseMessages \in Seq(Nat)
    BY DEF VTyped, History
  <2>2. /\ m_pauseMessages' = Append(m_pauseMessages, e.uid)
        /\ history' = [history EXCEPT !.raised = Append(@, e.uid)]
        /\ events' \subseteq events /\ uid' = uid
    BY <1>1, <1>9
  <2>3. /\ history'.raised = Append(history.raised, e.uid)
        /\ history'.shown = history.shown
    BY <2>2 DEF VTyped, History
  <2>4. Append(history.raised, e.uid) \in Seq(Nat)
         /\ Append(m_pauseMessages, e.uid) \in Seq(Nat)
    BY <2>1, <1>3, AppendProperties
  <2>5. history' \in History
    BY ZenonT(60), <2>2, <2>4 DEF VTyped, History
  <2>6. VTyped'
    BY <1>1, <1>2, <1>3, <2>2, <2>4, <2>5 DEF VTyped
  <2>7. PausesKept'
    <3> DEFINE told == history.shown \o pause_messages
    <3>1. told \in Seq(Nat) /\ <<e.uid>> \in Seq(Nat)
      BY <2>1, <1>3, ConcatProperties
    <3>2. told \o m_pauseMessages = history.raised
      BY <1>2 DEF PausesKept, Locked
    <3>3. told \o Append(m_pauseMessages, e.uid)
            = told \o (m_pauseMessages \o <<e.uid>>)
      BY ZenonT(60), <2>1, <1>3, AppendIsConcat
    <3>4. told \o (m_pauseMessages \o <<e.uid>>)
            = (told \o m_pauseMessages) \o <<e.uid>>
      <4> HIDE DEF told
      <4> QED
        BY <2>1, <3>1, Reassociate
    <3>5. (told \o m_pauseMessages) \o <<e.uid>> = Append(history.raised, e.uid)
      BY <2>1, <1>3, <3>2, AppendIsConcat
    <3>6. Locked'
      BY <1>1, <1>9 DEF Locked
    <3> QED
      BY ZenonT(60), <1>2, <2>2, <2>3, <3>3, <3>4, <3>5, <3>6 DEF PausesKept
  <2> QED
    BY <1>6, <1>7, <1>8, <2>6, <2>7
<1>10. CASE e.kind # "Pause"
  <2>1. m_pauseMessages' = m_pauseMessages
    BY <1>1, <1>10
  <2>2. history' \in History /\ history'.raised = history.raised
         /\ history'.shown = history.shown
    <3>1. CASE e.kind = "Stop"
      <4>1. (e.uid <= Len(Script)) \in BOOLEAN
        OBVIOUS
      <4>2. history' = [history EXCEPT !.stopped = e.uid <= Len(Script)]
        BY <1>1, <3>1
      <4> QED
        BY ZenonT(60), <4>1, <4>2 DEF VTyped, History
    <3>2. CASE e.kind # "Stop"
      BY <1>1, <1>10, <3>2 DEF VTyped
    <3> QED
      BY <3>1, <3>2
  <2>3. events' \subseteq Event /\ uid' \in Nat
    BY <1>1, <1>3 DEF CallbackStopSimulation, Event, Kinds, VTyped
  <2>4. VTyped'
    BY <1>1, <1>2, <1>3, <2>1, <2>2, <2>3 DEF VTyped
  <2>5. Locked /\ Locked'
    BY <1>1, <1>2 DEF Locked
  <2>6. PausesKept'
    BY <1>2, <2>1, <2>2, <2>5 DEF PausesKept
  <2> QED
    BY <1>6, <1>7, <1>8, <2>4, <2>6
<1> QED
  BY <1>9, <1>10

(* The end of a slice moves its messages to the thread's list.                *)
LEMMA SliceEnds == ASSUME VInv, Extend PROVE VInv'
<1> USE DEF VInv
<1>1. history' \in History /\ history'.raised = history.raised
       /\ history'.shown = history.shown
  BY DEF VTyped, History, Extend
<1>2. history.shown \in Seq(Nat) /\ pause_messages \in Seq(Nat)
       /\ m_pauseMessages \in Seq(Nat) /\ history.raised \in Seq(Nat)
  BY DEF VTyped, History
<1>3. pause_messages' = pause_messages \o m_pauseMessages
       /\ pause_messages' \in Seq(Nat)
  BY <1>2, ConcatProperties DEF Extend
<1>4. VTyped'
  BY <1>1, <1>3 DEF VTyped, Extend, simVars, guiVars
<1>5. EndIsScheduled' /\ NotAheadOfView' /\ PlayingHasTimer'
  BY DEF Extend, EndIsScheduled, NotAheadOfView, PlayingHasTimer, simVars, guiVars
<1>6. PausesKept'
  <2>1. (history.shown \o pause_messages) \o m_pauseMessages = history.raised
    BY DEF Extend, PausesKept, Locked
  <2>2. (history.shown \o pause_messages) \o m_pauseMessages
          = history.shown \o (pause_messages \o m_pauseMessages)
    BY ZenonT(60), <1>2, Reassociate
  <2>3. history.raised \o <<>> = history.raised
    BY <1>2, ConcatEmptySeq
  <2>4. ~Locked'
    BY DEF Extend, Locked
  <2> QED
    BY ZenonT(60), <1>1, <1>3, <2>1, <2>2, <2>3, <2>4 DEF PausesKept
<1> QED
  BY <1>4, <1>5, <1>6

(* The view takes the messages, and sets a target that is not in the past.    *)
LEMMA ViewIsDrawn == ASSUME VInv, NEW k, UpdateView(k) PROVE VInv'
<1> USE DEF VInv
<1>1. history.shown \in Seq(Nat) /\ pause_messages \in Seq(Nat)
       /\ history.raised \in Seq(Nat) /\ <<>> \in Seq(Nat)
  BY EmptySeq DEF VTyped, History
<1>2. history' = [history EXCEPT !.shown = history.shown \o pause_messages,
                                 !.hurried = history.hurried \/ Behind]
  BY DEF UpdateView
<1>3. history.shown \o pause_messages \in Seq(Nat)
  BY <1>1, ConcatProperties
<1>4. (history.hurried \/ Behind) \in BOOLEAN
  OBVIOUS
<1>5. history' \in History /\ history'.raised = history.raised
       /\ history'.shown = history.shown \o pause_messages
  BY ZenonT(60), <1>2, <1>3, <1>4 DEF VTyped, History
<1>6. /\ pause_messages' = <<>>
      /\ target_time' = now + sample_period
      /\ UNCHANGED <<pc, quit, sample_period, simVars>>
      /\ ~Locked
  BY DEF UpdateView
<1>7. VTyped'
  BY <1>1, <1>5, <1>6 DEF VTyped, simVars
<1>8. EndIsScheduled' /\ NotAheadOfView'
  BY <1>6 DEF EndIsScheduled, NotAheadOfView, VTyped, Locked, simVars
<1>9. PlayingHasTimer'
  BY ZenonT(60) DEF UpdateView, PlayingHasTimer
<1>10. PausesKept'
  <2>1. (history.shown \o pause_messages) \o <<>> = history.raised
    BY <1>6 DEF PausesKept
  <2>2. history'.shown \o <<>> = history.raised
    BY <1>5, <2>1
  <2>3. history.raised \o <<>> = history.raised
    BY <1>1, ConcatEmptySeq
  <2>4. ~Locked'
    BY <1>6 DEF Locked
  <2> QED
    BY <1>5, <1>6, <2>2, <2>3, <2>4 DEF PausesKept
<1> QED
  BY <1>7, <1>8, <1>9, <1>10

(* The user's handlers replace or remove the timer together with the button.  *)
LEMMA UserActs ==
  ASSUME VInv, _on_play_button_toggled \/ _speed_changed PROVE VInv'
<1> USE DEF VInv
<1>1. UNCHANGED <<pc, quit, target_time, pause_messages, simVars>>
  BY DEF _on_play_button_toggled, _speed_changed
<1>2. history' \in History /\ history'.raised = history.raised
       /\ history'.shown = history.shown
  <2>1. CASE _on_play_button_toggled
    BY <2>1 DEF _on_play_button_toggled, VTyped
  <2>2. CASE _speed_changed
    <3>1. history' = [history EXCEPT !.slowed =
                        history.slowed \/ sample_period' < sample_period]
      BY <2>2 DEF _speed_changed
    <3>2. (history.slowed \/ sample_period' < sample_period) \in BOOLEAN
      OBVIOUS
    <3> QED
      BY ZenonT(60), <3>1, <3>2 DEF VTyped, History
  <2> QED
    BY <2>1, <2>2
<1>3. sample_period' \in Nat
  BY PeriodsAssumption DEF _on_play_button_toggled, _speed_changed, VTyped
<1>4. VTyped'
  BY <1>1, <1>2, <1>3 DEF VTyped, simVars
<1>5. EndIsScheduled' /\ NotAheadOfView'
  BY <1>1 DEF EndIsScheduled, NotAheadOfView, simVars
<1>6. PlayingHasTimer'
  BY ZenonT(60) DEF _on_play_button_toggled, _speed_changed, _start_update_timer,
         PlayingHasTimer
<1>7. PausesKept'
  BY ZenonT(60), <1>1, <1>2 DEF PausesKept, Locked, simVars
<1> QED
  BY <1>4, <1>5, <1>6, <1>7

(* Every step of either thread keeps the invariant.                           *)
LEMMA VStep == VInv /\ [VNext]_vVars => VInv'
<1> SUFFICES ASSUME VInv, [VNext]_vVars PROVE VInv'
  OBVIOUS
<1>1. history \in History
  BY DEF VInv, VTyped
<1>2. CASE Test \/ Wait \/ Clear \/ CheckQuit
  BY <1>1, <1>2, QuietSteps DEF Test, Wait, Clear, CheckQuit, Locked, guiVars
<1>3. CASE SimulatorRunUntil
  BY <1>3, SliceStarts
<1>4. CASE ProcessOneEvent
  BY <1>4, EventRuns
<1>5. CASE Extend
  BY <1>5, SliceEnds
<1>6. CASE update_model
  <2>1. history' \in History /\ history'.raised = history.raised
         /\ history'.shown = history.shown
    BY <1>1, <1>6 DEF update_model, History
  <2> QED
    BY <1>6, <2>1, QuietSteps DEF update_model, Locked, guiVars
<1>7. ASSUME NEW k \in Timers, update_view_timeout(k) PROVE VInv'
  <2>1. CASE UpdateView(k)
    BY <2>1, ViewIsDrawn
  <2>2. CASE /\ UNCHANGED <<pc, go, quit, target_time, pause_messages, history>>
             /\ UNCHANGED <<simVars, playing, sample_period, updateId, live>>
    BY ZenonT(60), <2>2 DEF VInv, VTyped, EndIsScheduled, NotAheadOfView, PausesKept,
                PlayingHasTimer, Locked, simVars
  <2> QED
    BY <1>7, <2>1, <2>2 DEF update_view_timeout
<1>8. CASE AcquireAfterWaiting
  BY <1>8, ViewIsDrawn DEF AcquireAfterWaiting
<1>9. CASE _on_play_button_toggled \/ _speed_changed
  BY <1>9, UserActs
<1>10. CASE _quit
  BY ZenonT(60), <1>10 DEF _quit, VInv, VTyped, EndIsScheduled, NotAheadOfView, PausesKept,
               PlayingHasTimer, Locked, simVars
<1>11. CASE Joined
  BY <1>11 DEF Joined, VInv, VTyped, EndIsScheduled, NotAheadOfView, PausesKept,
               PlayingHasTimer, Locked, simVars
<1>12. CASE UNCHANGED vVars
  BY ZenonT(60), <1>12 DEF vVars, VInv, VTyped, EndIsScheduled, NotAheadOfView, PausesKept,
               PlayingHasTimer, Locked, simVars, guiVars
<1> QED
  BY <1>2, <1>3, <1>4, <1>5, <1>6, <1>7, <1>8, <1>9, <1>10, <1>11, <1>12
     DEF VNext, SimStep

(* The invariant holds in every reachable state.                              *)
LEMMA VInvariant == VSpec => []VInv
<1> QED
  BY VInitInv, VStep, PTL DEF VSpec

(* For every script, speed range and user: the simulator never passes the     *)
(* target time the view has set (PyViz::SimulatorRunUntil's callback).        *)
THEOREM NeverAheadOfView == VSpec => []NotAheadOfView
<1>1. VInv => NotAheadOfView
  BY DEF VInv
<1> QED
  BY <1>1, VInvariant, PTL

(* No pause message is lost, repeated or reordered on its way from            *)
(* PyViz::DoPause through the thread's list to the dialog.                    *)
THEOREM NoPauseLost == VSpec => []PausesKept
<1>1. VInv => PausesKept
  BY DEF VInv
<1> QED
  BY <1>1, VInvariant, PTL

(* The play button is never on without a live update timer.                   *)
THEOREM PlayingIsTimed == VSpec => []PlayingHasTimer
<1>1. VInv => PlayingHasTimer
  BY DEF VInv
<1> QED
  BY <1>1, VInvariant, PTL

-----------------------------------------------------------------------------
(* Slices reach their targets.                                                *)

(* The program's own stops, and what SimulatorRunUntil and its callback have  *)
(* put into the event queue.                                                  *)
Own(e) == e.kind = "Stop" /\ e.uid <= Len(Script)
Given(e) == e.kind = "Stop" /\ e.uid > Len(Script)
Ending(e) == e.kind = "Callback" \/ Given(e)

(* No event lies in the past; an own stop is the one of the script.           *)
QueueShape ==
  /\ sample_period > 0 /\ uid >= Len(Script)
  /\ \A e \in events :
       /\ now <= e.at
       /\ e.kind = "Callback" => e.uid > Len(Script)
       /\ Own(e) => /\ e.uid \in DOMAIN Script
                    /\ Script[e.uid].kind = "Stop" /\ Script[e.uid].at = e.at

(* Between slices no stop is left over, and the callbacks left over are       *)
(* earlier than any target the view can set from now on.                      *)
BetweenSlices ==
  \A e \in events :
    /\ ~Given(e)
    /\ e.kind = "Callback" => e.at < now + sample_period
    /\ Own(e) => now < e.at

(* During a slice a single event ends it at the target, and its own stop      *)
(* would move the next target past this one.                                  *)
DuringSlice ==
  /\ \A e \in events :
       /\ Own(e) => target_time < e.at + sample_period
       /\ Given(e) => e.at = target_time
       /\ e.kind = "Callback" => e.at <= target_time
  /\ \A c, d \in events :
       Ending(c) /\ Ending(d) /\ c.at = target_time /\ d.at = target_time => c = d
  /\ \A c, d \in events : Given(c) /\ Own(d) => c.at < d.at

(* A slice is going to start.                                                 *)
Signalled == pc = "acquire" \/ (~quit /\ (go \/ pc \in {"clear", "check"}))

Calm == StopsApart /\ ~history.slowed /\ ~history.hurried

SliceInv ==
  /\ QueueShape
  /\ pc \in {"test", "wait", "clear", "check", "acquire", "running", "extend", "ended"}
  /\ pc = "ended" => quit
  /\ Calm =>
       /\ target_time <= now + sample_period
       /\ go /\ ~quit => pc \in {"test", "wait", "clear"}
       /\ pc # "running" => BetweenSlices
       /\ Signalled => \A e \in events : e.kind = "Callback" => e.at < target_time
       /\ pc = "running" => DuringSlice
       /\ pc = "extend" /\ ~history.stopped => now >= target_time

(* Initially only the script is scheduled.                                    *)
LEMMA SliceInit == VInit => SliceInv
<1> SUFFICES ASSUME VInit PROVE SliceInv
  OBVIOUS
<1>1. DOMAIN Script = 1 .. Len(Script) /\ Len(Script) \in Nat
  BY ScriptAssumption, LenProperties
<1>2. ASSUME NEW e \in events
      PROVE  /\ e.uid \in DOMAIN Script /\ e.at = Script[e.uid].at
             /\ e.kind = Script[e.uid].kind /\ e.at \in Nat
             /\ e.kind \in {"Plain", "Pause", "Stop"}
  <2>1. PICK i \in DOMAIN Script :
          e = [at |-> Script[i].at, uid |-> i, kind |-> Script[i].kind]
    BY DEF VInit
  <2>2. Script[i] \in [at : Nat, kind : {"Plain", "Pause", "Stop"}]
    BY ZenonT(60), <1>1, ScriptAssumption, ElementOfSeq
  <2> QED
    BY <2>1, <2>2
<1>3. \A e \in events : ~Given(e) /\ e.kind # "Callback"
  BY <1>1, <1>2 DEF Given
<1>4. now = 0 /\ target_time = 0 /\ sample_period = 1 /\ uid = Len(Script) /\ pc = "test"
  BY DEF VInit
<1>5. QueueShape
  BY <1>1, <1>2, <1>3, <1>4 DEF QueueShape, Own
<1>6. Calm => BetweenSlices
  BY <1>2, <1>3, <1>4 DEF Calm, StopsApart, BetweenSlices, Own
<1>7. target_time <= now + sample_period /\ pc # "running" /\ pc # "extend"
  BY <1>4
<1> QED
  BY <1>3, <1>4, <1>5, <1>6, <1>7 DEF SliceInv

(* A time that is near enough stays so when the sample period grows.          *)
LEMMA LaterStays ==
  ASSUME NEW a \in Nat, NEW t \in Nat, NEW p \in Nat, NEW r \in Nat, a <= t + p, r >= p
  PROVE  a <= t + r
OBVIOUS

(* Steps that leave the event queue and the clock alone, do not enter or      *)
(* leave a slice, and give no signal.                                         *)
LEMMA QueueUntouched ==
  ASSUME VTyped, SliceInv,
         UNCHANGED <<now, events, uid, target_time>>,
         sample_period' \in Nat, sample_period' > 0,
         Calm' => Calm /\ sample_period' >= sample_period,
         pc' = pc \/ (pc # "running" /\ pc' \in {"test", "wait", "clear", "check", "acquire", "ended"}),
         pc' = "ended" => quit',
         Calm' /\ go' /\ ~quit' => pc' \in {"test", "wait", "clear"},
         history'.stopped = history.stopped,
         Signalled' => Signalled
  PROVE  SliceInv'
<1>1. QueueShape'
  BY DEF SliceInv, QueueShape, Own
<1> SUFFICES ASSUME Calm' PROVE SliceInv'
  BY <1>1 DEF SliceInv
<1>2. Calm /\ sample_period' >= sample_period
  OBVIOUS
<1>3. now \in Nat /\ target_time \in Nat /\ sample_period \in Nat
  BY DEF VTyped
<1>4. \A e \in events : e.at \in Nat
  BY DEF VTyped, Event
<1>5. target_time' <= now' + sample_period'
  <2>1. target_time <= now + sample_period
    BY ZenonT(60), SMTT(60), <1>2 DEF SliceInv
  <2>2. now' = now /\ target_time' = target_time /\ sample_period' \in Nat
    OBVIOUS
  <2>3. target_time <= now + sample_period'
    BY ZenonT(60), SMTT(60), <1>2, <1>3, <2>1, <2>2, LaterStays
  <2> QED  BY ZenonT(60), SMTT(60), <2>2, <2>3
<1>6. pc' # "running" => BetweenSlices'
  BY <1>2, <1>3, <1>4 DEF SliceInv, BetweenSlices, Given, Own
<1>7. pc' = "running" => DuringSlice'
  BY <1>2, <1>3, <1>4 DEF SliceInv, DuringSlice, Given, Own, Ending
<1>8. Signalled' => \A e \in events' : e.kind = "Callback" => e.at < target_time'
  BY <1>2 DEF SliceInv
<1>9. pc' = "extend" /\ ~history'.stopped => now' >= target_time'
  BY <1>2 DEF SliceInv
<1> QED
  BY <1>1, <1>5, <1>6, <1>7, <1>8, <1>9 DEF SliceInv

(* The callback of a new slice is the only one at its target.                 *)
LEMMA QueueAtStart == ASSUME VTyped, SliceInv, SimulatorRunUntil PROVE SliceInv'
<1> DEFINE n == [at |-> target_time, uid |-> uid + 1, kind |-> "Callback"]
<1>1. /\ pc = "acquire" /\ UNCHANGED <<now, target_time, sample_period>>
      /\ history' = [history EXCEPT !.stopped = FALSE]
  BY DEF SimulatorRunUntil, guiVars
<1>2. Calm' <=> Calm
  BY <1>1 DEF Calm, VTyped, History
<1>3. now \in Nat /\ target_time \in Nat /\ sample_period \in Nat /\ uid \in Nat
      /\ Len(Script) \in Nat
  BY ScriptAssumption, LenProperties DEF VTyped
<1>4. \A e \in events : e.at \in Nat /\ e.uid \in Nat
  BY DEF VTyped, Event
<1>5. Calm => ~Signalled'
  BY <1>1 DEF SliceInv, Signalled, SimulatorRunUntil
<1>6. Signalled /\ pc # "running"
  BY <1>1 DEF Signalled
<1>7. Calm => (go' /\ ~quit' => FALSE)
  BY <1>1 DEF SliceInv, SimulatorRunUntil
<1>8. CASE now >= target_time
  <2>1. pc' = "extend" /\ UNCHANGED <<events, uid>>
    BY <1>3, <1>8 DEF SimulatorRunUntil
  <2>2. QueueShape'
    BY <1>1, <2>1 DEF SliceInv, QueueShape, Own
  <2>3. Calm => BetweenSlices'
    BY <1>1, <1>6, <2>1 DEF SliceInv, BetweenSlices, Given, Own
  <2>4. Calm => \A e \in events' : e.kind = "Callback" => e.at < target_time'
    BY <1>1, <1>6, <2>1 DEF SliceInv
  <2>5. Calm => target_time' <= now' + sample_period'
    BY <1>1 DEF SliceInv
  <2> QED
    BY <1>1, <1>2, <1>8, <1>7, <2>1, <2>2, <2>3, <2>4, <2>5 DEF SliceInv
<1>9. CASE now < target_time
  <2>1. pc' = "running" /\ uid' = uid + 1 /\ events' = events \cup {n}
    BY <1>3, <1>9 DEF SimulatorRunUntil
  <2>2. n.at = target_time /\ n.uid = uid + 1 /\ n.kind = "Callback"
    OBVIOUS
  <2> HIDE DEF n
  <2>3. ~Own(n) /\ ~Given(n)
    BY <2>2 DEF Own, Given
  <2>4. QueueShape'
    BY <1>1, <1>3, <1>4, <1>9, <2>1, <2>2, <2>3 DEF SliceInv, QueueShape, Own
  <2>5. ASSUME Calm PROVE DuringSlice'
    <3>1. BetweenSlices /\ target_time <= now + sample_period
          /\ \A e \in events : e.kind = "Callback" => e.at < target_time
      BY <1>6, <2>5 DEF SliceInv
    <3>2. \A e \in events : /\ ~Given(e) /\ (Own(e) => target_time < e.at + sample_period)
                            /\ e.kind = "Callback" => e.at < target_time
      BY <1>3, <1>4, <3>1 DEF BetweenSlices
    <3>3. \A e \in events' : /\ ~Given(e) /\ (Own(e) => target_time < e.at + sample_period)
                             /\ e.kind = "Callback" => e.at <= target_time
      BY <1>3, <1>4, <2>1, <2>2, <2>3, <3>2
    <3>4. \A e \in events' : Ending(e) /\ e.at = target_time => e = n
      BY <1>3, <1>4, <2>1, <2>3, <3>2 DEF Ending
    <3> QED
      BY <1>1, <3>3, <3>4 DEF DuringSlice, Ending, Given, Own
  <2>6. Calm => target_time' <= now' + sample_period'
    BY <1>1 DEF SliceInv
  <2> QED
    BY <1>1, <1>2, <1>5, <1>7, <2>1, <2>4, <2>5, <2>6 DEF SliceInv
<1> QED
  BY <1>3, <1>8, <1>9

(* An event runs: a callback left over does nothing, the one at the target    *)
(* becomes the stop there, and a stop that is the program's own leaves only   *)
(* callbacks that the next target passes.                                     *)
LEMMA QueueRuns == ASSUME VInv, SliceInv, ProcessOneEvent PROVE SliceInv'
<1>1. PICK e \in events :
        /\ \A f \in events : Before(e, f)
        /\ now' = e.at
        /\ \/ e.kind = "Callback" /\ CallbackStopSimulation(e) /\ history' = history
           \/ /\ e.kind = "Stop" /\ events' = events \ {e} /\ uid' = uid
              /\ history' = [history EXCEPT !.stopped = e.uid <= Len(Script)]
           \/ /\ e.kind = "Pause" /\ events' = events \ {e} /\ uid' = uid
              /\ history' = [history EXCEPT !.raised = Append(@, e.uid)]
           \/ /\ e.kind = "Plain" /\ events' = events \ {e} /\ uid' = uid
              /\ history' = history
        /\ pc' = IF e.kind = "Stop" \/ events' = {} THEN "extend" ELSE "running"
  BY DEF ProcessOneEvent
<1>2. pc = "running" /\ UNCHANGED <<target_time, sample_period, go, quit>>
  BY DEF ProcessOneEvent, guiVars
<1>3. runUntil = target_time
  BY <1>2 DEF VInv, EndIsScheduled
<1>4. now \in Nat /\ target_time \in Nat /\ sample_period \in Nat /\ uid \in Nat
      /\ sample_period > 0 /\ uid >= Len(Script) /\ Len(Script) \in Nat
  BY ScriptAssumption, LenProperties DEF VInv, VTyped, SliceInv, QueueShape
<1>5. \A f \in events : f.at \in Nat /\ f.uid \in Nat /\ f.kind \in Kinds
  BY DEF VInv, VTyped, Event
<1>6. \A f \in events : e.at <= f.at /\ (e.at = f.at => e.uid <= f.uid)
  BY <1>1, <1>5 DEF Before
<1>7. /\ Calm' <=> Calm
      /\ history'.stopped = IF e.kind = "Stop" THEN e.uid <= Len(Script) ELSE history.stopped
  BY ZenonT(60), <1>1 DEF VInv, VTyped, History, Calm
<1> DEFINE n == [at |-> e.at, uid |-> uid + 1, kind |-> "Stop"]
           turns == e.kind = "Callback" /\ target_time <= e.at
<1>8. /\ turns => events' = (events \ {e}) \cup {n} /\ uid' = uid + 1
      /\ ~turns => events' = events \ {e} /\ uid' = uid
  BY <1>1, <1>3 DEF CallbackStopSimulation
<1>9. n.at = e.at /\ n.uid = uid + 1 /\ n.kind = "Stop"
  OBVIOUS
<1> HIDE DEF n
<1>10. Given(n) /\ ~Own(n)
  BY <1>4, <1>9 DEF Given, Own
<1>11. QueueShape'
  <2>1. \A f \in events' : f \in events \/ (turns /\ f = n)
    BY <1>8
  <2>2. uid' >= Len(Script)
    BY <1>4, <1>8
  <2>3. n.kind # "Callback"
    BY <1>9
  <2> QED
    BY <1>1, <1>2, <1>4, <1>5, <1>6, <1>9, <1>10, <2>1, <2>2, <2>3
       DEF SliceInv, QueueShape, Own
<1>12. pc' \in {"running", "extend"}
  BY <1>1
<1> SUFFICES ASSUME Calm PROVE SliceInv'
  BY <1>7, <1>11, <1>12 DEF SliceInv
<1>13. DuringSlice /\ target_time <= now + sample_period /\ (go => quit) /\ now <= e.at
  BY <1>2 DEF SliceInv, QueueShape
<1>14. target_time' <= now' + sample_period'
  BY <1>1, <1>2, <1>4, <1>5, <1>13
<1>15. ~Signalled' /\ (go' => quit')
  BY <1>2, <1>12, <1>13 DEF Signalled
<1>16. ASSUME pc' = "running" PROVE DuringSlice'
  <2>1. CASE ~turns
    BY <1>2, <1>8, <1>13, <2>1 DEF DuringSlice, Own, Given, Ending
  <2>2. CASE turns
    <3>1. e.at = target_time /\ e.kind = "Callback" /\ e.uid > Len(Script)
      BY <1>4, <1>5, <1>13, <2>2 DEF DuringSlice, SliceInv, QueueShape
    <3>2. \A f \in events : Ending(f) /\ f.at = target_time => f = e
      BY <1>13, <3>1 DEF DuringSlice, Ending
    <3>3. \A f \in events : Own(f) => e.at < f.at
      BY <1>4, <1>5, <1>6, <3>1 DEF Own
    <3>4. \A f \in events' : f = n \/ (f \in events /\ f # e)
      BY <1>8, <2>2
    <3>5. \A f \in events' : Given(f) => f = n
      BY <1>13, <3>2, <3>4 DEF DuringSlice, Ending
    <3>6. \A f \in events' : Ending(f) /\ f.at = target_time => f = n
      BY <3>2, <3>4
    <3>7. \A f \in events' : /\ Own(f) => target_time < f.at + sample_period /\ n.at < f.at
                             /\ f.kind = "Callback" => f.at <= target_time
      BY <1>9, <1>10, <1>13, <3>3, <3>4 DEF DuringSlice
    <3> QED
      BY <1>2, <1>9, <3>1, <3>5, <3>6, <3>7 DEF DuringSlice, Own, Given, Ending
  <2> QED
    BY <2>1, <2>2
<1>17. ASSUME pc' = "extend"
       PROVE  BetweenSlices' /\ (~history'.stopped => now' >= target_time')
  <2>1. CASE e.kind # "Stop"
    <3>1. events' = {}
      BY <1>1, <1>17, <2>1
    <3>2. PICK c \in events : c.at = target_time /\ c.kind \in {"Callback", "Stop"}
      BY <1>2 DEF VInv, EndIsScheduled
    <3>3. ~turns /\ events' = events \ {e}
      BY <1>8, <3>1
    <3>4. c = e
      BY <3>1, <3>3
    <3>5. turns
      BY <1>4, <2>1, <3>2, <3>4
    <3> QED
      BY <3>3, <3>5
  <2>2. CASE Own(e)
    <3>1. events' = events \ {e}
      BY <1>8, <2>2 DEF Own
    <3>2. history'.stopped
      BY ZenonT(60), <1>7, <2>2 DEF Own
    <3>3. ASSUME NEW f \in events, f # e, Own(f) PROVE e.at < f.at
      <4>1. CASE e.at = f.at
        <5>1. e.uid = f.uid
          BY <2>2, <3>3, <4>1 DEF SliceInv, QueueShape, Calm, StopsApart
        <5>2. e \in Event /\ f \in Event /\ e.kind = f.kind
          BY <2>2, <3>3 DEF Own, VInv, VTyped
        <5>3. e = f
          BY <4>1, <5>1, <5>2 DEF Event
        <5> QED
          BY <3>3, <5>3
      <4>2. CASE e.at # f.at
        BY <1>5, <1>6, <3>3, <4>2
      <4> QED
        BY <4>1, <4>2
    <3>4. \A f \in events : ~Given(f)
      BY <1>5, <1>6, <1>13, <2>2 DEF DuringSlice
    <3>5. \A f \in events : f.kind = "Callback" => f.at < e.at + sample_period
      BY <1>4, <1>5, <1>13, <2>2 DEF DuringSlice
    <3> QED
      BY <1>1, <1>2, <3>1, <3>2, <3>3, <3>4, <3>5 DEF BetweenSlices, Own, Given
  <2>3. CASE Given(e)
    <3>1. events' = events \ {e} /\ e.at = target_time
      BY <1>8, <1>13, <2>3 DEF Given, DuringSlice
    <3>2. \A f \in events : Given(f) => f = e
      BY <1>13, <2>3 DEF DuringSlice, Ending
    <3>3. \A f \in events : Own(f) => e.at < f.at
      BY <1>13, <2>3 DEF DuringSlice
    <3>4. \A f \in events : f.kind = "Callback" => f.at < e.at + sample_period
      BY <1>4, <1>5, <1>13, <3>1 DEF DuringSlice
    <3>5. now' >= target_time'
      BY <1>1, <1>2, <1>4, <3>1
    <3> QED
      BY <1>1, <1>2, <3>1, <3>2, <3>3, <3>4, <3>5 DEF BetweenSlices, Own, Given
  <2> QED
    BY <1>4, <1>5, <2>1, <2>2, <2>3 DEF Own, Given
<1> QED
  BY <1>7, <1>11, <1>12, <1>14, <1>15, <1>16, <1>17 DEF SliceInv

(* A view that is not hasty sets its target beyond every callback left over.  *)
LEMMA QueueDrawn == ASSUME VInv, SliceInv, NEW k, UpdateView(k) PROVE SliceInv'
<1>1. /\ UNCHANGED <<pc, quit, sample_period, now, events, uid>> /\ ~Locked
      /\ target_time' = now + sample_period
      /\ history' = [history EXCEPT !.shown = history.shown \o pause_messages,
                                    !.hurried = history.hurried \/ Behind]
  BY DEF UpdateView, simVars
<1>2. /\ history'.slowed = history.slowed /\ history'.hurried = (history.hurried \/ Behind)
  BY <1>1 DEF VInv, VTyped, History
<1>3. Calm' => Calm /\ ~Behind
  BY ZenonT(60), <1>2 DEF Calm
<1>4. QueueShape'
  BY <1>1 DEF SliceInv, QueueShape, Own
<1>5. now \in Nat /\ sample_period \in Nat
  BY DEF VInv, VTyped
<1>6. pc' \notin {"running", "extend"}
  BY <1>1 DEF Locked
<1>7. ~Behind => pc \notin {"clear", "check", "acquire"}
  BY DEF Behind
<1>8. Calm => BetweenSlices
  BY <1>1 DEF SliceInv, Locked
<1>9. Calm' => BetweenSlices'
  BY <1>1, <1>3, <1>8 DEF BetweenSlices, Own, Given
<1>10. Calm' => \A e \in events' : e.kind = "Callback" => e.at < target_time'
  BY <1>1, <1>3, <1>8 DEF BetweenSlices
<1>11. target_time' <= now' + sample_period'
  BY <1>1, <1>5
<1>12. Calm' /\ go' /\ ~quit' => pc' \in {"test", "wait", "clear"}
  BY <1>1, <1>3, <1>6, <1>7 DEF SliceInv
<1> QED
  BY <1>1, <1>4, <1>6, <1>9, <1>10, <1>11, <1>12 DEF SliceInv

(* Every step of either thread keeps SliceInv.                                *)
LEMMA SliceStep == VInv /\ SliceInv /\ [VNext]_vVars => SliceInv'
<1> SUFFICES ASSUME VInv, SliceInv, [VNext]_vVars PROVE SliceInv'
  OBVIOUS
<1>1. VTyped /\ sample_period \in Nat /\ sample_period > 0
  BY DEF VInv, VTyped, SliceInv, QueueShape
<1>2. CASE Test \/ Wait \/ Clear \/ CheckQuit
  <2>1. /\ UNCHANGED <<now, events, uid, target_time, sample_period, history, quit>>
        /\ pc # "running"
        /\ pc' \in {"test", "wait", "clear", "check", "acquire", "ended"}
        /\ pc' = "ended" => quit'
    BY <1>2 DEF Test, Wait, Clear, CheckQuit, simVars, guiVars
  <2>2. Calm' <=> Calm
    BY <2>1 DEF Calm
  <2>3. Signalled' => Signalled
    BY <1>2 DEF Test, Wait, Clear, CheckQuit, Signalled
  <2>4. Calm' /\ go' /\ ~quit' => pc' \in {"test", "wait", "clear"}
    BY ZenonT(60), <1>2, <2>2 DEF SliceInv, Test, Wait, Clear, CheckQuit
  <2> QED
    BY <1>1, <2>1, <2>2, <2>3, <2>4, QueueUntouched
<1>3. CASE SimulatorRunUntil
  BY <1>1, <1>3, QueueAtStart
<1>4. CASE ProcessOneEvent
  BY <1>4, QueueRuns
<1>5. CASE Extend
  <2>1. /\ UNCHANGED <<now, events, uid, target_time, sample_period, history, quit, go>>
        /\ pc = "extend" /\ pc' = "test"
    BY <1>5 DEF Extend, simVars, guiVars
  <2>2. Calm' <=> Calm
    BY <2>1 DEF Calm
  <2>3. Signalled' => Signalled
    BY <2>1 DEF Signalled
  <2> QED
    BY <1>1, <2>1, <2>2, <2>3, QueueUntouched
<1>6. CASE update_model
  <2>1. UNCHANGED <<now, events, uid, target_time, sample_period, history, quit, go, pc>>
    BY <1>6 DEF update_model, simVars, guiVars
  <2>2. (Calm' <=> Calm) /\ (Signalled' => Signalled)
    BY <2>1 DEF Calm, Signalled
  <2> QED
    BY <1>1, <2>1, <2>2, QueueUntouched DEF SliceInv
<1>7. ASSUME NEW k \in Timers, update_view_timeout(k) PROVE SliceInv'
  <2>1. CASE UpdateView(k)
    BY <2>1, QueueDrawn
  <2>2. CASE UNCHANGED <<now, events, uid, target_time, sample_period, history, quit, go, pc>>
    <3>1. (Calm' <=> Calm) /\ (Signalled' => Signalled)
      BY <2>2 DEF Calm, Signalled
    <3> QED
      BY <1>1, <2>2, <3>1, QueueUntouched DEF SliceInv
  <2> QED
    BY <1>7, <2>1, <2>2 DEF update_view_timeout, simVars
<1>8. CASE AcquireAfterWaiting
  BY <1>8, QueueDrawn DEF AcquireAfterWaiting
<1>9. CASE _on_play_button_toggled
  <2>1. UNCHANGED <<now, events, uid, target_time, sample_period, history, quit, go, pc>>
    BY <1>9 DEF _on_play_button_toggled, simVars
  <2>2. (Calm' <=> Calm) /\ (Signalled' => Signalled)
    BY <2>1 DEF Calm, Signalled
  <2> QED
    BY <1>1, <2>1, <2>2, QueueUntouched DEF SliceInv
<1>10. CASE _speed_changed
  <2>1. /\ UNCHANGED <<now, events, uid, target_time, quit, go, pc>>
        /\ sample_period' \in Periods
        /\ history' = [history EXCEPT !.slowed = history.slowed \/ sample_period' < sample_period]
    BY <1>10 DEF _speed_changed, simVars
  <2>2. sample_period' \in Nat /\ sample_period' > 0
    BY <2>1, PeriodsAssumption
  <2>3. /\ history'.slowed = (history.slowed \/ sample_period' < sample_period)
        /\ history'.hurried = history.hurried /\ history'.stopped = history.stopped
    BY <1>1, <2>1 DEF VTyped, History
  <2>4. Calm' => Calm /\ sample_period' >= sample_period
    <3>1. Calm' => Calm /\ ~(sample_period' < sample_period)
      BY ZenonT(60), <2>3 DEF Calm, StopsApart
    <3>2. ~(sample_period' < sample_period) => sample_period' >= sample_period
      BY <1>1, <2>2
    <3> QED
      BY <3>1, <3>2
  <2>5. Signalled' => Signalled
    BY <2>1 DEF Signalled
  <2> QED
    BY <1>1, <2>1, <2>2, <2>3, <2>4, <2>5, QueueUntouched DEF SliceInv
<1>11. CASE _quit
  <2>1. /\ UNCHANGED <<now, events, uid, target_time, sample_period, history, pc>>
        /\ quit'
    BY <1>11 DEF _quit, simVars
  <2>2. (Calm' <=> Calm) /\ (Signalled' => Signalled)
    BY <2>1 DEF Calm, Signalled
  <2> QED
    BY <1>1, <2>1, <2>2, QueueUntouched DEF SliceInv
<1>12. CASE Joined \/ UNCHANGED vVars
  <2>1. UNCHANGED <<now, events, uid, target_time, sample_period, history, quit, go, pc>>
    BY <1>12 DEF Joined, vVars, simVars, guiVars
  <2>2. (Calm' <=> Calm) /\ (Signalled' => Signalled)
    BY <2>1 DEF Calm, Signalled
  <2> QED
    BY <1>1, <2>1, <2>2, QueueUntouched DEF SliceInv
<1> QED
  BY <1>2, <1>3, <1>4, <1>5, <1>6, <1>7, <1>8, <1>9, <1>10, <1>11, <1>12
     DEF VNext, SimStep

(* For every script, speed range and user: unless the speed was reduced, the  *)
(* view was hasty or the program stopped itself, a slice runs up to the       *)
(* target, in spite of the callbacks that interrupted slices leave behind.    *)
THEOREM SlicesReachTarget == VSpec => []SliceReachesTarget
<1>1. SliceInv => SliceReachesTarget
  BY DEF SliceInv, SliceReachesTarget, Calm
<1> QED
  BY <1>1, SliceInit, SliceStep, VInvariant, PTL DEF VSpec

=============================================================================
