---------------------------- MODULE DeadNonceList ----------------------------
(***************************************************************************)
(* The Dead Nonce List of NFD (daemon/table/dead-nonce-list.cpp).          *)
(*                                                                         *)
(* The list stores hashes of (Name, Nonce) in insertion order, without     *)
(* time stamps.  How long an entry stays is controlled by the capacity,    *)
(* and the capacity by MARKs: one MARK is appended every lifetime /        *)
(* EXPECTED_MARK_COUNT, and once per lifetime the capacity is scaled down  *)
(* when every count of MARKs taken since was above the expected one, and   *)
(* up when every count was below it.                                       *)
(*                                                                         *)
(* An element of Nonce stands for one 64-bit hash; collisions of two pairs *)
(* on one hash, or of a pair with MARK, are outside the model.             *)
(***************************************************************************)
EXTENDS Integers, Sequences, FiniteSets

CONSTANTS Nonce,             \* hashed (Name, Nonce) pairs
          MARK,
          INITIAL_CAPACITY, MIN_CAPACITY, MAX_CAPACITY,
          EXPECTED_MARK_COUNT, EVICT_LIMIT

Up(c) == (c * 12) \div 10    \* c * CAPACITY_UP, truncated
Down(c) == (c * 9) \div 10   \* c * CAPACITY_DOWN, truncated

\* The constructor's assertions.  The bound EXPECTED_MARK_COUNT =< EVICT_LIMIT
\* is not asserted there, but the constants (5 and 64) satisfy it and
\* QueueBounded rests on it.
ASSUME ConstantsAssumption ==
    /\ MARK \notin Nonce
    /\ INITIAL_CAPACITY \in Nat /\ MIN_CAPACITY \in Nat /\ MAX_CAPACITY \in Nat
    /\ EXPECTED_MARK_COUNT \in Nat \ {0}
    /\ EVICT_LIMIT \in Nat
    /\ MIN_CAPACITY =< INITIAL_CAPACITY /\ INITIAL_CAPACITY =< MAX_CAPACITY
    /\ Up(MIN_CAPACITY) > MIN_CAPACITY
    /\ Down(MAX_CAPACITY) < MAX_CAPACITY
    /\ EXPECTED_MARK_COUNT < MIN_CAPACITY
    /\ EXPECTED_MARK_COUNT =< EVICT_LIMIT

VARIABLES
    queue,         \* m_queue: oldest entry first
    capacity,      \* m_capacity
    markCounts,    \* m_actualMarkCounts; only which counts occur matters
    window,        \* mark slots of the current lifetime already used
    pushedSince    \* history: entries put behind each nonce since its last
                   \* add(), counted up to MIN_CAPACITY

vars == <<queue, capacity, markCounts, window, pushedSince>>

-----------------------------------------------------------------------------
Entries(q) == {q[i] : i \in DOMAIN q}

has(n) == n \in Entries(queue)

\* No hash occurs twice in q.
Distinct(q) ==
    \A i, j \in 1 .. Len(q) : q[i] = q[j] /\ q[i] # MARK => i = j

countMarks(q) == Cardinality({i \in DOMAIN q : q[i] = MARK})

\* Mutated forms, used only to show that the properties can fail.
RelocateNothing(q, n) == q
AdjustWithoutEvicting ==
    /\ window = EXPECTED_MARK_COUNT
    /\ window' = 0
    /\ UNCHANGED <<queue, capacity, markCounts, pushedSince>>
NeverScaleDown(c, counts) ==
    IF \A m \in counts : m < EXPECTED_MARK_COUNT
    THEN IF Up(c) > MAX_CAPACITY THEN MAX_CAPACITY ELSE Up(c)
    ELSE c

\* evictEntries(): at most EVICT_LIMIT of the oldest entries
evictEntries(q, c) ==
    LET excess == IF Len(q) =< c THEN 0 ELSE Len(q) - c
        nEvict == IF excess < EVICT_LIMIT THEN excess ELSE EVICT_LIMIT
    IN  SubSeq(q, nEvict + 1, Len(q))

\* m_queue.relocate(end, position of n)
Relocate(q, n) ==
    LET p == CHOOSE i \in DOMAIN q : q[i] = n
    IN  [i \in DOMAIN q |-> IF i < p THEN q[i]
                            ELSE IF i < Len(q) THEN q[i + 1] ELSE n]

\* How adjustCapacity() scales the capacity.  Without any count both
\* conditions hold and the first one wins.
Scaled(c, counts) ==
    IF \A m \in counts : m > EXPECTED_MARK_COUNT
    THEN IF Down(c) > MIN_CAPACITY THEN Down(c) ELSE MIN_CAPACITY
    ELSE IF \A m \in counts : m < EXPECTED_MARK_COUNT
    THEN IF Up(c) < MAX_CAPACITY THEN Up(c) ELSE MAX_CAPACITY
    ELSE c

Older(m) == IF pushedSince[m] < MIN_CAPACITY THEN pushedSince[m] + 1
                                             ELSE MIN_CAPACITY

-----------------------------------------------------------------------------
\* The first mark is due one interval after construction, so the first window
\* has one mark less than the later ones.
Init ==
    /\ queue = [i \in 1 .. EXPECTED_MARK_COUNT |-> MARK]
    /\ capacity = INITIAL_CAPACITY
    /\ markCounts = {}
    /\ window = 1
    /\ pushedSince = [n \in Nonce |-> MIN_CAPACITY]

add(n) ==
    /\ queue' = IF has(n) THEN Relocate(queue, n)
                          ELSE evictEntries(Append(queue, n), capacity)
    /\ pushedSince' = [m \in Nonce |-> IF m = n THEN 0 ELSE Older(m)]
    /\ UNCHANGED <<capacity, markCounts, window>>

mark ==
    /\ window < EXPECTED_MARK_COUNT
    /\ queue' = Append(queue, MARK)
    /\ markCounts' = markCounts \cup {countMarks(queue')}
    /\ window' = window + 1
    /\ pushedSince' = [m \in Nonce |-> Older(m)]
    /\ UNCHANGED capacity

\* When a mark and the adjustment are due at the same instant, the adjustment
\* was scheduled first and runs first.
adjustCapacity ==
    /\ window = EXPECTED_MARK_COUNT
    /\ capacity' = Scaled(capacity, markCounts)
    /\ markCounts' = {}
    /\ queue' = evictEntries(queue, capacity')
    /\ window' = 0
    /\ UNCHANGED pushedSince

AddSome == \E n \in Nonce : add(n)

Next == AddSome \/ mark \/ adjustCapacity

Spec == Init /\ [][Next]_vars

\* Both events re-arm themselves, so the timers keep firing.
FairSpec == Spec /\ WF_vars(mark) /\ WF_vars(adjustCapacity)

-----------------------------------------------------------------------------
TypeOK ==
    /\ queue \in Seq(Nonce \cup {MARK})
    /\ capacity \in MIN_CAPACITY .. MAX_CAPACITY
    /\ markCounts \subseteq Nat
    /\ window \in 0 .. EXPECTED_MARK_COUNT
    /\ pushedSince \in [Nonce -> 0 .. MIN_CAPACITY]

\* No nonce is stored twice: add() moves a known hash instead of storing a
\* second copy, so that evicting one copy can never leave has() true because
\* of another.
NoDuplicates == Distinct(queue)

\* A nonce stays known to has() while fewer than MIN_CAPACITY entries (nonces
\* or MARKs) were put behind it since add() last saw it, whatever evictions,
\* duplicates, marks and capacity changes happened in between.
RetentionGuarantee ==
    \A n \in Nonce : pushedSince[n] < MIN_CAPACITY => has(n)

\* The memory limit holds although mark() appends without evicting: the
\* adjustment at the end of each lifetime makes up for its marks.
QueueBounded == Len(queue) =< MAX_CAPACITY + window

\* The list implements the abstract set of nonces: add() makes its nonce known
\* at once, a recent nonce is never forgotten, and nothing else makes one known.
Abstract == INSTANCE NonceSet WITH
    dead <- Entries(queue) \ {MARK},
    recent <- {n \in Nonce : pushedSince[n] < MIN_CAPACITY}
ImplementsNonceSet == Abstract!Spec

\* Once no more nonces are added, the capacity goes down to the minimum and
\* stays there, so that an idle forwarder gives the memory back.
IdleShrinks ==
    (<>[][~AddSome]_vars) => <>[](capacity = MIN_CAPACITY)
=============================================================================
