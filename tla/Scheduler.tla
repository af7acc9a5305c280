------------------------------ MODULE Scheduler ------------------------------
(***************************************************************************)
(* The event scheduler of ndn-cxx as ndnSIM runs it on the ns-3 simulator  *)
(* (ndn-cxx/util/scheduler.cpp).  All simulated nodes share one Scheduler; *)
(* an event carries the context (node) that scheduled it.  The Scheduler   *)
(* keeps its own queue and asks ns-3 for one call of executeEvent at the   *)
(* time of the first event.                                                *)
(*                                                                         *)
(* Times are relative to now.  ns-3 runs its events by time and, at the    *)
(* same time, in the order in which they were scheduled; between two of    *)
(* them any handler of a node may call schedule and cancel.  Exceptions    *)
(* thrown by callbacks and the destructor are left out.                    *)
(***************************************************************************)
EXTENDS Integers, Sequences, FiniteSets

CONSTANTS
    Id,           \* events; one can be reused when its callback has run
    Context,      \* simulated nodes
    MaxDelay,     \* longest delay asked for
    MaxPending    \* bound: ns-3 events outstanding when a handler is called

ASSUME SchedulerAssumption ==
    MaxDelay \in Nat /\ MaxPending \in Nat /\ "none" \notin Id

VARIABLES
    queue,        \* m_queue: [id, time, context], by time, then insertion
    ns3,          \* ns-3 event queue: calls of executeEvent ("exec") and of
                  \* callbacks ("call"); timer marks the one in m_timerEvent
    executing,    \* m_isEventExecuting
    current,      \* the context ns-3 runs in while executing
    inCallback,   \* executeEvent is inside a callback
    ran           \* callbacks that the last step ran

state == [queue |-> queue, ns3 |-> ns3, executing |-> executing]
vars == <<queue, ns3, executing, current, inCallback, ran>>

-----------------------------------------------------------------------------
\* How many elements of s, which is ordered by time, are not later than t.
Places(s, t) ==
    {p \in 0 .. Len(s) : /\ \A j \in 1 .. p : s[j].time =< t
                         /\ \A j \in p + 1 .. Len(s) : s[j].time > t}
InsertAfter(s, p, x) ==
    [j \in 1 .. Len(s) + 1 |-> IF j =< p THEN s[j] ELSE IF j = p + 1 THEN x ELSE s[j - 1]]

\* std::multiset::insert, and the order of ns-3: behind everything that is not
\* later.
InsertByTime(s, x) == InsertAfter(s, CHOOSE p \in Places(s, x.time) : TRUE, x)

\* Erasing the element an iterator or an EventId points to.
RemoveAt(s, p) == [j \in 1 .. Len(s) - 1 |-> IF j < p THEN s[j] ELSE s[j + 1]]

Ids(s) == {s[j].id : j \in DOMAIN s}
Without(s, id) == RemoveAt(s, CHOOSE j \in DOMAIN s : s[j].id = id)

\* m_timerEvent is cancelled, if there is one.
WithoutTimer(s) ==
    IF \A j \in DOMAIN s : ~s[j].timer THEN s
    ELSE RemoveAt(s, CHOOSE j \in DOMAIN s : s[j].timer)

Exec(c, t) == [kind |-> "exec", time |-> t, context |-> c, id |-> "none", timer |-> TRUE]
Call(c, id) == [kind |-> "call", time |-> 0, context |-> c, id |-> id, timer |-> FALSE]

\* m_timerEvent is overwritten or reset: what it pointed to stays in ns-3.
ForgetTimer(s) == [j \in DOMAIN s |-> [s[j] EXCEPT !.timer = FALSE]]

\* EventInfo::expiresFromNow: an overdue event is due now.
expiresFromNow(x) == IF x.time < 0 THEN 0 ELSE x.time

\* Scheduler::scheduleNext
scheduleNext(s, c) ==
    IF s.queue = <<>> THEN s
    ELSE [s EXCEPT !.ns3 = InsertByTime(ForgetTimer(@), Exec(c, expiresFromNow(Head(s.queue))))]

\* Scheduler::schedule
schedule(s, id, after, c) ==
    LET s1 == [s EXCEPT !.queue =
                  InsertByTime(@, [id |-> id, time |-> after, context |-> c])]
    IN  IF ~s.executing /\ Head(s1.queue).id = id THEN scheduleNext(s1, c) ELSE s1

\* Mutated form, used only to show that a property can fail.
CancelWithoutRearming(s, id, c) ==
    IF id \notin Ids(s.queue) THEN s
    ELSE [s EXCEPT !.queue = Without(@, id),
                   !.ns3 = WithoutTimer(@)]

\* Scheduler::cancelImpl: nothing happens once the event is marked expired.
cancelImpl(s, id, c) ==
    IF id \notin Ids(s.queue) THEN s
    ELSE LET s1 == [s EXCEPT !.queue = Without(@, id),
                             !.ns3 = WithoutTimer(@)]
         IN  IF s.executing THEN s1 ELSE scheduleNext(s1, c)

-----------------------------------------------------------------------------
Init ==
    /\ queue = <<>> /\ ns3 = <<>>
    /\ executing = FALSE /\ current \in Context /\ inCallback = FALSE
    /\ ran = {}

Becomes(s) == queue' = s.queue /\ ns3' = s.ns3

\* A handler or a callback may call the Scheduler from context c.
MayCall(c) == (executing => inCallback /\ c = current) /\ Len(ns3) < MaxPending

Schedule(id, after, c) ==
    /\ MayCall(c) /\ id \notin Ids(queue) \cup Ids(ns3)
    /\ Becomes(schedule(state, id, after, c))
    /\ ran' = {} /\ UNCHANGED <<executing, current, inCallback>>

Cancel(id, c) ==
    /\ MayCall(c) /\ id \in (Ids(queue) \cup Ids(ns3)) \ {"none"}
    /\ Becomes(cancelImpl(state, id, c))
    /\ ran' = {} /\ UNCHANGED <<executing, current, inCallback>>

\* ns-3 calls executeEvent.
executeEvent ==
    /\ ~executing /\ ns3 # <<>> /\ Head(ns3).time = 0 /\ Head(ns3).kind = "exec"
    /\ executing' = TRUE /\ current' = Head(ns3).context
    /\ ns3' = ForgetTimer(Tail(ns3))
    /\ ran' = {} /\ UNCHANGED <<queue, inCallback>>

\* Mutated form, used only to show that a property can fail.
DispatchWithoutErasing ==
    /\ executing /\ queue # <<>> /\ Head(queue).time =< 0
    /\ ns3' = InsertByTime(ns3, Call(Head(queue).context, Head(queue).id))
    /\ inCallback' = FALSE /\ ran' = {}
    /\ UNCHANGED <<queue, executing, current>>

\* One round of its loop: a callback of this context is called, one of another
\* context is handed to ns-3.
ProcessExpired ==
    /\ executing /\ queue # <<>> /\ Head(queue).time =< 0
    /\ queue' = Tail(queue)
    /\ inCallback' = (Head(queue).context = current)
    /\ IF Head(queue).context = current
       THEN ran' = {Head(queue).id} /\ UNCHANGED ns3
       ELSE /\ ran' = {}
            /\ ns3' = InsertByTime(ns3, Call(Head(queue).context, Head(queue).id))
    /\ UNCHANGED <<executing, current>>

\* Mutated form, used only to show that a property can fail.
EndWithoutRearming ==
    /\ executing /\ (queue # <<>> => Head(queue).time > 0)
    /\ executing' = FALSE /\ inCallback' = FALSE
    /\ ran' = {} /\ UNCHANGED <<queue, ns3, current>>
EndExecuting ==
    /\ executing /\ (queue # <<>> => Head(queue).time > 0)
    /\ executing' = FALSE /\ inCallback' = FALSE
    /\ Becomes(scheduleNext(state, current))
    /\ ran' = {} /\ UNCHANGED <<current>>

\* ns-3 runs a callback that executeEvent handed to it.
RunCallback ==
    /\ ~executing /\ ns3 # <<>> /\ Head(ns3).time = 0 /\ Head(ns3).kind = "call"
    /\ ran' = {Head(ns3).id}
    /\ ns3' = Tail(ns3)
    /\ UNCHANGED <<queue, executing, current, inCallback>>

\* How late an overdue event is makes no difference: it is compared with now.
Earlier(s) == [j \in DOMAIN s |-> [s[j] EXCEPT !.time = IF @ < 0 THEN @ ELSE @ - 1]]
Tick ==
    /\ ~executing /\ ~(queue = <<>> /\ ns3 = <<>>) /\ (ns3 # <<>> => Head(ns3).time > 0)
    /\ queue' = Earlier(queue) /\ ns3' = Earlier(ns3)
    /\ ran' = {} /\ UNCHANGED <<executing, current, inCallback>>

\* Some node schedules or cancels one of the events ids.
Client(ids) == \E id \in ids, c \in Context :
                   Cancel(id, c) \/ \E t \in 0 .. MaxDelay : Schedule(id, t, c)
Run == executeEvent \/ ProcessExpired \/ EndExecuting \/ RunCallback \/ Tick
Next == Client(Id) \/ Run

Spec == Init /\ [][Next]_vars

-----------------------------------------------------------------------------
\* Properties

\* Both queues are ordered by time.
Ordered(s) == \A i, j \in DOMAIN s : i < j => s[i].time =< s[j].time
TypeOK ==
    /\ \A j \in DOMAIN queue : queue[j] \in
         [id : Id, time : 0 .. MaxDelay, context : Context]
    /\ \A j \in DOMAIN ns3 : ns3[j] \in
         [kind : {"exec", "call"}, time : 0 .. MaxDelay, context : Context,
          id : Id \cup {"none"}, timer : BOOLEAN]
    /\ Ordered(queue) /\ Ordered(ns3)

\* No wake-up is lost: whatever schedules, cancels and stale calls of
\* executeEvent came before, ns-3 will call executeEvent no later than the
\* first queued event is due.
HeadIsArmed ==
    ~executing /\ queue # <<>> =>
        \E j \in DOMAIN ns3 : ns3[j].kind = "exec" /\ ns3[j].time =< Head(queue).time

\* An event is in one place: scheduling it once leads to one callback.
OnePlace ==
    /\ \A i, j \in DOMAIN queue : queue[i].id = queue[j].id => i = j
    /\ \A i, j \in DOMAIN ns3 : ns3[i].id = ns3[j].id => i = j \/ ns3[i].id = "none"
    /\ \A i \in DOMAIN queue, j \in DOMAIN ns3 : queue[i].id # ns3[j].id

=============================================================================
