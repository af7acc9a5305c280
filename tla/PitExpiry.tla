------------------------------ MODULE PitExpiry ------------------------------
(***************************************************************************)
(* One PIT entry of one node and its expiry timer on the shared Scheduler: *)
(* Forwarder::setExpiryTimer and onInterestFinalize composed with          *)
(* Scheduler.  The module Forwarder takes the timer as exact; this one     *)
(* shows when it is.                                                       *)
(***************************************************************************)
EXTENDS Scheduler

CONSTANTS
    Node,         \* the context of the entry's forwarder
    TimerId,      \* events used for expiry timers
    NoTimer

ASSUME PitExpiryAssumption == Node \in Context /\ TimerId \subseteq Id /\ NoTimer \notin Id

VARIABLES
    phase,        \* of the entry: "new", "live" or "erased"
    expiryTimer,  \* pitEntry->expiryTimer
    left,         \* time until the entry is to be erased
    finalizing,   \* the callback onInterestFinalize has been called
    raced         \* the timer was set when its callback had been handed to ns-3

entryVars == <<phase, expiryTimer, left, finalizing, raced>>
pitExpiryVars == <<vars, entryVars>>

-----------------------------------------------------------------------------
\* Forwarder::setExpiryTimer, with the event id of the new timer
setExpiryTimer(s, id, duration) ==
    schedule(cancelImpl(s, expiryTimer, Node), id, duration, Node)

\* Mutated forms, used only to show that the properties can fail.
CancelWithoutSchedule(id, duration) ==
    /\ ~finalizing /\ phase # "erased" /\ MayCall(Node)
    /\ id \notin Ids(queue) \cup Ids(ns3)
    /\ Becomes(cancelImpl(state, expiryTimer, Node))
    /\ phase' = "live" /\ expiryTimer' = id /\ left' = duration
    /\ raced' = (raced \/ expiryTimer \in Ids(ns3))
    /\ ran' = {}
    /\ UNCHANGED <<executing, current, inCallback, finalizing>>
ScheduleWithoutCancel(id, duration) ==
    /\ ~finalizing /\ phase # "erased" /\ MayCall(Node)
    /\ id \notin Ids(queue) \cup Ids(ns3)
    /\ Becomes(schedule(state, id, duration, Node))
    /\ phase' = "live" /\ expiryTimer' = id /\ left' = duration
    /\ raced' = (raced \/ expiryTimer \in Ids(ns3))
    /\ ran' = {}
    /\ UNCHANGED <<executing, current, inCallback, finalizing>>

\* A pipeline sets the timer: to the last in-record's expiry when an Interest
\* arrives, to now when Data or the last Nack does.
SetTimer(id, duration) ==
    /\ ~finalizing /\ phase # "erased" /\ MayCall(Node)
    /\ id \notin Ids(queue) \cup Ids(ns3)
    /\ Becomes(setExpiryTimer(state, id, duration))
    /\ phase' = "live" /\ expiryTimer' = id /\ left' = duration
    /\ raced' = (raced \/ expiryTimer \in Ids(ns3))
    /\ ran' = {}
    /\ UNCHANGED <<executing, current, inCallback, finalizing>>

\* The callback of a timer: the entry's timer is cancelled, the entry erased.
onInterestFinalize ==
    /\ finalizing /\ finalizing' = FALSE /\ phase' = "erased"
    /\ Becomes(cancelImpl(state, expiryTimer, Node))
    /\ ran' = {}
    /\ UNCHANGED <<executing, current, inCallback, expiryTimer, left, raced>>

\* The Scheduler runs; a timer's callback runs to its end before anything else.
RunScheduler ==
    /\ ~finalizing
    /\ \/ executeEvent \/ ProcessExpired \/ EndExecuting \/ RunCallback
    /\ finalizing' = (ran' \cap TimerId # {})
    /\ UNCHANGED <<phase, expiryTimer, left, raced>>
Time ==
    /\ ~finalizing /\ Tick
    /\ left' = IF left = 0 THEN 0 ELSE left - 1
    /\ UNCHANGED <<phase, expiryTimer, finalizing, raced>>

\* Events of the other nodes, and others of this one.
OtherEvents ==
    /\ ~finalizing
    /\ Client(Id \ TimerId)
    /\ UNCHANGED entryVars

PitExpiryInit ==
    /\ Init
    /\ phase = "new" /\ expiryTimer = NoTimer /\ left = 0 /\ finalizing = FALSE /\ raced = FALSE
Proceed == onInterestFinalize \/ RunScheduler \/ Time
PitExpiryNext ==
    \/ \E id \in TimerId, t \in 0 .. MaxDelay : SetTimer(id, t)
    \/ Proceed \/ OtherEvents
PitExpirySpec == PitExpiryInit /\ [][PitExpiryNext]_pitExpiryVars

\* ns-3 goes on with its events, whatever the nodes do.
PitExpiryFairSpec == PitExpirySpec /\ WF_pitExpiryVars(Proceed)

-----------------------------------------------------------------------------
\* Properties

\* The entry cannot leak: while it is in the PIT, the event of its timer is
\* still going to be run, on any number of nodes.
LiveHasTimer ==
    phase = "live" /\ ~finalizing => expiryTimer \in Ids(queue) \cup Ids(ns3)

\* onInterestFinalize erases an entry that is still in the PIT (Pit::erase
\* asserts that it finds it).
EraseFindsEntry == finalizing => phase = "live"

\* With any number of nodes on the Scheduler, the entry is erased once, when
\* the last timer set for it is due, neither earlier nor later, unless a
\* pipeline set the timer when the callback of the one before had already been
\* handed to ns-3.
ExactUnlessRaced ==
    ~raced => /\ EraseFindsEntry
              /\ finalizing => left = 0
              /\ phase = "live" => \A j \in DOMAIN queue :
                   queue[j].id = expiryTimer => queue[j].time = left

\* When the nodes stop calling the Scheduler, everything scheduled is executed,
\* ns-3 is left with nothing to call, and the entry is gone, for good.
AllExecuted ==
    <>[][Proceed]_pitExpiryVars =>
        <>[](queue = <<>> /\ ns3 = <<>> /\ phase # "live")
=============================================================================
