----------------------------- MODULE FibUpdater -----------------------------
(***************************************************************************)
(* How RIB updates reach the FIB (daemon/rib/rib.cpp, fib-updater.cpp and  *)
(* the face clean-up of daemon/mgmt/rib-manager.cpp).  RIB updates wait in *)
(* a queue and are taken one at a time: the FIB updates of a batch are     *)
(* sent as commands, first those for the face of the batch, then the rest, *)
(* and the RIB changes when all of them have been answered.  Faces are     *)
(* destroyed and commands time out meanwhile.                              *)
(*                                                                         *)
(* A handler that goes on in another function leaves the rest of its work  *)
(* in call; nothing else happens until call is None again.  Commands are   *)
(* answered in order, which is what the internal face of the management    *)
(* does; the order within a list of updates is left open.                  *)
(***************************************************************************)
EXTENDS Rib

CONSTANTS
    MAX_NUM_TIMEOUTS,
    Mortal,       \* faces that may be destroyed
    MaxRequests,  \* bound: registrations and unregistrations asked for
    MaxQueue      \* bound: batches waiting when active faces are fetched

\* RibUpdate
Batch == [action : {"REGISTER", "UNREGISTER", "REMOVE_FACE"}, name : Name, face : Face,
          route : {o.route : o \in Offer}]
Function == {"sendBatchFromQueue", "onFibUpdateSuccess", "onFibUpdateFailure"}

ASSUME FibUpdaterAssumption ==
    None \notin [to : Function, batch : Batch \cup {None}, own : BOOLEAN]

VARIABLES
    m_updateBatches,             \* sequence of [action, name, face, route]
    m_isUpdateInProgress, m_batchFaceId,
    m_updatesForBatchFaceId, m_updatesForNonBatchFaceId,   \* sets of [name, face, action, cost]
    m_inheritedRoutes,
    commands,       \* sequence of [batch, update, sent, nTimeouts, reply, current]
    up, notices,    \* the face table; destroyed faces the RIB is still to hear of
    call,           \* None or the function being called: [to, batch, own]
    requests,
    strayed,        \* history: a batch has ended with commands unanswered
    retriedRemoval  \* history: a removal has timed out

updates == <<m_batchFaceId, m_updatesForBatchFaceId, m_updatesForNonBatchFaceId, m_inheritedRoutes>>
history == <<strayed, retriedRemoval>>
fuVars == <<ribVars, m_updateBatches, m_isUpdateInProgress, updates, commands, up, notices, call,
            requests, history>>

FibUpdates(u, F) == {[name |-> x[1], face |-> x[2], action |-> u.fib[x].action, cost |-> u.fib[x].cost] :
                        x \in {y \in Pair : u.fib[y] # None /\ y[2] \in F}}
Call(function, batch, own) == [to |-> function, batch |-> batch, own |-> own]
SendBatch == Call("sendBatchFromQueue", None, TRUE)
FuInit ==
    /\ RibInit
    /\ m_updateBatches = <<>> /\ m_isUpdateInProgress = FALSE /\ m_batchFaceId = None
    /\ m_updatesForBatchFaceId = {} /\ m_updatesForNonBatchFaceId = {}
    /\ m_inheritedRoutes = NoUpdates.inherited
    /\ commands = <<>> /\ up = Face /\ notices = {} /\ call = None
    /\ requests = 0 /\ strayed = FALSE /\ retriedRemoval = FALSE

-----------------------------------------------------------------------------
\* What comes in

beginApplyUpdate(o, action) ==
    /\ call = None /\ requests < MaxRequests
    /\ m_updateBatches' = Append(m_updateBatches, [action |-> action, name |-> o.name, face |-> o.face,
                                                   route |-> o.route])
    /\ requests' = requests + 1 /\ call' = SendBatch
    /\ UNCHANGED <<ribVars, m_isUpdateInProgress, updates, commands, up, notices, history>>

\* Rib::enqueueRemoveFace for every entry that m_faceEntries has for the faces F
RoutesOfFaces(F) ==
    UNION {UNION {{[action |-> "REMOVE_FACE", name |-> n, face |-> f, route |-> r] : r \in RoutesOn(rib[n], f)} :
                    n \in Name} : f \in F}
enqueueRemoveFaces(F) ==
    /\ m_updateBatches' = m_updateBatches \o Listing(RoutesOfFaces(F))
    /\ call' = SendBatch
    /\ UNCHANGED <<ribVars, m_isUpdateInProgress, updates, commands, up, requests, history>>

\* RibManager::onNotification and Rib::beginRemoveFace
onNotification(f) ==
    /\ call = None /\ f \in notices /\ notices' = notices \ {f}
    /\ enqueueRemoveFaces({f})

\* Mutated form, used only to show that a property can fail.
FetchNotifiedFaces ==
    /\ call = None /\ Len(m_updateBatches) < MaxQueue /\ RoutesOfFaces(notices) # {}
    /\ enqueueRemoveFaces(notices) /\ UNCHANGED notices

\* RibManager::fetchActiveFaces, removeInvalidFaces, Rib::beginRemoveFailedFaces
fetchActiveFaces ==
    /\ call = None /\ Len(m_updateBatches) < MaxQueue /\ RoutesOfFaces(Face \ up) # {}
    /\ enqueueRemoveFaces(Face \ up) /\ UNCHANGED notices

\* The forwarder removes the next hops of a face together with it.
DestroyFace(f) ==
    /\ call = None /\ f \in up \cap Mortal
    /\ up' = up \ {f} /\ notices' = notices \cup {f}
    /\ fib' = [n \in Name |-> [fib[n] EXCEPT ![f] = None]]
    /\ UNCHANGED <<rib, parent, inherited, m_updateBatches, m_isUpdateInProgress, updates, commands, call,
                   requests, history>>

-----------------------------------------------------------------------------
\* Sending

Command(batch, own, update) == [batch |-> batch, update |-> update, sent |-> update.action, nTimeouts |-> 0,
                           reply |-> None, current |-> own]
sendUpdates(U, batch, own, before) ==
    \E s \in Listings(U) : commands' = before \o [j \in DOMAIN s |-> Command(batch, own, s[j])]

\* Mutated form, used only to show that a property can fail.
OnlyBatchFace(U, batch, own, before) ==
    commands' = before /\ call' = Call("onFibUpdateSuccess", batch, own)
sendUpdatesForNonBatchFaceId(U, batch, own, before) ==
    IF U # {} THEN sendUpdates(U, batch, own, before) /\ call' = None
    ELSE commands' = before /\ call' = Call("onFibUpdateSuccess", batch, own)

sendUpdatesForBatchFaceId(U, V, batch, before) ==
    IF U # {} THEN sendUpdates(U, batch, TRUE, before) /\ call' = None
    ELSE sendUpdatesForNonBatchFaceId(V, batch, TRUE, before)

computeUpdates(b) ==
    IF b.action = "REGISTER" THEN {computeUpdatesForRegistration(b.name, b.face, b.route)}
    ELSE computeUpdatesForUnregistration(b.name, b.face, b.route.origin)

computeAndSendFibUpdates(b) ==
    \E u \in computeUpdates(b) :
        /\ m_batchFaceId' = b.face
        /\ m_inheritedRoutes' = u.inherited
        /\ m_updatesForBatchFaceId' = IF b.action = "REMOVE_FACE" THEN {} ELSE FibUpdates(u, {b.face})
        /\ m_updatesForNonBatchFaceId' = FibUpdates(u, Face \ {b.face})
        /\ sendUpdatesForBatchFaceId(m_updatesForBatchFaceId', m_updatesForNonBatchFaceId', b,
                                     [j \in DOMAIN commands |-> [commands[j] EXCEPT !.current = FALSE]])

sendBatchFromQueue ==
    /\ call # None /\ call.to = "sendBatchFromQueue"
    /\ \/ /\ m_updateBatches = <<>> \/ m_isUpdateInProgress
          /\ call' = None
          /\ UNCHANGED <<m_updateBatches, m_isUpdateInProgress, updates, commands>>
       \/ /\ m_updateBatches # <<>> /\ ~m_isUpdateInProgress
          /\ m_isUpdateInProgress' = TRUE
          /\ m_updateBatches' = Tail(m_updateBatches)
          /\ computeAndSendFibUpdates(Head(m_updateBatches))
    /\ UNCHANGED <<ribVars, up, notices, requests, history>>

-----------------------------------------------------------------------------
\* The FIB manager and its answers

\* FibManager::addNextHop and removeNextHop, for the first command not yet seen
Execute ==
    /\ call = None
    /\ \E j \in DOMAIN commands :
        LET c == commands[j]
            n == c.update.name
            f == c.update.face
        IN  /\ c.reply = None /\ \A k \in 1 .. j - 1 : commands[k].reply # None
            /\ commands' = [commands EXCEPT ![j].reply =
                               IF c.sent = "add" /\ f \notin up THEN "face not found" ELSE "success"]
            /\ fib' = [fib EXCEPT ![n][f] = IF f \in up /\ c.sent = "add" THEN c.update.cost ELSE
                                            IF f \in up THEN None ELSE @]
    /\ UNCHANGED <<rib, parent, inherited, m_updateBatches, m_isUpdateInProgress, updates, up, notices, call,
                   requests, history>>

Answered(reply) == call = None /\ commands # <<>> /\ Head(commands).reply = reply

\* Mutated form, used only to show that a property can fail.
FirstAnswerIsEnough ==
    LET c == Head(commands)
    IN  /\ Answered("success")
        /\ m_updatesForBatchFaceId' = m_updatesForBatchFaceId \ {c.update}
        /\ m_updatesForNonBatchFaceId' = m_updatesForNonBatchFaceId \ {c.update}
        /\ commands' = Tail(commands)
        /\ call' = Call("onFibUpdateSuccess", c.batch, c.current)
        /\ UNCHANGED <<ribVars, m_updateBatches, m_isUpdateInProgress, m_batchFaceId, m_inheritedRoutes, up,
                       notices, requests, history>>

onUpdateSuccess ==
    LET c == Head(commands)
        U == m_updatesForBatchFaceId \ {c.update}
        V == m_updatesForNonBatchFaceId \ {c.update}
    IN  /\ Answered("success")
        /\ IF c.update.face = m_batchFaceId
           THEN /\ m_updatesForBatchFaceId' = U /\ UNCHANGED m_updatesForNonBatchFaceId
                /\ IF U = {} THEN sendUpdatesForNonBatchFaceId(m_updatesForNonBatchFaceId, c.batch, c.current,
                                                                Tail(commands))
                   ELSE commands' = Tail(commands) /\ UNCHANGED call
           ELSE /\ m_updatesForNonBatchFaceId' = V /\ UNCHANGED m_updatesForBatchFaceId
                /\ commands' = Tail(commands)
                /\ call' = IF V = {} THEN Call("onFibUpdateSuccess", c.batch, c.current) ELSE None
        /\ UNCHANGED <<ribVars, m_updateBatches, m_isUpdateInProgress, m_batchFaceId, m_inheritedRoutes, up,
                       notices, requests, history>>

\* onUpdateError with ERROR_FACE_NOT_FOUND
onFaceNotFound ==
    LET c == Head(commands)
        V == m_updatesForNonBatchFaceId \ {c.update}
    IN  /\ Answered("face not found")
        /\ commands' = Tail(commands)
        /\ IF c.update.face = m_batchFaceId
           THEN UNCHANGED m_updatesForNonBatchFaceId /\ call' = Call("onFibUpdateFailure", c.batch, c.current)
           ELSE /\ m_updatesForNonBatchFaceId' = V
                /\ call' = IF V = {} THEN Call("onFibUpdateSuccess", c.batch, c.current) ELSE None
        /\ UNCHANGED <<ribVars, m_updateBatches, m_isUpdateInProgress, m_batchFaceId, m_updatesForBatchFaceId,
                       m_inheritedRoutes, up, notices, requests, history>>

\* onUpdateError with ERROR_TIMEOUT: the command or its answer is lost.  One
\* more than MAX_NUM_TIMEOUTS ends the process.
onTimeout ==
    /\ call = None
    /\ \E j \in DOMAIN commands :
        LET c == commands[j]
        IN  /\ c.nTimeouts < MAX_NUM_TIMEOUTS
            /\ commands' = Append(WithoutAt(commands, j), [c EXCEPT !.sent = "add", !.nTimeouts = @ + 1,
                                                                   !.reply = None])
            /\ retriedRemoval' = (retriedRemoval \/ c.sent = "remove")
    /\ UNCHANGED <<ribVars, m_updateBatches, m_isUpdateInProgress, updates, up, notices, call, requests,
                   strayed>>

-----------------------------------------------------------------------------
\* The end of a batch

\* The assertion of modifyInheritedRoutes, on the RIB as it is after the update
EntriesExist(b) ==
    \A x \in Pair : m_inheritedRoutes[x] # None =>
        IF b.action = "REGISTER" THEN x[1] \in Entries \cup {b.name}
        ELSE x[1] \in Entries \ ErasedEntries(b.name, b.face, b.route.origin)

onFibUpdateSuccess ==
    /\ call # None /\ call.to = "onFibUpdateSuccess"
    /\ LET b == call.batch
       IN  /\ EntriesExist(b)
           /\ IF b.action = "REGISTER"
              THEN insert(b.name, b.face, b.route) /\ modifyInheritedRoutes(m_inheritedRoutes, {})
              ELSE /\ erase(b.name, b.face, b.route.origin)
                   /\ modifyInheritedRoutes(m_inheritedRoutes, ErasedEntries(b.name, b.face, b.route.origin))
    /\ m_isUpdateInProgress' = FALSE /\ call' = SendBatch
    /\ UNCHANGED <<fib, m_updateBatches, updates, commands, up, notices, requests, history>>

\* Mutated form, used only to show that a property can fail.
FailureStaysInProgress ==
    /\ call # None /\ call.to = "onFibUpdateFailure"
    /\ call' = SendBatch /\ strayed' = (strayed \/ commands # <<>>)
    /\ UNCHANGED <<ribVars, m_updateBatches, m_isUpdateInProgress, updates, commands, up, notices, requests,
                   retriedRemoval>>

onFibUpdateFailure ==
    /\ call # None /\ call.to = "onFibUpdateFailure"
    /\ m_isUpdateInProgress' = FALSE /\ call' = SendBatch
    /\ strayed' = (strayed \/ commands # <<>>)
    /\ UNCHANGED <<ribVars, m_updateBatches, updates, commands, up, notices, requests, retriedRemoval>>

FuNext ==
    \/ \E o \in Offer, action \in {"REGISTER", "UNREGISTER"} : beginApplyUpdate(o, action)
    \/ \E f \in Face : onNotification(f) \/ DestroyFace(f)
    \/ fetchActiveFaces \/ sendBatchFromQueue
    \/ Execute \/ onUpdateSuccess \/ onFaceNotFound \/ onTimeout
    \/ onFibUpdateSuccess \/ onFibUpdateFailure

FuSpec == FuInit /\ [][FuNext]_fuVars
FuFairSpec ==
    /\ FuSpec /\ WF_fuVars(sendBatchFromQueue) /\ WF_fuVars(Execute)
    /\ WF_fuVars(onUpdateSuccess) /\ WF_fuVars(onFaceNotFound)
    /\ WF_fuVars(onFibUpdateSuccess) /\ WF_fuVars(onFibUpdateFailure)
    /\ WF_fuVars(fetchActiveFaces) /\ \A f \in Face : WF_fuVars(onNotification(f))

-----------------------------------------------------------------------------
\* Properties

Ending == call # None /\ call.to \in {"onFibUpdateSuccess", "onFibUpdateFailure"}
Aborted == call # None /\ call.to = "onFibUpdateSuccess" /\ ~EntriesExist(call.batch)
Idle == call = None /\ ~m_isUpdateInProgress /\ commands = <<>> /\ m_updateBatches = <<>>

\* The batch in progress is ended by the answers to its own commands, so that the
\* next one is not started before (computeAndSendFibUpdates: "Caller must
\* guarantee that the previous batch has either succeeded or failed").
BatchEndsItself == Ending => call.own

\* As long as no batch has failed with commands still unanswered, a batch is
\* ended by its own commands, once, and the entries that the inherited routes
\* computed with it are meant for all exist then (the assertion of
\* modifyInheritedRoutes), whatever was destroyed, timed out or asked meanwhile.
BatchEndsInOrder == ~strayed => BatchEndsItself /\ ~Aborted

\* Between batches no next hop is left in the FIB without a route in the RIB,
\* unless a failed batch has left commands behind or a timed-out removal has
\* been repeated as an addition.
FibSoundBetweenBatches == Idle /\ ~strayed /\ ~retriedRemoval => NextHopsHaveRoutes

\* The queue is emptied: no order of failures, late answers and destroyed faces
\* leaves m_isUpdateInProgress set for good.
QueueDrains == <>[](Idle \/ Aborted)

\* The routes of a destroyed face leave the RIB, also those whose registration
\* was under way when the face went and that the notification therefore missed.
DeadFacesLeaveRib == <>[](Aborted \/ \A n \in Name, f \in Face \ up : ~hasFaceId(rib[n], f))
=============================================================================
