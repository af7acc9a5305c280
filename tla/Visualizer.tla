----------------------------- MODULE Visualizer -----------------------------
(* The two threads of the ns-3 visualizer (src/src/visualizer): the GUI       *)
(* thread, which draws the network and paces the simulation with a GLib       *)
(* timer, and the SimulationThread, which runs the simulator in slices.       *)
(* They share one lock, the event go, the target time and the list of pause   *)
(* messages.  A critical section of the GUI thread contains no event          *)
(* processing, so it is one step here; the simulation thread holds the lock   *)
(* across the steps of a slice.  Simulated time is counted in sample periods  *)
(* at speed 1; what is drawn, and the samples themselves, are left out.       *)
EXTENDS Integers, Sequences, FiniteSets

CONSTANTS
  Periods,    \* the values of sample_period the speed control can give
  Script,     \* the events of the simulated program: a sequence of [at, kind]
  Horizon,    \* the view timer does not fire once time may pass this bound
  MaxTimers   \* how many GLib timeouts are created: the first one and the user's

ASSUME PeriodsAssumption == Periods \subseteq Nat \ {0} /\ 1 \in Periods
ASSUME ScriptAssumption ==
  Script \in Seq([at : Nat, kind : {"Plain", "Pause", "Stop"}])
ASSUME BoundsAssumption == Horizon \in Nat /\ MaxTimers \in Nat \ {0}

VARIABLES
  pc,          \* where the simulation thread is
  go, quit, target_time, pause_messages,       \* SimulationThread
  now, events, uid, runUntil, m_pauseMessages, \* the simulator and PyViz
  playing, sample_period, updateId, live, nextId, \* play button, speed, timer
  stack,       \* update_view_timeout calls waiting for the lock, outermost first
  gui,         \* "loop", "join" (inside _quit) or "left" (after main_quit)
  idle,        \* update_model calls posted and not yet dispatched
  history      \* what the properties remember, see VInit

simVars == <<now, events, uid, runUntil, m_pauseMessages>>
guiVars == <<playing, sample_period, updateId, live, nextId, stack, gui>>
vVars == <<pc, go, quit, target_time, pause_messages, idle, history,
           simVars, guiVars>>

(* No timer: _update_timeout_id is None.                                      *)
NoTimer == 0

(* The timer that create_gui starts: it calls _speed_changed once to set the  *)
(* speed that the control shows.                                              *)
FirstTimer == 1

(* The lock is only held across steps by the simulation thread.               *)
Locked == pc \in {"running", "extend"}

(* Visualizer.__init__, SimulationThread.__init__ and start: the thread runs, *)
(* the play button is off, the timer of create_gui is running and the         *)
(* program's events are scheduled.  history.raised lists the pause messages   *)
(* given so far, .shown the ones put in a dialog, .hurried says that the view *)
(* gave a signal before the previous one was worked off, .slowed that the     *)
(* speed was reduced and .stopped that the program's own stop ended the       *)
(* present slice.                                                             *)
VInit ==
  /\ pc = "test" /\ go = FALSE /\ quit = FALSE
  /\ target_time = 0 /\ pause_messages = <<>>
  /\ now = 0 /\ runUntil = 0 /\ m_pauseMessages = <<>>
  /\ events = {[at |-> Script[i].at, uid |-> i, kind |-> Script[i].kind] :
                 i \in DOMAIN Script}
  /\ uid = Len(Script)
  /\ playing = FALSE /\ sample_period = 1
  /\ updateId = FirstTimer /\ live = {FirstTimer} /\ nextId = FirstTimer + 1
  /\ stack = <<>> /\ gui = "loop" /\ idle = 0
  /\ history = [raised |-> <<>>, shown |-> <<>>, hurried |-> FALSE,
                slowed |-> FALSE, stopped |-> FALSE]

-----------------------------------------------------------------------------
(* SimulationThread.run, one action per shared access.                        *)

(* while not self.quit                                                        *)
Test ==
  /\ pc = "test"
  /\ pc' = IF quit THEN "ended" ELSE "wait"
  /\ UNCHANGED <<go, quit, target_time, pause_messages, idle, history>>
  /\ UNCHANGED <<simVars, guiVars>>

(* self.go.wait()                                                             *)
Wait ==
  /\ pc = "wait" /\ go
  /\ pc' = "clear"
  /\ UNCHANGED <<go, quit, target_time, pause_messages, idle, history>>
  /\ UNCHANGED <<simVars, guiVars>>

(* self.go.clear()                                                            *)
Clear ==
  /\ pc = "clear"
  /\ go' = FALSE
  /\ pc' = "check"
  /\ UNCHANGED <<quit, target_time, pause_messages, idle, history>>
  /\ UNCHANGED <<simVars, guiVars>>

(* if self.quit: break                                                        *)
CheckQuit ==
  /\ pc = "check"
  /\ pc' = IF quit THEN "ended" ELSE "acquire"
  /\ UNCHANGED <<go, quit, target_time, pause_messages, idle, history>>
  /\ UNCHANGED <<simVars, guiVars>>

(* Mutated form, used only to show that a property can fail.                  *)
RunWithoutCallback ==
  /\ pc = "acquire"
  /\ m_pauseMessages' = <<>>
  /\ history' = [history EXCEPT !.stopped = FALSE]
  /\ \/ /\ now >= target_time \/ events = {}
        /\ pc' = "extend"
        /\ UNCHANGED <<events, uid, runUntil>>
     \/ /\ now < target_time /\ events # {}
        /\ pc' = "running"
        /\ runUntil' = target_time
        /\ UNCHANGED <<events, uid>>
  /\ UNCHANGED <<now, go, quit, target_time, pause_messages, idle, guiVars>>

(* The thread takes the lock and enters PyViz::SimulatorRunUntil, which       *)
(* clears the previous slice's messages and samples, and unless the model is  *)
(* already there schedules CallbackStopSimulation for the target time.        *)
SimulatorRunUntil ==
  /\ pc = "acquire"
  /\ m_pauseMessages' = <<>>
  /\ history' = [history EXCEPT !.stopped = FALSE]
  /\ \/ /\ now >= target_time
        /\ pc' = "extend"
        /\ UNCHANGED <<events, uid, runUntil>>
     \/ /\ now < target_time
        /\ pc' = "running"
        /\ runUntil' = target_time
        /\ uid' = uid + 1
        /\ events' = events \cup
             {[at |-> target_time, uid |-> uid + 1, kind |-> "Callback"]}
  /\ UNCHANGED <<now, go, quit, target_time, pause_messages, idle, guiVars>>

(* The simulator runs events by time, then in the order of scheduling.        *)
Before(e, f) == e.at < f.at \/ (e.at = f.at /\ e.uid <= f.uid)

(* Mutated form, used only to show that a property can fail.                  *)
StopAlways(e) ==
  /\ uid' = uid + 1
  /\ events' = (events \ {e}) \cup
                 {[at |-> e.at, uid |-> uid + 1, kind |-> "Stop"]}

(* PyViz::CallbackStopSimulation: the stop itself is one more event of the    *)
(* same time; a callback left over from an earlier slice does nothing.        *)
CallbackStopSimulation(e) ==
  IF runUntil <= e.at
  THEN /\ uid' = uid + 1
       /\ events' = (events \ {e}) \cup
                      {[at |-> e.at, uid |-> uid + 1, kind |-> "Stop"]}
  ELSE events' = events \ {e} /\ UNCHANGED uid

(* DefaultSimulatorImpl::ProcessOneEvent within Run: the loop ends after a    *)
(* stop, or when no event is left.  A Pause event calls PyViz::Pause.         *)
ProcessOneEvent ==
  /\ pc = "running"
  /\ \E e \in events :
       /\ \A f \in events : Before(e, f)
       /\ now' = e.at
       /\ \/ /\ e.kind = "Callback"
             /\ CallbackStopSimulation(e)
             /\ UNCHANGED <<m_pauseMessages, history>>
          \/ /\ e.kind = "Stop"
             /\ events' = events \ {e}
             /\ history' = [history EXCEPT !.stopped = e.uid <= Len(Script)]
             /\ UNCHANGED <<uid, m_pauseMessages>>
          \/ /\ e.kind = "Pause"
             /\ events' = events \ {e}
             /\ m_pauseMessages' = Append(m_pauseMessages, e.uid)
             /\ history' = [history EXCEPT !.raised = Append(@, e.uid)]
             /\ UNCHANGED uid
          \/ /\ e.kind = "Plain"
             /\ events' = events \ {e}
             /\ UNCHANGED <<uid, m_pauseMessages, history>>
       /\ pc' = IF e.kind = "Stop" \/ events' = {} THEN "extend" ELSE "running"
  /\ UNCHANGED <<runUntil, go, quit, target_time, pause_messages, idle, guiVars>>

(* Mutated form, used only to show that a property can fail.                  *)
ReplaceMessages ==
  /\ pc = "extend"
  /\ pause_messages' = m_pauseMessages
  /\ idle' = idle + 1
  /\ pc' = "test"
  /\ UNCHANGED <<go, quit, target_time, history, simVars, guiVars>>

(* pause_messages.extend, GLib.idle_add(update_model), lock.release           *)
Extend ==
  /\ pc = "extend"
  /\ pause_messages' = pause_messages \o m_pauseMessages
  /\ idle' = idle + 1
  /\ pc' = "test"
  /\ UNCHANGED <<go, quit, target_time, history, simVars, guiVars>>

-----------------------------------------------------------------------------
(* The GUI thread.  It dispatches callbacks in Gtk.main, and in the loop of   *)
(* an update_view_timeout call that waits for the lock, also after main_quit. *)
Dispatching == gui = "loop" \/ (gui = "left" /\ stack # <<>>)

(* Visualizer.update_model: the samples are read under the lock.              *)
update_model ==
  /\ Dispatching /\ ~Locked
  /\ idle > 0
  /\ idle' = idle - 1
  /\ UNCHANGED <<pc, go, quit, target_time, pause_messages, history>>
  /\ UNCHANGED <<simVars, guiVars>>

(* The signal given last is not worked off: it is pending, taken but not yet  *)
(* followed by a slice, or the slice's update_model is still to come.         *)
Behind == go \/ pc \in {"clear", "check", "acquire"} \/ idle > 0

(* Visualizer.update_view_timeout of timer k once it has the lock: it takes   *)
(* the pause messages, draws, and sets the next target.  Messages turn the    *)
(* play button off, whose handler removes the current timer.  When paused the *)
(* timer ends by returning False, else the simulation thread gets its signal. *)
UpdateView(k) ==
  LET active == playing /\ pause_messages = <<>>
      stops  == playing /\ ~active
  IN  /\ ~Locked
      /\ history' = [history EXCEPT !.shown = @ \o pause_messages,
                                    !.hurried = @ \/ Behind]
      /\ pause_messages' = <<>>
      /\ target_time' = now + sample_period
      /\ playing' = active
      /\ updateId' = IF active THEN updateId ELSE NoTimer
      /\ live' = live \ ((IF stops THEN {updateId} ELSE {})
                           \cup (IF active THEN {} ELSE {k}))
      /\ go' = (go \/ active)
      /\ UNCHANGED <<pc, quit, idle, sample_period, nextId, gui, simVars>>

(* The bound on simulated time is reached.                                    *)
AtHorizon == \E p \in Periods : now + p > Horizon

(* Timer k fires.  When the simulation thread has the lock, the call stays on *)
(* the stack and runs the GTK event loop; GLib does not dispatch a source     *)
(* again while its callback is on the stack.                                  *)
update_view_timeout(k) ==
  /\ Dispatching /\ ~AtHorizon
  /\ k \in live /\ \A i \in DOMAIN stack : stack[i] # k
  /\ \/ UpdateView(k) /\ UNCHANGED stack
     \/ /\ Locked
        /\ stack' = Append(stack, k)
        /\ UNCHANGED <<pc, go, quit, target_time, pause_messages, idle, history>>
        /\ UNCHANGED <<simVars, playing, sample_period, updateId, live, nextId, gui>>

(* The innermost waiting call gets the lock at last.                          *)
AcquireAfterWaiting ==
  /\ gui \in {"loop", "left"} /\ stack # <<>>
  /\ UpdateView(stack[Len(stack)])
  /\ stack' = SubSeq(stack, 1, Len(stack) - 1)

(* Mutated form, used only to show that a property can fail.                  *)
KeepRunningTimer ==
  /\ live' = IF updateId # NoTimer THEN live ELSE live \cup {nextId}
  /\ updateId' = nextId
  /\ nextId' = nextId + 1

(* Visualizer._start_update_timer: the old timer, if any, is removed.         *)
_start_update_timer ==
  /\ nextId <= MaxTimers
  /\ live' = (live \ {updateId}) \cup {nextId}
  /\ updateId' = nextId
  /\ nextId' = nextId + 1

(* The play button: on starts a timer, off removes it and keeps its id.       *)
_on_play_button_toggled ==
  /\ Dispatching /\ ~quit
  /\ playing' = ~playing
  /\ \/ playing' /\ _start_update_timer
     \/ ~playing' /\ live' = live \ {updateId} /\ UNCHANGED <<updateId, nextId>>
  /\ UNCHANGED <<pc, go, quit, target_time, pause_messages, idle, history>>
  /\ UNCHANGED <<simVars, sample_period, stack, gui>>

(* The speed control: a timer is started even when paused.                    *)
_speed_changed ==
  /\ Dispatching /\ ~quit
  /\ sample_period' \in Periods \ {sample_period}
  /\ _start_update_timer
  /\ history' = [history EXCEPT !.slowed = @ \/ sample_period' < sample_period]
  /\ UNCHANGED <<pc, go, quit, target_time, pause_messages, idle>>
  /\ UNCHANGED <<simVars, playing, stack, gui>>

(* Mutated form, used only to show that a property can fail.                  *)
QuitWithoutGo ==
  /\ Dispatching /\ ~quit
  /\ live' = live \ {updateId} /\ updateId' = NoTimer
  /\ quit' = TRUE
  /\ gui' = "join"
  /\ UNCHANGED <<pc, go, target_time, pause_messages, idle, history>>
  /\ UNCHANGED <<simVars, playing, sample_period, nextId, stack>>

(* Visualizer._quit up to simulation.join()                                   *)
_quit ==
  /\ Dispatching /\ ~quit
  /\ live' = live \ {updateId} /\ updateId' = NoTimer
  /\ quit' = TRUE /\ go' = TRUE
  /\ gui' = "join"
  /\ UNCHANGED <<pc, target_time, pause_messages, idle, history>>
  /\ UNCHANGED <<simVars, playing, sample_period, nextId, stack>>

(* The join returns and Gtk.main_quit is called.                              *)
Joined ==
  /\ gui = "join" /\ pc = "ended"
  /\ gui' = "left"
  /\ UNCHANGED <<pc, go, quit, target_time, pause_messages, idle, history>>
  /\ UNCHANGED <<simVars, playing, sample_period, updateId, live, nextId, stack>>

-----------------------------------------------------------------------------
SimStep ==
  \/ Test \/ Wait \/ Clear \/ CheckQuit
  \/ SimulatorRunUntil \/ ProcessOneEvent \/ Extend

Timers == 1 .. MaxTimers

VNext ==
  \/ SimStep
  \/ update_model
  \/ \E k \in Timers : update_view_timeout(k)
  \/ AcquireAfterWaiting
  \/ _on_play_button_toggled \/ _speed_changed
  \/ _quit \/ Joined

VSpec == VInit /\ [][VNext]_vVars

(* The operating system runs both threads, a GLib timeout that is due is      *)
(* dispatched, and a call that polls the lock gets it when it stays free.     *)
(* The user need not do anything.                                             *)
VFairSpec ==
  /\ VSpec
  /\ WF_vVars(SimStep)
  /\ WF_vVars(update_model)
  /\ \A k \in Timers : WF_vVars(update_view_timeout(k))
  /\ WF_vVars(AcquireAfterWaiting)
  /\ WF_vVars(Joined)

-----------------------------------------------------------------------------
(* The model never runs past the target the view set when it was last drawn,  *)
(* whatever the user does with speed and play while a slice runs: the         *)
(* callback scheduled by SimulatorRunUntil stops it in time.                  *)
NotAheadOfView == now <= target_time

(* Every pause message the simulated program raises is in exactly one place   *)
(* and in order: shown in a dialog, waiting in the thread's list, or in the   *)
(* list of the slice that is running.  None is lost to SimulatorRunUntil's    *)
(* clear and none is shown twice.                                             *)
PausesKept ==
  history.shown \o pause_messages
    \o (IF Locked THEN m_pauseMessages ELSE <<>>) = history.raised

(* The simulated program stops itself at most once at any one time, and not   *)
(* before anything ran.                                                       *)
StopsApart ==
  \A i \in DOMAIN Script : Script[i].kind = "Stop" =>
    /\ Script[i].at > 0
    /\ \A j \in DOMAIN Script :
         Script[j].kind = "Stop" /\ Script[j].at = Script[i].at => i = j

(* A slice ends short of its target only because the simulated program        *)
(* called Simulator::Stop, also when callbacks of earlier, interrupted slices *)
(* are still scheduled.  Two callbacks at one time leave a stop over for the  *)
(* next slice; only a reduced speed, a hasty view, or two stops of the        *)
(* program with no time between them can bring that about.                    *)
SliceReachesTarget ==
  StopsApart /\ pc = "extend"
      /\ ~history.slowed /\ ~history.hurried /\ ~history.stopped
    => now >= target_time

(* While the play button is on the view has a live timer, and it is the one   *)
(* _update_timeout_id names: no order of toggling, speed changes, pauses and  *)
(* calls nested in a waiting update_view_timeout leaves the display frozen.   *)
PlayingHasTimer == playing /\ ~quit => updateId \in live

(* Closing the window ends the program: the simulation thread is joined and   *)
(* every update_view_timeout call on the stack returns.                       *)
QuitEnds == quit ~> (gui = "left" /\ stack = <<>>)
=============================================================================
