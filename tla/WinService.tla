------------------------------- MODULE WinService -------------------------------
(***************************************************************************)
(* The service on Windows (qtservice_win.cpp).  Three threads of the process *)
(* work together: the main thread (QtServiceBasePrivate::start and the event *)
(* loop), the dispatcher (HandlerThread, on which Windows calls handler())   *)
(* and the thread on which Windows calls serviceMain().  Two semaphores order *)
(* the start; then handler() posts an event to the main thread and waits on  *)
(* a condition until handleCustomEvent() has run the operation.              *)
(*                                                                           *)
(* No thread blocks while it holds the mutex, except in condition.wait, which *)
(* gives it up: each critical section is one action.  The reports outside it *)
(* are three: a look at the record, a copy of it, and its delivery.  The     *)
(* service control manager (SCM) is external: it hands one control at a time *)
(* to the dispatcher, and only those the last reported status admits.        *)
(***************************************************************************)
EXTENDS Naturals, Sequences

CONSTANTS
  Controllers,   \* calls of stop(), pause(), resume(), sendCommand()
  NoController,  \* the SCM itself
  Flags,         \* the service's ServiceFlags
  MaxPolls       \* how often stop() looks for the end of the service

ASSUME WinAssumption ==
  /\ NoController \notin Controllers
  /\ Flags \subseteq {"CanBeSuspended", "CannotBeStopped", "NeedsStopOnShutdown"}
  /\ MaxPolls \in Nat

VARIABLES
  process,       \* "up", or how the process ended
  main,          \* where the main thread is
  running,       \* the event whose operation it runs
  quit,          \* QCoreApplication::quit() was called
  queue,         \* events posted to the controller handler
  handlerObject, \* controllerHandler exists
  sysd,          \* the QtServiceSysPrivate exists
  sem1, sem2,    \* startSemaphore, startSemaphore2
  place,         \* where the dispatcher and the thread of serviceMain are
  control,       \* the control the dispatcher handles
  status,        \* status.dwCurrentState
  reported,      \* the state the SCM knows of
  carried,       \* what each thread has read of the record and not delivered yet
  shutdown,      \* the system shuts down
  cpc, cmd, ret, \* the controllers: place, command, returned value
  polls,         \* how often each has looked for the end of the service
  last,          \* history: the last operation of the service that has ended
  done,          \* history: the threads whose last posted event has been handled
  late,          \* history: the main thread did not wait for the dispatcher's end
  overtaken      \* history: serviceMain delivered a state the record had left

objectVars == <<handlerObject, sysd, late>>
mainVars == <<main, running, quit, objectVars>>
semVars == <<sem1, sem2>>
recordVars == <<status, reported>>
stateVars == <<recordVars, carried, overtaken>>
scmVars == <<control, shutdown>>
clientVars == <<cpc, cmd, ret, polls>>
historyVars == <<last, done>>
vars == <<process, mainVars, queue, semVars, place, stateVars, scmVars, clientVars, historyVars>>

Threads == {"dispatcher", "serviceMain"}
Reporters == Threads \cup {"main"}

Codes == {"startup", "stop", "pause", "continue", "interrogate", "shutdown", "user"}
Requests == {"stop", "pause", "continue", "user"}
NoEvent == [code |-> "none", by |-> "main"]
Events == [code : Codes, by : Threads]

States == {"stopped", "start_pending", "running", "pause_pending", "paused",
           "continue_pending", "stop_pending"}

\* One type invariant: every variable is in its range.
TypeOK ==
  /\ process \in {"up", "exited", "failed", "crashed", "dangling"}
  /\ main \in {"acquire", "create", "loop", "event", "notify", "stopped", "tell", "send",
               "join", "over"}
  /\ running \in Events \cup {NoEvent}
  /\ {quit, handlerObject, sysd, shutdown, late, overtaken} \subseteq BOOLEAN
  /\ queue \in Seq(Events)
  /\ sem1 \in {0, 1}
  /\ sem2 \in {0, 1}
  /\ place \in [Threads -> {"off", "connect", "idle", "acquire", "enter", "wait", "relock",
                            "report", "read", "send", "ended", "refused"}]
  /\ control \in [code : Codes, from : Controllers \cup {NoController}]
  /\ status \in States
  /\ reported \in States
  /\ carried \in [Reporters -> States \cup {"none"}]
  /\ cpc \in [Controllers -> {"idle", "asking", "sent", "answered", "closed"}]
  /\ cmd \in [Controllers -> Requests \cup {"none"}]
  /\ ret \in [Controllers -> {"none", "true", "false"}]
  /\ polls \in [Controllers -> 0..MaxPolls]
  /\ last \in {"none", "startup", "stop", "pause", "continue"}
  /\ done \subseteq Threads

\* start(): sysInit() has been called and the HandlerThread been started.
Init ==
  /\ process = "up"
  /\ main = "acquire"
  /\ running = NoEvent
  /\ quit = FALSE
  /\ queue = <<>>
  /\ handlerObject = FALSE
  /\ sysd = TRUE
  /\ sem1 = 0
  /\ sem2 = 0
  /\ place = [t \in Threads |-> IF t = "dispatcher" THEN "connect" ELSE "off"]
  /\ control = [code |-> "interrogate", from |-> NoController]
  /\ status = "stopped"
  /\ reported \in {"start_pending", "stopped"}   \* started by the SCM, or from a console
  /\ carried = [t \in Reporters |-> "none"]
  /\ overtaken = FALSE
  /\ shutdown = FALSE
  /\ cpc = [c \in Controllers |-> "idle"]
  /\ cmd = [c \in Controllers |-> "none"]
  /\ ret = [c \in Controllers |-> "none"]
  /\ polls = [c \in Controllers |-> 0]
  /\ last = "none"
  /\ done = {}
  /\ late = FALSE

-----------------------------------------------------------------------------
(* The state the SCM is told and what it makes of it.                        *)

\* SetServiceStatus: the SCM takes no more news of a service that has stopped.
Told(state) == IF reported = "stopped" THEN reported ELSE state

\* QueryServiceStatus: a process that is gone has stopped.
Seen == IF process = "up" THEN reported ELSE "stopped"

\* serviceFlags(): what dwControlsAccepted says.
Accepted(code) ==
  CASE code \in {"pause", "continue"} -> "CanBeSuspended" \in Flags
    [] code = "stop" -> "CannotBeStopped" \notin Flags
    [] code = "shutdown" -> "NeedsStopOnShutdown" \in Flags
    [] OTHER -> TRUE

\* The SCM hands out a control only to a service that is neither starting nor
\* stopping, and none but the shutdown when the system shuts down.
Admits(code) ==
  /\ Seen \notin {"stopped", "start_pending", "stop_pending"}
  /\ ~shutdown
  /\ Accepted(code)

-----------------------------------------------------------------------------
(* The main thread: QtServiceBasePrivate::start.                             *)

\* The main thread goes from one place to another; the SCM is not concerned.
MainGoes(from, to) ==
  /\ process = "up"
  /\ main = from
  /\ main' = to
  /\ UNCHANGED <<process, scmVars, clientVars>>

\* The process is gone, and with it all its threads.
ProcessEnds(how) ==
  /\ process = "up"
  /\ process' = how
  /\ UNCHANGED <<mainVars, queue, semVars, place, stateVars, scmVars, clientVars, historyVars>>

\* tryAcquire(1, 20000) succeeds.  A dispatcher that was refused has released the
\* semaphore as well; start() then asks the SCM to start another process, or fails.
Acquired ==
  /\ MainGoes("acquire", IF place["dispatcher"] = "refused" THEN "over" ELSE "create")
  /\ sem1 = 1
  /\ sem1' = 0
  /\ UNCHANGED <<running, quit, queue, objectVars, sem2, place, stateVars, historyVars>>

AcquireTimesOut ==
  /\ MainGoes("acquire", "over")
  /\ sem1 = 0
  /\ UNCHANGED <<running, quit, queue, objectVars, semVars, place, stateVars, historyVars>>

\* The application and the controller handler exist; serviceMain may continue.
CreateApplication ==
  /\ MainGoes("create", "loop")
  /\ handlerObject' = TRUE
  /\ sem2' = 1
  /\ UNCHANGED <<running, quit, queue, sysd, late, sem1, place, stateVars, historyVars>>

\* Wrong: the waiters are woken before the operation runs.
TakeEventWakes ==
  /\ MainGoes("loop", "event")
  /\ queue # <<>>
  /\ running' = Head(queue)
  /\ queue' = Tail(queue)
  /\ place' = [t \in Threads |-> IF place[t] = "wait" THEN "relock" ELSE place[t]]
  /\ UNCHANGED <<quit, objectVars, semVars, stateVars, historyVars>>

\* customEvent(): the event loop takes the next event, also after quit() if it was
\* posted in time for the same pass.
TakeEvent ==
  /\ MainGoes("loop", "event")
  /\ queue # <<>>
  /\ running' = Head(queue)
  /\ queue' = Tail(queue)
  /\ UNCHANGED <<quit, objectVars, semVars, place, stateVars, historyVars>>

\* Wrong: nobody asks the event loop to end.
OperateNoQuit ==
  /\ MainGoes("event", "notify")
  /\ last' = IF running.code = "user" THEN last ELSE running.code
  /\ done' = done \cup {running.by}
  /\ UNCHANGED <<running, quit, queue, objectVars, semVars, place, stateVars>>

\* handleCustomEvent(): the operation has returned; stop() is followed by quit().
Operate ==
  /\ MainGoes("event", "notify")
  /\ last' = IF running.code = "user" THEN last ELSE running.code
  /\ done' = done \cup {running.by}
  /\ quit' = (quit \/ running.code = "stop")
  /\ UNCHANGED <<running, queue, objectVars, semVars, place, stateVars>>

\* start() of the service leaves with exit().
OperationExits ==
  /\ main = "event"
  /\ running.code = "startup"
  /\ ProcessEnds("failed")

\* Wrong: the condition is signalled after the start-up only.
NotifyStartOnly ==
  /\ MainGoes("notify", "loop")
  /\ running' = NoEvent
  /\ place' = [place EXCEPT !["serviceMain"] = IF @ = "wait" THEN "relock" ELSE @]
  /\ UNCHANGED <<quit, queue, objectVars, semVars, stateVars, historyVars>>

\* wakeAll() under the mutex: whoever waits goes on to take the mutex again.
Notify ==
  /\ MainGoes("notify", "loop")
  /\ running' = NoEvent
  /\ place' = [t \in Threads |-> IF place[t] = "wait" THEN "relock" ELSE place[t]]
  /\ UNCHANGED <<quit, queue, objectVars, semVars, stateVars, historyVars>>

\* exec() has returned.
LoopEnd ==
  /\ MainGoes("loop", "stopped")
  /\ quit
  /\ UNCHANGED <<running, quit, queue, objectVars, semVars, place, stateVars, historyVars>>

\* setStatus(SERVICE_STOPPED) without the mutex: the record is written, read for the
\* call, and delivered.
SetStopped ==
  /\ MainGoes("stopped", "tell")
  /\ status' = "stopped"
  /\ UNCHANGED <<running, quit, queue, objectVars, semVars, place, reported, carried,
                 overtaken, historyVars>>

\* Thread t copies the record for SetServiceStatus ...
Reads(t) ==
  /\ carried' = [carried EXCEPT ![t] = status]
  /\ UNCHANGED <<recordVars, overtaken>>

\* ... and the copy arrives.
Delivers(t) ==
  /\ reported' = Told(carried[t])
  /\ carried' = [carried EXCEPT ![t] = "none"]
  /\ overtaken' = (overtaken \/ (t = "serviceMain" /\ carried[t] # status))

ReadStopped ==
  /\ MainGoes("tell", "send")
  /\ Reads("main")
  /\ UNCHANGED <<running, quit, queue, objectVars, semVars, place, historyVars>>

TellStopped ==
  /\ MainGoes("send", "join")
  /\ Delivers("main")
  /\ UNCHANGED <<running, quit, queue, objectVars, semVars, place, status, historyVars>>

\* The dispatcher has ended or wait(1000) is over; then the controller handler goes
\* with its events, the application, and sysCleanup() deletes the rest.
Join ==
  /\ MainGoes("join", "over")
  /\ late' = (place["dispatcher"] # "ended")
  /\ handlerObject' = FALSE
  /\ queue' = <<>>
  /\ sysd' = FALSE
  /\ UNCHANGED <<running, quit, semVars, place, stateVars, historyVars>>

\* exec() and main() return, which ends the process and its threads.
MainReturns ==
  /\ main = "over"
  /\ ProcessEnds("exited")

Main ==
  \/ Acquired
  \/ AcquireTimesOut
  \/ CreateApplication
  \/ TakeEvent
  \/ Operate
  \/ OperationExits
  \/ Notify
  \/ LoopEnd
  \/ SetStopped
  \/ ReadStopped
  \/ TellStopped
  \/ Join
  \/ MainReturns

\* A thread of the service may take the process with it.
SensorCrash ==
  /\ last # "none"
  /\ ProcessEnds("crashed")

-----------------------------------------------------------------------------
(* The dispatcher and the thread of serviceMain.                             *)

\* Thread t goes from one place to another; the main thread stays where it is.
Goes(t, from, to) ==
  /\ process = "up"
  /\ place[t] = from
  /\ place' = [place EXCEPT ![t] = to]
  /\ UNCHANGED <<process, mainVars, cmd, ret, polls, last>>

\* StartServiceCtrlDispatcher blocks if the SCM started this process ...
Connect ==
  /\ reported = "start_pending"
  /\ Goes("dispatcher", "connect", "idle")
  /\ UNCHANGED <<queue, semVars, stateVars, scmVars, cpc, done>>

\* ... and fails if not, or for another reason; then start() must not be left waiting.
ConnectFails ==
  /\ Goes("dispatcher", "connect", "refused")
  /\ sem1' = 1
  /\ UNCHANGED <<queue, sem2, stateVars, scmVars, cpc, done>>

\* Windows calls serviceMain(): the arguments are there, start() may go on.
ServiceMain ==
  /\ place["dispatcher"] = "idle"
  /\ Goes("serviceMain", "off", "acquire")
  /\ sem1' = 1
  /\ UNCHANGED <<queue, sem2, stateVars, scmVars, cpc, done>>

\* startSemaphore2.acquire(), then handler(QTSERVICE_STARTUP).
Register ==
  /\ sem2 = 1
  /\ Goes("serviceMain", "acquire", "enter")
  /\ sem2' = 0
  /\ UNCHANGED <<queue, sem1, stateVars, scmVars, cpc, done>>

\* The code handler() was called with.
Code(t) == IF t = "serviceMain" THEN "startup" ELSE control.code

\* Wrong: a stop is not announced.
PendingStateNoStop(code) ==
  CASE code = "startup" -> "start_pending"
    [] code = "pause" -> "pause_pending"
    [] code = "continue" -> "continue_pending"
    [] OTHER -> status

\* The state handler() reports before it posts the event, and when it is woken; the
\* others report none.
PendingState(code) ==
  CASE code = "startup" -> "start_pending"
    [] code = "stop" -> "stop_pending"
    [] code = "pause" -> "pause_pending"
    [] code = "continue" -> "continue_pending"
    [] OTHER -> status

FinalState(code) ==
  CASE code \in {"startup", "continue"} -> "running"
    [] code = "pause" -> "paused"
    [] OTHER -> status

\* setStatus() under the mutex: the record and the SCM.  What another thread delivers
\* between the two was read before, or is the new state.
SetStatus(state) ==
  /\ status' = state
  /\ reported' = IF state = status THEN reported ELSE Told(state)
  /\ UNCHANGED <<carried, overtaken>>

\* Wrong: the pending state is not reported.
HandlerPostsSilently(t) ==
  /\ Code(t) # "interrogate"
  /\ Goes(t, "enter", "wait")
  /\ queue' = Append(queue, [code |-> IF Code(t) = "shutdown" THEN "stop" ELSE Code(t),
                             by |-> t])
  /\ done' = done \ {t}
  /\ UNCHANGED <<semVars, stateVars, scmVars, cpc>>

\* handler() takes the mutex, posts the event and waits for the main thread.
HandlerPosts(t) ==
  /\ Code(t) # "interrogate"
  /\ Goes(t, "enter", "wait")
  /\ SetStatus(PendingState(Code(t)))
  /\ queue' = Append(queue, [code |-> IF Code(t) = "shutdown" THEN "stop" ELSE Code(t),
                             by |-> t])
  /\ done' = done \ {t}
  /\ UNCHANGED <<semVars, scmVars, cpc>>

HandlerInterrogates(t) ==
  /\ Code(t) = "interrogate"
  /\ Goes(t, "enter", "report")
  /\ UNCHANGED <<queue, semVars, stateVars, scmVars, cpc, done>>

\* condition.wait() has the mutex back: the final state, then unlock.
HandlerWoken(t) ==
  /\ Goes(t, "relock", "report")
  /\ SetStatus(FinalState(Code(t)))
  /\ UNCHANGED <<queue, semVars, scmVars, cpc, done>>

\* "Report current status", without the mutex: first the look at it, ...
HandlerLooks(t) ==
  /\ status # "stopped"
  /\ Goes(t, "report", "read")
  /\ UNCHANGED <<queue, semVars, stateVars, scmVars, cpc, done>>

\* ... then the copy for the call, of what the record says by then, ...
HandlerReads(t) ==
  /\ Goes(t, "read", "send")
  /\ Reads(t)
  /\ UNCHANGED <<queue, semVars, scmVars, cpc, done>>

\* handler() returns: serviceMain ends, or the SCM answers the control.
HandlerReturns(t, from) ==
  /\ Goes(t, from, IF t = "dispatcher" THEN "idle" ELSE "ended")
  /\ cpc' = [c \in Controllers |->
               IF t = "dispatcher" /\ c = control.from THEN "answered" ELSE cpc[c]]
  /\ control' = IF t = "dispatcher" THEN [code |-> "interrogate", from |-> NoController]
                                    ELSE control
  /\ UNCHANGED <<queue, semVars, status, shutdown, done>>

\* Wrong: the state announced before the operation arrives once more.
HandlerReportsPending(t) ==
  /\ HandlerReturns(t, "send")
  /\ reported' = Told(PendingState(Code(t)))
  /\ carried' = [carried EXCEPT ![t] = "none"]
  /\ UNCHANGED overtaken

\* ... and its arrival, whatever has been reported in between.
HandlerReports(t) ==
  /\ HandlerReturns(t, "send")
  /\ Delivers(t)

HandlerSkipsReport(t) ==
  /\ status = "stopped"
  /\ HandlerReturns(t, "report")
  /\ UNCHANGED <<reported, carried, overtaken>>

\* Every service of the process has stopped: StartServiceCtrlDispatcher returns.
DispatcherReturns ==
  /\ reported = "stopped"
  /\ Goes("dispatcher", "idle", "ended")
  /\ UNCHANGED <<queue, semVars, stateVars, scmVars, cpc, done>>

Handler(t) ==
  \/ HandlerPosts(t)
  \/ HandlerInterrogates(t)
  \/ HandlerWoken(t)
  \/ HandlerLooks(t)
  \/ HandlerReads(t)
  \/ HandlerReports(t)
  \/ HandlerSkipsReport(t)

Thread(t) ==
  \/ Handler(t)
  \/ t = "dispatcher" /\ (Connect \/ ConnectFails \/ DispatcherReturns)
  \/ t = "serviceMain" /\ (ServiceMain \/ Register)

\* handler() is still in its last steps when the QtServiceSysPrivate is deleted; its
\* static pointer is not reset, and the memory may be gone.
HandlerDangles(t) ==
  /\ ~sysd
  /\ place[t] \in {"enter", "relock", "report", "read"}
  /\ ProcessEnds("dangling")

-----------------------------------------------------------------------------
(* The SCM and the controllers.                                              *)

\* The SCM hands the dispatcher a control of its own.
ScmControl(code) ==
  /\ Goes("dispatcher", "idle", "enter")
  /\ control' = [code |-> code, from |-> NoController]
  /\ UNCHANGED <<queue, semVars, stateVars, cpc, done>>

Interrogate ==
  /\ Admits("interrogate")
  /\ ScmControl("interrogate")
  /\ UNCHANGED shutdown

SystemShutdown ==
  /\ Admits("shutdown")
  /\ ScmControl("shutdown")
  /\ shutdown' = TRUE

ServerUnchanged ==
  UNCHANGED <<process, mainVars, queue, semVars, stateVars, shutdown, historyVars>>

\* A controller function calls ControlService.
Ask(c, code) ==
  /\ cpc[c] = "idle"
  /\ cpc' = [cpc EXCEPT ![c] = "asking"]
  /\ cmd' = [cmd EXCEPT ![c] = code]
  /\ ServerUnchanged
  /\ UNCHANGED <<place, control, ret, polls>>

Deliver(c) ==
  /\ cpc[c] = "asking"
  /\ Admits(cmd[c])
  /\ Goes("dispatcher", "idle", "enter")
  /\ control' = [code |-> cmd[c], from |-> c]
  /\ cpc' = [cpc EXCEPT ![c] = "sent"]
  /\ ServerUnchanged

\* The controller function returns, and its local variables are gone.
Returns(c, value) ==
  /\ ret' = [ret EXCEPT ![c] = value]
  /\ cpc' = [cpc EXCEPT ![c] = "closed"]
  /\ cmd' = [cmd EXCEPT ![c] = "none"]
  /\ polls' = [polls EXCEPT ![c] = 0]
  /\ ServerUnchanged
  /\ UNCHANGED <<place, control>>

\* The SCM or the service cannot be opened, or ControlService fails: the service does
\* not take the control now, or has died.
ControlFails(c) ==
  /\ cpc[c] = "asking" \/ (cpc[c] = "sent" /\ process # "up")
  /\ Returns(c, "false")

\* ControlService succeeds: pause(), resume() and sendCommand() are content with it.
ControlSucceeds(c) ==
  /\ cpc[c] = "answered"
  /\ cmd[c] # "stop"
  /\ Returns(c, "true")

\* stop() looks whether the service has stopped, and again after Sleep(200).
StopSeen(c) ==
  /\ cpc[c] = "answered"
  /\ cmd[c] = "stop"
  /\ Seen = "stopped"
  /\ Returns(c, "true")

\* Wrong: one look too many.
StopNotYetOnceMore(c) ==
  /\ cpc[c] = "answered"
  /\ cmd[c] = "stop"
  /\ Seen # "stopped"
  /\ polls[c] <= MaxPolls
  /\ polls' = [polls EXCEPT ![c] = @ + 1]
  /\ ServerUnchanged
  /\ UNCHANGED <<place, control, cpc, cmd, ret>>

StopNotYet(c) ==
  /\ cpc[c] = "answered"
  /\ cmd[c] = "stop"
  /\ Seen # "stopped"
  /\ polls[c] < MaxPolls
  /\ polls' = [polls EXCEPT ![c] = @ + 1]
  /\ ServerUnchanged
  /\ UNCHANGED <<place, control, cpc, cmd, ret>>

\* The last look, or QueryServiceStatus fails.
StopGivesUp(c) ==
  /\ cpc[c] = "answered"
  /\ cmd[c] = "stop"
  /\ polls[c] > 0 \/ (Seen # "stopped" /\ polls[c] = MaxPolls)
  /\ Returns(c, "false")

Controller(c) ==
  \/ Deliver(c)
  \/ ControlFails(c)
  \/ ControlSucceeds(c)
  \/ StopSeen(c)
  \/ StopNotYet(c)
  \/ StopGivesUp(c)

-----------------------------------------------------------------------------
\* Nothing is left to do, or the service runs and nobody asks for anything.
Over ==
  /\ \A c \in Controllers : cpc[c] = "closed"
  /\ process # "up" \/ (main = "loop" /\ queue = <<>> /\ ~quit)
  /\ UNCHANGED vars

Next ==
  \/ Main
  \/ SensorCrash
  \/ \E t \in Threads : Thread(t) \/ HandlerDangles(t)
  \/ Interrogate
  \/ SystemShutdown
  \/ \E c \in Controllers : Controller(c) \/ \E code \in Requests : Ask(c, code)
  \/ Over

Spec == Init /\ [][Next]_vars

\* The threads of the process are scheduled, a control the SCM has taken on is handed
\* out, and a controller goes on.  Nobody has to call a controller function.
Fairness ==
  /\ WF_vars(Main)
  /\ \A t \in Threads : WF_vars(Thread(t))
  /\ \A c \in Controllers : SF_vars(Deliver(c)) /\ WF_vars(Controller(c))

FairSpec == Spec /\ Fairness

-----------------------------------------------------------------------------
(* Properties.                                                               *)

\* handler() goes on only when its own event has been handled, not when somebody
\* else's has: wakeAll wakes whoever waits (qtservice_win.cpp:557-586, 588-645).
OwnCompletion ==
  \A t \in Threads :
    (place[t] \in {"relock", "report", "read", "send"} /\ Code(t) # "interrogate") => t \in done

\* Unless the system shuts down (a shutdown is not announced) and until the report of
\* the start-up has been overtaken by a control, the state the SCM shows is the one the
\* last operation left the sensor in: none is under way, and "paused" follows a pause
\* (qtservice_win.cpp:588-662).
StatusTruth ==
  (process = "up" /\ ~shutdown /\ ~overtaken) =>
    /\ reported = "running" => /\ last \in {"startup", "continue"}
                               /\ running.code \in {"none", "user"}
    /\ reported = "paused" => /\ last = "pause"
                              /\ running.code \in {"none", "user"}

\* Until the report of the start-up has been overtaken, no event is posted to a handler
\* that is no more, and nobody waits for an event the main thread can no longer handle.
NobodyLeftWaiting ==
  ~overtaken =>
    /\ queue # <<>> => handlerObject
    /\ main \in {"stopped", "tell", "send", "join", "over"} =>
         \A t \in Threads : place[t] # "wait"

\* A handler meets deleted memory only if the main thread gave up its wait for the
\* dispatcher, or on the thread of serviceMain, which it does not wait for.
DanglingNeedsLateThread ==
  process = "dangling" => late \/ place["serviceMain"] \in {"report", "read"}

\* What is left behind when the event loop has ended (qtservice_win.cpp:843-855).
NothingLeftBehind == NobodyLeftWaiting /\ DanglingNeedsLateThread

\* Until the report of the start-up has been overtaken the SCM sees a pending state only
\* between two operations, sees it end in its own final state, and never sees a service
\* that stops go on, although the dispatcher and the main thread report what they read
\* earlier without the mutex (qtservice_win.cpp:593-670, 841-844).
LegalStatus ==
  [][\/ overtaken'
     \/ reported' = "stopped"
     \/ reported \in {"running", "paused"}
        /\ reported' \in {"pause_pending", "continue_pending", "stop_pending"}
     \/ <<reported, reported'>> \in
          {<<"start_pending", "running">>, <<"pause_pending", "paused">>,
           <<"continue_pending", "running">>}]_reported

\* Every controller function returns.
ControllersReturn ==
  \A c \in Controllers : cpc[c] = "asking" ~> cpc[c] = "closed"

\* A service the SCM has started is reported as running, or its process ends.
ServiceStarts == reported = "start_pending" ~> (reported # "start_pending" \/ process # "up")

\* After stop() of the service the event loop ends, and the SCM sees the service stopped.
ServiceStops == last = "stop" ~> Seen = "stopped"

\* The ends of a start and of a stop (qtservice_win.cpp:588-645, 841-848).
StartsAndStops == ServiceStarts /\ ServiceStops
=============================================================================
