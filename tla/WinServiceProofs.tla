--------------------------- MODULE WinServiceProofs ---------------------------
(***************************************************************************)
(* Proofs about WinService, for any number of controllers, any flags and any *)
(* patience of stop().  At most one event is under way at a time: that of    *)
(* serviceMain first, then one of the dispatcher after the other.  What the   *)
(* main thread does and what the SCM knows follows from whose it is.          *)
(***************************************************************************)
EXTENDS WinService, SequenceTheorems, TLAPS

Startup == [code |-> "startup", by |-> "serviceMain"]

\* The event that the control at hand posts.
Event == [code |-> IF control.code = "shutdown" THEN "stop" ELSE control.code,
          by |-> "dispatcher"]

NoneInFlight == queue = <<>> /\ running = NoEvent /\ main \notin {"event", "notify"}

\* Event e is posted, or its operation runs, or has run.
InFlight(e) ==
  \/ main = "loop" /\ queue = <<e>> /\ running = NoEvent /\ ~quit
  \/ main = "event" /\ queue = <<>> /\ running = e /\ ~quit
  \/ /\ main = "notify" /\ queue = <<>> /\ running = e
     /\ e.by \in done
     /\ quit <=> e.code = "stop"
     /\ e.code # "user" => last = e.code

\* Before serviceMain() has posted the start-up, nobody has posted anything.
EarlyInv ==
  /\ place["serviceMain"] \notin {"connect", "idle", "refused"}
  /\ place["dispatcher"] \notin {"off", "acquire"}
  /\ sem2 = 1 => main = "loop" /\ handlerObject /\ place["serviceMain"] \in {"off", "acquire"}
  /\ main \in {"acquire", "create"} => place["serviceMain"] \in {"off", "acquire"}
  /\ place["serviceMain"] \in {"off", "acquire", "enter"} =>
       /\ NoneInFlight /\ ~quit /\ last = "none"
       /\ main \in {"acquire", "create", "loop", "over"}
       /\ main = "loop" => handlerObject
       /\ status = "stopped"
       /\ reported \in {"start_pending", "stopped"}
       /\ place["dispatcher"] \notin {"connect", "refused"} => reported = "start_pending"
       /\ place["dispatcher"] \in {"connect", "refused", "idle"}
       /\ control.code = "interrogate"
       /\ ~shutdown /\ sysd
  /\ place["serviceMain"] # "off" => place["dispatcher"] \notin {"connect", "refused"}
  /\ place["serviceMain"] = "enter" => main = "loop"

\* Until the start-up is over the SCM sends nothing.
StartInv ==
  /\ place["serviceMain"] \in {"wait", "relock"} =>
       /\ status = "start_pending" /\ reported = "start_pending"
       /\ ~shutdown /\ sysd /\ handlerObject /\ ~quit
       /\ control.code = "interrogate"
       /\ place["dispatcher"] = "idle"
  /\ place["serviceMain"] = "wait" => InFlight(Startup) /\ (main # "notify" => last = "none")
  /\ place["serviceMain"] = "relock" =>
       NoneInFlight /\ main = "loop" /\ last = "startup" /\ "serviceMain" \in done

Started == place["serviceMain"] \in {"report", "read", "send", "ended"}

\* Afterwards the dispatcher has the only event, if there is one.
ControlInv ==
  Started =>
    /\ "serviceMain" \in done
    /\ place["dispatcher"] = "wait" => InFlight(Event)
    /\ place["dispatcher"] # "wait" => NoneInFlight
    /\ place["dispatcher"] = "enter" /\ control.code # "interrogate" =>
         main = "loop" /\ ~quit /\ control.code # "startup" /\ status \in {"running", "paused"} /\ reported = status
    /\ place["dispatcher"] \in {"wait", "relock"} => control.code \notin {"interrogate", "startup"}
    /\ place["dispatcher"] \in {"relock", "report", "read", "send"} /\ control.code # "interrogate" =>
         "dispatcher" \in done
    /\ place["dispatcher"] = "relock" /\ control.code \in {"pause", "continue"} =>
         last = control.code

\* The end of the event loop, and what holds until then.
EndInv ==
  Started =>
    /\ main \notin {"acquire", "create"}
    /\ main \in {"stopped", "tell", "send", "join", "over"} => quit
    /\ ~quit => sysd /\ handlerObject
    /\ quit => shutdown \/ reported \in {"stop_pending", "stopped"}
    /\ ~sysd => late \/ place["dispatcher"] = "ended"

\* The status is that of the event under way, or of the last operation.
StatusInv ==
  Started =>
    /\ status = "stopped" <=> main \in {"tell", "send", "join", "over"}
    /\ reported = status \/ status = "stopped"
    /\ place["dispatcher"] = "send" =>
         /\ carried["dispatcher"] \in {reported, "stopped"} \/ reported = "stopped"
         /\ carried["dispatcher"] = "stopped" => status = "stopped"
    /\ main = "send" => carried["main"] = "stopped"
    /\ status # "start_pending" /\ reported # "start_pending"
    /\ reported = "stopped" => status = "stopped"
    /\ \A code \in {"pause", "continue"} :
         /\ PendingState(code) \in {status, reported} =>
              place["dispatcher"] \in {"wait", "relock"} /\ control.code = code
         /\ place["dispatcher"] \in {"wait", "relock"} /\ control.code = code =>
              status = PendingState(code) /\ ~quit
    /\ place["dispatcher"] \in {"wait", "relock"} /\ control.code = "stop" =>
         status \in {"stop_pending", "stopped"} /\ reported \in {"stop_pending", "stopped"}
    /\ status = "stop_pending" => quit \/ (place["dispatcher"] = "wait" /\ control.code = "stop")
    /\ control.code = "shutdown" => shutdown
    /\ ~shutdown =>
         /\ status = "running" => last \in {"startup", "continue"}
         /\ status = "paused" => last = "pause"

\* A controller that asks asks for something.
AskedInv == \A c \in Controllers : cpc[c] = "asking" => cmd[c] \in Requests

\* All of this holds until the report of the start-up has been overtaken.
ServerInv == EarlyInv /\ StartInv /\ ControlInv /\ EndInv /\ StatusInv

\* The event that is posted, or whose operation runs or has run, is e; when the loop has
\* ended nobody handles it.
Handles(e) ==
  \/ main = "loop" /\ queue = <<e>> /\ running = NoEvent
  \/ main = "event" /\ queue = <<>> /\ running = e
  \/ main = "notify" /\ queue = <<>> /\ running = e /\ e.by \in done
  \/ main \in {"stopped", "tell", "send", "join", "over"} /\ running = NoEvent

\* What holds of the dispatcher's control also when it was admitted by a report of a
\* state that was over.
OvertakenInv ==
  /\ overtaken => Started
  /\ Started =>
       /\ "serviceMain" \in done
       /\ main \notin {"acquire", "create"}
       /\ ~sysd => late \/ place["dispatcher"] = "ended"
       /\ place["dispatcher"] = "wait" => Handles(Event)
       /\ place["dispatcher"] # "wait" => NoneInFlight
       /\ place["dispatcher"] = "wait" => control.code # "interrogate"
       /\ place["dispatcher"] \in {"enter", "wait"} => control.code # "startup"
       /\ place["dispatcher"] \in {"relock", "report", "read", "send"}
            /\ control.code # "interrogate" => "dispatcher" \in done

\* Whoever delivers a state has read one.
CarriedInv ==
  /\ \A t \in Threads : place[t] = "send" => carried[t] # "none"
  /\ main = "send" => carried["main"] # "none"

BaseInv == TypeOK /\ AskedInv /\ CarriedInv /\ OvertakenInv

WInv == BaseInv /\ (~overtaken => ServerInv) /\ DanglingNeedsLateThread

-----------------------------------------------------------------------------
(* Types.                                                                    *)

\* A queue that is not empty has a first event, and the rest is a queue.
LEMMA QueueHead ==
  ASSUME TypeOK, queue # <<>>
  PROVE  Head(queue) \in Events /\ Tail(queue) \in Seq(Events)
<1> QED BY HeadTailProperties DEF TypeOK

\* A thread that moves stays in the range of place, and the other one stays where it is.
LEMMA GoesMoves ==
  ASSUME TypeOK, NEW t \in Threads, NEW from, NEW to, Goes(t, from, to),
         to \in {"off", "connect", "idle", "acquire", "enter", "wait", "relock",
                 "report", "read", "send", "ended", "refused"}
  PROVE  /\ place' \in [Threads -> {"off", "connect", "idle", "acquire", "enter", "wait",
                                    "relock", "report", "read", "send", "ended", "refused"}]
         /\ place'[t] = to
         /\ \A u \in Threads : u # t => place'[u] = place[u]
<1> QED BY DEF TypeOK, Goes

\* The codes of a control, and the states reported for it.
LEMMA CodeAndStates ==
  ASSUME TypeOK, NEW t \in Threads
  PROVE  /\ Code(t) \in Codes
         /\ PendingState(Code(t)) \in States
         /\ FinalState(Code(t)) \in States
         /\ \A state \in States : Told(state) \in States
         /\ [code |-> IF Code(t) = "shutdown" THEN "stop" ELSE Code(t), by |-> t] \in Events
<1>1. Code(t) \in Codes
  BY DEF TypeOK, Code, Codes
<1>2. PendingState(Code(t)) \in States
  BY <1>1 DEF TypeOK, PendingState, States
<1>3. FinalState(Code(t)) \in States
  BY <1>1 DEF TypeOK, FinalState, States
<1>4. \A state \in States : Told(state) \in States
  BY DEF TypeOK, Told
<1>5. [code |-> IF Code(t) = "shutdown" THEN "stop" ELSE Code(t), by |-> t] \in Events
  BY <1>1 DEF Events, Codes
<1> QED BY <1>1, <1>2, <1>3, <1>4, <1>5

\* What holds of the control at hand follows while no report has been overtaken.
LEMMA NotOvertaken == TypeOK /\ ServerInv /\ ~overtaken => OvertakenInv
<1> SUFFICES ASSUME TypeOK, ServerInv, ~overtaken, Started PROVE OvertakenInv
  BY DEF OvertakenInv
<1> USE DEF ServerInv
<1>1. /\ "serviceMain" \in done
      /\ main \notin {"acquire", "create"}
      /\ ~sysd => late \/ place["dispatcher"] = "ended"
  BY DEF ControlInv, EndInv
<1>2. place["dispatcher"] = "wait" => Handles(Event)
  BY DEF ControlInv, InFlight, Handles
<1>3. /\ place["dispatcher"] # "wait" => NoneInFlight
      /\ place["dispatcher"] = "wait" => control.code # "interrogate"
      /\ place["dispatcher"] \in {"enter", "wait"} => control.code # "startup"
      /\ place["dispatcher"] \in {"relock", "report", "read", "send"}
            /\ control.code # "interrogate" => "dispatcher" \in done
  BY DEF ControlInv
<1> QED BY <1>1, <1>2, <1>3 DEF OvertakenInv

\* The operation that runs is that of the start-up or of a control.
LEMMA RunningCode ==
  ASSUME TypeOK, OvertakenInv, ~overtaken => ServerInv, main \in {"event", "notify"}
  PROVE  running.code \in {"startup", "stop", "pause", "continue", "user"}
<1>1. CASE Started
  <2>1. place["dispatcher"] = "wait" /\ running = Event
    BY <1>1 DEF OvertakenInv, Handles, NoneInFlight
  <2>2. control.code \in Codes \ {"interrogate", "startup"}
    BY <1>1, <2>1 DEF OvertakenInv, TypeOK
  <2> QED BY <2>1, <2>2 DEF Event, Codes
<1>2. CASE ~Started
  <2> USE DEF ServerInv, Startup, NoneInFlight, InFlight
  <2>1. ServerInv
    BY <1>2 DEF OvertakenInv
  <2>2. place["serviceMain"] \notin {"off", "acquire", "enter", "relock"}
    BY <2>1 DEF EarlyInv, StartInv
  <2>3. place["serviceMain"] \in {"off", "acquire", "enter", "wait", "relock", "report", "read", "send", "ended"}
    BY <2>1 DEF TypeOK, EarlyInv, Threads
  <2> QED BY <1>2, <2>1, <2>2, <2>3 DEF Started, StartInv
<1> QED BY <1>1, <1>2

\* The steps of the main thread keep the types.
LEMMA MainTypes ==
  ASSUME TypeOK, OvertakenInv, CarriedInv, ~overtaken => ServerInv, Main
  PROVE  TypeOK'
<1>1. CASE Acquired
  BY <1>1 DEF Acquired, MainGoes, TypeOK, objectVars, scmVars, clientVars, stateVars, recordVars, historyVars
<1>2. CASE AcquireTimesOut
  BY <1>2 DEF AcquireTimesOut, MainGoes, TypeOK, objectVars, semVars, scmVars, clientVars, stateVars, recordVars, historyVars
<1>3. CASE CreateApplication
  BY <1>3 DEF CreateApplication, MainGoes, TypeOK, scmVars, clientVars, stateVars, recordVars, historyVars
<1>4. CASE TakeEvent
  BY <1>4, QueueHead DEF TakeEvent, MainGoes, TypeOK, objectVars, semVars, scmVars, clientVars, stateVars, recordVars, historyVars
<1>5. CASE Operate
  <2>1. last' \in {"none", "startup", "stop", "pause", "continue"}
    BY <1>5, RunningCode DEF Operate, MainGoes, TypeOK
  <2>2. done' \subseteq Threads
    BY <1>5, RunningCode DEF Operate, MainGoes, TypeOK, Events, NoEvent
  <2>3. quit' \in BOOLEAN
    BY <1>5 DEF Operate, TypeOK
  <2> QED
    BY <1>5, <2>1, <2>2, <2>3
    DEF Operate, MainGoes, TypeOK, objectVars, semVars, scmVars, clientVars, stateVars, recordVars
<1>6. CASE OperationExits
  BY <1>6 DEF OperationExits, ProcessEnds, TypeOK, mainVars, objectVars, semVars, scmVars, clientVars, stateVars, recordVars, historyVars
<1>7. CASE Notify
  BY <1>7 DEF Notify, MainGoes, TypeOK, objectVars, semVars, scmVars, clientVars, stateVars, recordVars, historyVars
<1>8. CASE LoopEnd
  BY <1>8 DEF LoopEnd, MainGoes, TypeOK, objectVars, semVars, scmVars, clientVars, stateVars, recordVars, historyVars
<1>9. CASE SetStopped
  BY <1>9 DEF SetStopped, MainGoes, TypeOK, objectVars, semVars, scmVars, clientVars, historyVars, States
<1>10. CASE ReadStopped \/ TellStopped
  <2>0. "main" \in Reporters
    BY DEF Reporters
  <2>1. /\ carried' \in [Reporters -> States \cup {"none"}]
        /\ status' = status /\ reported' \in States /\ overtaken' \in BOOLEAN
    <3>1. CASE ReadStopped
      BY <2>0, <3>1 DEF ReadStopped, Reads, TypeOK, recordVars
    <3>2. CASE TellStopped
      <4>1. carried["main"] \in States
        BY <2>0, <3>2 DEF TellStopped, MainGoes, TypeOK, CarriedInv
      <4>2. /\ carried' \in [Reporters -> States \cup {"none"}]
            /\ status' = status /\ reported' \in States
        BY <2>0, <3>2, <4>1 DEF TellStopped, Delivers, TypeOK, Told
      <4>3. overtaken \in BOOLEAN
        BY DEF TypeOK
      <4>4. overtaken' \in BOOLEAN
        BY <3>2, <4>3, Zenon DEF TellStopped, Delivers
      <4> QED BY <4>2, <4>4
    <3> QED BY <1>10, <3>1, <3>2
  <2>2. /\ main' \in {"send", "join"} /\ process' = process
        /\ UNCHANGED <<running, quit, queue, objectVars, semVars, place, scmVars, clientVars, historyVars>>
    BY <1>10 DEF ReadStopped, TellStopped, MainGoes
  <2> HIDE <1>10
  <2>3. {quit', handlerObject', sysd', shutdown', late', overtaken'} \subseteq BOOLEAN
    BY <2>1, <2>2 DEF TypeOK, objectVars, scmVars
  <2> QED
    BY <2>1, <2>2, <2>3 DEF TypeOK, objectVars, semVars, scmVars, clientVars, historyVars
<1>11. CASE Join
  <2>1. late' \in BOOLEAN
    BY <1>11 DEF Join
  <2>2. /\ process' = process /\ main' = "over" /\ handlerObject' = FALSE /\ queue' = <<>>
        /\ sysd' = FALSE
        /\ UNCHANGED <<running, quit, semVars, place, stateVars, historyVars, scmVars, clientVars>>
    BY <1>11 DEF Join, MainGoes
  <2>3. {quit', handlerObject', sysd', shutdown', late', overtaken'} \subseteq BOOLEAN
    <3>1. quit' \in BOOLEAN /\ shutdown' \in BOOLEAN /\ overtaken' \in BOOLEAN
      BY <2>2 DEF TypeOK, scmVars, stateVars
    <3>2. handlerObject' \in BOOLEAN /\ sysd' \in BOOLEAN
      BY <2>2
    <3> QED BY <2>1, <3>1, <3>2, Zenon
  <2> HIDE <1>11
  <2> QED
    BY <2>2, <2>3 DEF TypeOK, semVars, scmVars, clientVars, stateVars, recordVars, historyVars
<1>12. CASE MainReturns
  BY <1>12 DEF MainReturns, ProcessEnds, TypeOK, mainVars, objectVars, semVars, scmVars, clientVars, stateVars, recordVars, historyVars
<1> QED BY <1>1, <1>2, <1>3, <1>4, <1>5, <1>6, <1>7, <1>8, <1>9, <1>10, <1>11, <1>12 DEF Main

\* The steps of the dispatcher and of the thread of serviceMain keep the types.
LEMMA ThreadTypes ==
  ASSUME TypeOK, CarriedInv, NEW t \in Threads, Thread(t) \/ HandlerDangles(t)
  PROVE  TypeOK'
<1>1. CASE HandlerPosts(t)
  <2>1. queue' \in Seq(Events)
    BY <1>1, CodeAndStates DEF HandlerPosts, TypeOK
  <2>2. status' \in States /\ reported' \in States /\ UNCHANGED <<carried, overtaken>>
    BY <1>1, CodeAndStates DEF HandlerPosts, SetStatus, TypeOK
  <2> QED
    BY <1>1, <2>1, <2>2, GoesMoves
    DEF HandlerPosts, Goes, TypeOK, mainVars, objectVars, semVars, scmVars
<1>2. CASE HandlerInterrogates(t)
  BY <1>2, GoesMoves
  DEF HandlerInterrogates, Goes, TypeOK, mainVars, objectVars, semVars, scmVars, stateVars, recordVars
<1>3. CASE HandlerWoken(t)
  <2>1. status' \in States /\ reported' \in States /\ UNCHANGED <<carried, overtaken>>
    BY <1>3, CodeAndStates DEF HandlerWoken, SetStatus, TypeOK
  <2> QED
    BY <1>3, <2>1, GoesMoves
    DEF HandlerWoken, Goes, TypeOK, mainVars, objectVars, semVars, scmVars
<1>4. CASE HandlerLooks(t)
  BY <1>4, GoesMoves
  DEF HandlerLooks, Goes, TypeOK, mainVars, objectVars, semVars, scmVars, stateVars, recordVars
<1>5. CASE HandlerReads(t)
  <2>1. t \in Reporters /\ status \in States
    BY DEF Reporters, TypeOK
  <2>2. carried' \in [Reporters -> States \cup {"none"}] /\ UNCHANGED <<recordVars, overtaken>>
    BY <1>5, <2>1 DEF HandlerReads, Reads, TypeOK
  <2> QED
    BY <1>5, <2>2, GoesMoves
    DEF HandlerReads, Goes, TypeOK, mainVars, objectVars, semVars, scmVars, recordVars
<1>6. ASSUME NEW from, HandlerReturns(t, from), reported' \in States,
             carried' \in [Reporters -> States \cup {"none"}], overtaken' \in BOOLEAN
      PROVE  TypeOK'
  <2>1. control' \in [code : Codes, from : Controllers \cup {NoController}]
    BY <1>6 DEF HandlerReturns, TypeOK, Codes
  <2>2. cpc' \in [Controllers -> {"idle", "asking", "sent", "answered", "closed"}]
    BY <1>6 DEF HandlerReturns, TypeOK
  <2> QED
    BY <1>6, <2>1, <2>2, GoesMoves
    DEF HandlerReturns, Goes, TypeOK, mainVars, objectVars, semVars
<1>7. CASE HandlerReports(t) \/ HandlerSkipsReport(t)
  <2>1. PICK from \in {"send", "report"} : HandlerReturns(t, from)
    BY <1>7 DEF HandlerReports, HandlerSkipsReport
  <2>2. CASE HandlerReports(t)
    <3>1. t \in Reporters /\ carried[t] \in States
      BY <2>2 DEF HandlerReports, HandlerReturns, Goes, CarriedInv, TypeOK, Reporters
    <3>2. /\ reported' \in States /\ overtaken' \in BOOLEAN
          /\ carried' \in [Reporters -> States \cup {"none"}]
      BY <2>2, <3>1, CodeAndStates DEF HandlerReports, Delivers, TypeOK
    <3> QED BY <1>6, <2>1, <3>2
  <2>3. CASE HandlerSkipsReport(t)
    BY <1>6, <2>1, <2>3 DEF HandlerSkipsReport, TypeOK
  <2> QED BY <1>7, <2>2, <2>3
<1>8. CASE t = "dispatcher" /\ (Connect \/ ConnectFails \/ DispatcherReturns)
  <2> USE <1>8, GoesMoves DEF Goes, TypeOK, mainVars, objectVars, semVars, scmVars, stateVars, recordVars
  <2>1. CASE Connect
    BY <2>1 DEF Connect
  <2>2. CASE ConnectFails
    BY <2>2 DEF ConnectFails
  <2>3. CASE DispatcherReturns
    BY <2>3 DEF DispatcherReturns
  <2> QED BY <2>1, <2>2, <2>3
<1>9. CASE t = "serviceMain" /\ (ServiceMain \/ Register)
  <2> USE <1>9, GoesMoves DEF Goes, TypeOK, mainVars, objectVars, semVars, scmVars, stateVars, recordVars
  <2>1. CASE ServiceMain
    BY <2>1 DEF ServiceMain
  <2>2. CASE Register
    BY <2>2 DEF Register
  <2> QED BY <2>1, <2>2
<1>10. CASE HandlerDangles(t)
  BY <1>10 DEF HandlerDangles, ProcessEnds, TypeOK, mainVars, objectVars, semVars, scmVars, clientVars, stateVars, recordVars, historyVars
<1> QED BY <1>1, <1>2, <1>3, <1>4, <1>5, <1>7, <1>8, <1>9, <1>10 DEF Thread, Handler

\* The steps of the controllers keep the types.
LEMMA ControllerTypes ==
  ASSUME TypeOK, AskedInv, NEW c \in Controllers, Controller(c) \/ \E code \in Requests : Ask(c, code)
  PROVE  TypeOK'
<1> USE DEF ServerUnchanged, mainVars, objectVars, semVars, scmVars, stateVars, recordVars, historyVars
<1>1. ASSUME NEW code \in Requests, Ask(c, code)
      PROVE  TypeOK'
  BY <1>1 DEF Ask, TypeOK
<1>2. CASE Deliver(c)
  <2>1. "dispatcher" \in Threads
    BY DEF Threads
  <2>2. cmd[c] \in Codes
    BY <1>2 DEF Deliver, AskedInv, Requests, Codes
  <2> QED
    BY <1>2, <2>1, <2>2, GoesMoves DEF Deliver, Goes, TypeOK
<1>3. ASSUME NEW value \in {"true", "false"}, Returns(c, value)
      PROVE  TypeOK'
  <2>1. polls' \in [Controllers -> 0..MaxPolls]
    BY <1>3, WinAssumption DEF Returns, TypeOK
  <2> QED BY <1>3, <2>1 DEF Returns, TypeOK
<1>4. CASE StopNotYet(c)
  <2>1. polls' \in [Controllers -> 0..MaxPolls]
    BY <1>4, WinAssumption DEF StopNotYet, TypeOK
  <2> QED BY <1>4, <2>1 DEF StopNotYet, TypeOK
<1> QED
  BY <1>1, <1>2, <1>3, <1>4 DEF Controller, ControlFails, ControlSucceeds, StopSeen, StopGivesUp

-----------------------------------------------------------------------------
(* What the three threads and the SCM know of each other.                    *)

ServerVars == <<main, running, quit, queue, objectVars, sem2, place, control, stateVars,
                shutdown, historyVars>>

\* Steps of the controllers and the end of the process leave it all alone.
LEMMA ServerUntouched ==
  ASSUME ServerInv, UNCHANGED ServerVars
  PROVE  ServerInv'
<1> USE DEF ServerVars, objectVars, stateVars, recordVars, historyVars
<1>1. EarlyInv'
  BY DEF ServerInv, EarlyInv, NoneInFlight
<1>2. StartInv'
  BY DEF ServerInv, StartInv, NoneInFlight, InFlight
<1>3. ControlInv'
  BY DEF ServerInv, ControlInv, Started, NoneInFlight, InFlight, Event
<1>4. EndInv'
  BY DEF ServerInv, EndInv, Started
<1>5. StatusInv'
  BY DEF ServerInv, StatusInv, Started, PendingState
<1> QED BY <1>1, <1>2, <1>3, <1>4, <1>5 DEF ServerInv

\* Steps of the main thread that neither take an event nor end the loop.
LEMMA MainServer ==
  ASSUME TypeOK, OvertakenInv, ServerInv, Main
  PROVE  ServerInv'
<1> USE DEF ServerInv, MainGoes, objectVars, semVars, stateVars, recordVars, historyVars, scmVars
<1>1. CASE Acquired
  <2> USE <1>1 DEF Acquired
  <2>1. EarlyInv'
    BY DEF EarlyInv, NoneInFlight
  <2>2. StartInv'
    BY DEF EarlyInv, StartInv, NoneInFlight, InFlight
  <2>3. ControlInv'
    BY DEF EarlyInv, ControlInv, EndInv, Started, NoneInFlight, InFlight, Event
  <2>4. EndInv'
    BY DEF EarlyInv, EndInv, Started
  <2>5. StatusInv'
    BY DEF EarlyInv, StatusInv, Started, PendingState
  <2> QED BY <2>1, <2>2, <2>3, <2>4, <2>5
<1>2. CASE AcquireTimesOut
  <2> USE <1>2 DEF AcquireTimesOut
  <2>1. EarlyInv'
    BY DEF EarlyInv, NoneInFlight
  <2>2. StartInv'
    BY DEF EarlyInv, StartInv, NoneInFlight, InFlight
  <2>3. ControlInv'
    BY DEF EarlyInv, ControlInv, EndInv, Started, NoneInFlight, InFlight, Event
  <2>4. EndInv'
    BY DEF EarlyInv, EndInv, Started
  <2>5. StatusInv'
    BY DEF EarlyInv, StatusInv, Started, PendingState
  <2> QED BY <2>1, <2>2, <2>3, <2>4, <2>5
<1>3. CASE CreateApplication
  <2> USE <1>3 DEF CreateApplication
  <2>1. EarlyInv'
    BY DEF EarlyInv, NoneInFlight
  <2>2. StartInv'
    BY DEF EarlyInv, StartInv, NoneInFlight, InFlight
  <2>3. ControlInv'
    BY DEF EarlyInv, ControlInv, EndInv, Started, NoneInFlight, InFlight, Event
  <2>4. EndInv'
    BY DEF EarlyInv, EndInv, Started
  <2>5. StatusInv'
    BY DEF EarlyInv, StatusInv, Started, PendingState
  <2> QED BY <2>1, <2>2, <2>3, <2>4, <2>5
<1>4. CASE TakeEvent
  <2> USE <1>4 DEF TakeEvent
  <2>1. EarlyInv'
    BY DEF EarlyInv, NoneInFlight
  <2>2. StartInv'
    BY SMTT(30) DEF EarlyInv, StartInv, NoneInFlight, InFlight
  <2>3. ControlInv'
    <3>1. SUFFICES ASSUME Started PROVE ControlInv'
      BY DEF ControlInv, Started
    <3>2. queue = <<Event>> /\ ~quit /\ place["dispatcher"] = "wait"
      BY <3>1 DEF ControlInv, NoneInFlight, InFlight
    <3>3. queue' = <<>> /\ running' = Event
      BY <3>2
    <3>4. InFlight(Event)'
      BY <3>2, <3>3 DEF InFlight, Event
    <3> QED BY <3>1, <3>2, <3>4 DEF ControlInv, Started
  <2>4. EndInv'
    BY DEF EarlyInv, EndInv, Started
  <2>5. StatusInv'
    BY DEF EarlyInv, StatusInv, Started, PendingState
  <2> QED BY <2>1, <2>2, <2>3, <2>4, <2>5
<1>5. CASE Operate
  <2> USE <1>5 DEF Operate
  <2>1. EarlyInv'
    BY DEF EarlyInv, NoneInFlight
  <2>2. /\ running.code \in {"startup", "stop", "pause", "continue", "user"}
        /\ running.by \in done'
        /\ done \subseteq done'
        /\ running.code # "user" => last' = running.code
        /\ running.code = "user" => last' = last
    BY RunningCode
  <2>3. ~quit
    BY DEF EarlyInv, StartInv, ControlInv, NoneInFlight, InFlight, Started, TypeOK, Threads
  <2>4. quit' = (running.code = "stop")
    BY <2>3
  <2>5. CASE place["serviceMain"] = "wait"
    <3>1. running = Startup /\ queue = <<>>
      BY <2>5 DEF StartInv, InFlight
    <3>2. ~quit'
      BY <2>4, <3>1 DEF Startup
    <3>3. InFlight(Startup)'
      BY <2>2, <3>1, <3>2 DEF InFlight, Startup
    <3>4. StartInv'
      BY <2>5, <3>2, <3>3 DEF StartInv
    <3> QED
      BY <2>1, <2>5, <3>4 DEF ControlInv, EndInv, StatusInv, Started
  <2>6. CASE Started
    <3>1. running = Event /\ queue = <<>> /\ place["dispatcher"] = "wait"
      BY <2>6 DEF ControlInv, NoneInFlight, InFlight
    <3>2. InFlight(Event)'
      BY <2>2, <2>4, <3>1 DEF InFlight, Event
    <3>3. StartInv'
      BY <2>6 DEF StartInv, Started
    <3>4. ControlInv'
      BY <2>2, <2>6, <3>1, <3>2 DEF ControlInv, Started
    <3>5. running.code = IF control.code = "shutdown" THEN "stop" ELSE control.code
      BY <3>1 DEF Event
    <3>6. quit' => shutdown \/ reported \in {"stop_pending", "stopped"}
      BY <2>4, <2>6, <3>1, <3>5 DEF StatusInv
    <3>7. EndInv'
      BY <2>3, <2>6, <3>6 DEF EndInv, Started
    <3>8. StatusInv'
      <4>1. control.code \in {"pause", "continue"} => ~quit'
        BY <2>4, <3>5
      <4>2. status = "stop_pending" => quit'
        BY <2>3, <2>4, <2>6, <3>1, <3>5 DEF StatusInv
      <4>3. ~shutdown => /\ status = "running" => last' \in {"startup", "continue"}
                         /\ status = "paused" => last' = "pause"
        BY <2>2, <2>6, <3>1, <3>5 DEF StatusInv, ControlInv, PendingState
      <4> HIDE <1>5
      <4>4. UNCHANGED <<status, reported, carried, place, control, shutdown>> /\ main = "event" /\ main' = "notify"
        BY <1>5
      <4> QED
        BY <2>6, <4>1, <4>2, <4>3, <4>4 DEF StatusInv, Started, PendingState
    <3> QED BY <2>1, <3>3, <3>4, <3>7, <3>8
  <2> QED
    BY <2>1, <2>5, <2>6 DEF EarlyInv, StartInv, Started, NoneInFlight, TypeOK, Threads
<1>7. CASE Notify
  <2> USE <1>7 DEF Notify
  <2>1. /\ place'["dispatcher"] = IF place["dispatcher"] = "wait" THEN "relock" ELSE place["dispatcher"]
        /\ place'["serviceMain"] = IF place["serviceMain"] = "wait" THEN "relock" ELSE place["serviceMain"]
    BY DEF Threads
  <2>2. EarlyInv'
    BY <2>1 DEF EarlyInv, NoneInFlight
  <2>3. CASE place["serviceMain"] = "wait"
    <3>1. running = Startup /\ queue = <<>> /\ last = "startup" /\ "serviceMain" \in done
      BY <2>3 DEF StartInv, InFlight, Startup
    <3>2. place["dispatcher"] # "wait"
      BY <2>3 DEF StartInv
    <3>3. StartInv'
      BY <2>1, <2>3, <3>1, <3>2 DEF StartInv, NoneInFlight, InFlight, Startup
    <3> QED
      BY <2>1, <2>2, <2>3, <3>3 DEF ControlInv, EndInv, StatusInv, Started
  <2>4. CASE Started
    <3>1. /\ running = Event /\ queue = <<>> /\ place["dispatcher"] = "wait"
          /\ "dispatcher" \in done
          /\ quit <=> Event.code = "stop"
          /\ Event.code # "user" => last = Event.code
      BY <2>4 DEF ControlInv, NoneInFlight, InFlight, Event
    <3>2. Started'
      BY <2>1, <2>4 DEF Started
    <3>3. StartInv'
      BY <3>2 DEF StartInv, Started
    <3>4. control.code \in {"pause", "continue"} => last = control.code
      BY <3>1 DEF Event
    <3>5. ControlInv'
      BY <2>1, <2>4, <3>1, <3>2, <3>4 DEF ControlInv, NoneInFlight
    <3>6. EndInv'
      BY <2>1, <2>4, <3>1, <3>2 DEF EndInv
    <3>7. control.code = "stop" => quit
      BY <3>1 DEF Event
    <3>8. StatusInv'
      BY <2>1, <2>4, <3>1, <3>2, <3>7 DEF StatusInv, PendingState
    <3> QED BY <2>2, <3>3, <3>5, <3>6, <3>8
  <2> QED
    BY <2>2, <2>3, <2>4 DEF EarlyInv, StartInv, Started, NoneInFlight, TypeOK, Threads
<1>8. CASE LoopEnd
  <2> USE <1>8 DEF LoopEnd
  <2>1. EarlyInv'
    BY DEF EarlyInv, NoneInFlight
  <2>2. StartInv'
    BY DEF EarlyInv, StartInv, NoneInFlight, InFlight, Startup
  <2>3. ControlInv'
    BY DEF EarlyInv, ControlInv, EndInv, Started, NoneInFlight, InFlight, Event
  <2>4. EndInv'
    BY DEF EarlyInv, EndInv, Started
  <2>5. StatusInv'
    BY DEF EarlyInv, StatusInv, Started, PendingState
  <2> QED BY <2>1, <2>2, <2>3, <2>4, <2>5
<1>9. CASE SetStopped
  <2> USE <1>9 DEF SetStopped
  <2>1. EarlyInv'
    BY DEF EarlyInv, NoneInFlight
  <2>2. StartInv'
    BY DEF EarlyInv, StartInv, NoneInFlight, InFlight, Startup
  <2>3. ControlInv'
    BY DEF EarlyInv, ControlInv, EndInv, Started, NoneInFlight, InFlight, Event
  <2>4. EndInv'
    BY DEF EarlyInv, EndInv, Started
  <2>5. StatusInv'
    BY DEF EarlyInv, StatusInv, EndInv, Started, PendingState
  <2> QED BY <2>1, <2>2, <2>3, <2>4, <2>5
<1>12. CASE ReadStopped
  <2> USE <1>12 DEF ReadStopped, Reads, recordVars
  <2>0. carried'["main"] = status /\ carried'["dispatcher"] = carried["dispatcher"]
    BY DEF TypeOK, Reporters, Threads
  <2>1. EarlyInv'
    BY DEF EarlyInv, NoneInFlight
  <2>2. StartInv'
    BY DEF EarlyInv, StartInv, NoneInFlight, InFlight, Startup
  <2>3. ControlInv'
    BY DEF EarlyInv, ControlInv, EndInv, Started, NoneInFlight, InFlight, Event
  <2>4. EndInv'
    BY DEF EarlyInv, EndInv, StatusInv, Started
  <2>5. StatusInv'
    BY <2>0 DEF EarlyInv, StatusInv, EndInv, Started, PendingState
  <2> QED BY <2>1, <2>2, <2>3, <2>4, <2>5
<1>10. CASE TellStopped
  <2> USE <1>10 DEF TellStopped, Told, Delivers
  <2>0. carried'["dispatcher"] = carried["dispatcher"]
    BY DEF TypeOK, Reporters, Threads
  <2>1. EarlyInv'
    BY DEF EarlyInv, NoneInFlight
  <2>2. StartInv'
    BY DEF EarlyInv, StartInv, NoneInFlight, InFlight, Startup
  <2>3. ControlInv'
    BY DEF EarlyInv, ControlInv, EndInv, Started, NoneInFlight, InFlight, Event
  <2>4. EndInv'
    BY DEF EarlyInv, EndInv, StatusInv, Started
  <2>5. StatusInv'
    BY <2>0 DEF EarlyInv, StatusInv, EndInv, Started, PendingState
  <2> QED BY <2>1, <2>2, <2>3, <2>4, <2>5
<1>11. CASE Join
  <2> USE <1>11 DEF Join
  <2>1. EarlyInv'
    BY DEF EarlyInv, NoneInFlight
  <2>2. StartInv'
    BY DEF EarlyInv, StartInv, NoneInFlight, InFlight, Startup
  <2>3. ControlInv'
    BY DEF EarlyInv, ControlInv, EndInv, Started, NoneInFlight, InFlight, Event
  <2>4. EndInv'
    <3>1. late' \/ place'["dispatcher"] = "ended"
      OBVIOUS
    <3>2. UNCHANGED <<quit, place, shutdown, reported>> /\ main' = "over" /\ main = "join"
      OBVIOUS
    <3> HIDE <1>11
    <3> QED BY <3>1, <3>2 DEF EndInv, Started
  <2>5. StatusInv'
    BY DEF EarlyInv, StatusInv, EndInv, Started, PendingState
  <2> QED BY <2>1, <2>2, <2>3, <2>4, <2>5
<1>6. CASE OperationExits \/ MainReturns
  BY <1>6, ServerUntouched DEF OperationExits, MainReturns, ProcessEnds, ServerVars, mainVars
<1> QED BY <1>1, <1>2, <1>3, <1>4, <1>5, <1>6, <1>7, <1>8, <1>9, <1>10, <1>11, <1>12 DEF Main

\* The dispatcher.
LEMMA DispatcherServer ==
  ASSUME TypeOK, ServerInv, Thread("dispatcher")
  PROVE  ServerInv'
<1> DEFINE D == "dispatcher"
<1>0. D \in Threads /\ "serviceMain" \in Threads /\ Code(D) = control.code
  BY DEF Threads, Code
<1> USE DEF ServerInv, Goes, mainVars, objectVars, semVars, stateVars, recordVars, historyVars, scmVars
<1>1. CASE HandlerPosts(D)
  <2> USE <1>0, <1>1 DEF HandlerPosts, SetStatus, Told
  <2>0. place'["dispatcher"] = "wait" /\ place'["serviceMain"] = place["serviceMain"]
    BY DEF TypeOK
  <2>1. EarlyInv'
    BY <2>0 DEF EarlyInv, NoneInFlight
  <2>2. StartInv'
    BY <2>0 DEF EarlyInv, StartInv, NoneInFlight, InFlight, Startup
  <2>3. ControlInv'
    <3>1. Started
      BY <2>0 DEF EarlyInv, StartInv, TypeOK, Threads, Started
    <3>2. control.code \in {"stop", "pause", "continue", "shutdown", "user"}
      BY <2>0, <3>1 DEF ControlInv, TypeOK, Codes
    <3>3. queue = <<>> /\ running = NoEvent /\ main = "loop" /\ ~quit
      BY <2>0, <3>1 DEF ControlInv, NoneInFlight
    <3>4. queue' = <<Event>>
      BY <3>3 DEF Event
    <3>5. InFlight(Event)'
      BY <3>3, <3>4 DEF InFlight, Event
    <3>6. "serviceMain" \in done'
      BY <3>1 DEF ControlInv
    <3> QED
      BY <2>0, <3>1, <3>2, <3>5, <3>6 DEF ControlInv, Started
  <2>4. EndInv'
    BY <2>0 DEF EarlyInv, StartInv, EndInv, StatusInv, ControlInv, Started, InFlight, NoneInFlight
  <2>5. StatusInv'
    <3>1. Started
      BY <2>0 DEF EarlyInv, StartInv, TypeOK, Threads, Started
    <3>2. control.code \in {"stop", "pause", "continue", "shutdown", "user"}
      BY <2>0, <3>1 DEF StatusInv, ControlInv, TypeOK, Codes
    <3>3. main = "loop" /\ ~quit /\ status \in {"running", "paused"} /\ reported = status
      BY <2>0, <3>1 DEF ControlInv
    <3>4. reported' = status' /\ status' = PendingState(control.code)
      BY <3>3 DEF PendingState
    <3>5. PendingState(control.code)' = PendingState(control.code)
      BY <3>2, <3>4 DEF PendingState
    <3> QED
      BY <2>0, <3>1, <3>2, <3>3, <3>4, <3>5 DEF StatusInv, Started, PendingState
  <2> QED BY <2>1, <2>2, <2>3, <2>4, <2>5
<1>2. CASE HandlerInterrogates(D)
  <2> USE <1>0, <1>2 DEF HandlerInterrogates
  <2>0. place'["dispatcher"] = "report" /\ place'["serviceMain"] = place["serviceMain"]
    BY DEF TypeOK
  <2>1. EarlyInv'
    BY <2>0 DEF EarlyInv, NoneInFlight
  <2>2. StartInv'
    BY <2>0 DEF EarlyInv, StartInv, NoneInFlight, InFlight, Startup
  <2>3. ControlInv'
    BY <2>0 DEF EarlyInv, StartInv, ControlInv, StatusInv, EndInv, Started, NoneInFlight, InFlight, Event, Startup
  <2>4. EndInv'
    BY <2>0 DEF EarlyInv, StartInv, EndInv, StatusInv, ControlInv, Started, InFlight, NoneInFlight
  <2>5. StatusInv'
    BY <2>0 DEF EarlyInv, StartInv, StatusInv, ControlInv, EndInv, Started, PendingState, InFlight, NoneInFlight
  <2> QED BY <2>1, <2>2, <2>3, <2>4, <2>5
<1>3. CASE HandlerWoken(D)
  <2> USE <1>0, <1>3 DEF HandlerWoken, SetStatus, Told, FinalState
  <2>0. place'["dispatcher"] = "report" /\ place'["serviceMain"] = place["serviceMain"]
    BY DEF TypeOK
  <2>1. EarlyInv'
    BY <2>0 DEF EarlyInv, NoneInFlight
  <2>2. StartInv'
    BY <2>0 DEF EarlyInv, StartInv, NoneInFlight, InFlight, Startup
  <2>3. ControlInv'
    BY <2>0 DEF EarlyInv, StartInv, ControlInv, StatusInv, EndInv, Started, NoneInFlight, InFlight, Event, Startup
  <2>4. EndInv'
    BY <2>0 DEF EarlyInv, StartInv, EndInv, StatusInv, ControlInv, Started, InFlight, NoneInFlight
  <2>5. StatusInv'
    BY <2>0 DEF EarlyInv, StartInv, StatusInv, ControlInv, EndInv, Started, PendingState, InFlight, NoneInFlight
  <2> QED BY <2>1, <2>2, <2>3, <2>4, <2>5
<1>4. CASE HandlerLooks(D)
  <2> USE <1>0, <1>4 DEF HandlerLooks
  <2>0. place'["dispatcher"] = "read" /\ place'["serviceMain"] = place["serviceMain"]
    BY DEF TypeOK
  <2>1. EarlyInv'
    BY <2>0 DEF EarlyInv, NoneInFlight
  <2>2. StartInv'
    BY <2>0 DEF EarlyInv, StartInv, NoneInFlight, InFlight, Startup
  <2>3. ControlInv'
    BY <2>0 DEF EarlyInv, StartInv, ControlInv, StatusInv, EndInv, Started, NoneInFlight, InFlight, Event, Startup
  <2>4. EndInv'
    BY <2>0 DEF EarlyInv, StartInv, EndInv, StatusInv, ControlInv, Started, InFlight, NoneInFlight
  <2>5. StatusInv'
    BY <2>0 DEF EarlyInv, StartInv, StatusInv, ControlInv, EndInv, Started, PendingState, InFlight, NoneInFlight
  <2> QED BY <2>1, <2>2, <2>3, <2>4, <2>5
<1>10. CASE HandlerReads(D)
  <2> USE <1>0, <1>10 DEF HandlerReads, Reads, recordVars
  <2>0. place'["dispatcher"] = "send" /\ place'["serviceMain"] = place["serviceMain"]
    BY DEF TypeOK
  <2>a. carried'["dispatcher"] = status /\ carried'["main"] = carried["main"]
    BY DEF TypeOK, Reporters, Threads
  <2>1. EarlyInv'
    BY <2>0 DEF EarlyInv, NoneInFlight
  <2>2. StartInv'
    BY <2>0 DEF EarlyInv, StartInv, NoneInFlight, InFlight, Startup
  <2>3. ControlInv'
    BY <2>0 DEF EarlyInv, StartInv, ControlInv, StatusInv, EndInv, Started, NoneInFlight, InFlight, Event, Startup
  <2>4. EndInv'
    BY <2>0 DEF EarlyInv, StartInv, EndInv, StatusInv, ControlInv, Started, InFlight, NoneInFlight
  <2>5. StatusInv'
    BY <2>0, <2>a DEF EarlyInv, StartInv, StatusInv, ControlInv, EndInv, Started, PendingState, InFlight, NoneInFlight
  <2> QED BY <2>1, <2>2, <2>3, <2>4, <2>5
<1>5. CASE HandlerReports(D)
  <2> USE <1>0, <1>5 DEF HandlerReports, HandlerReturns, Delivers, Told
  <2>0. place'["dispatcher"] = "idle" /\ place'["serviceMain"] = place["serviceMain"]
    BY DEF TypeOK
  <2>a. carried'["main"] = carried["main"]
    BY DEF TypeOK, Reporters, Threads
  <2>1. EarlyInv'
    BY <2>0 DEF EarlyInv, NoneInFlight
  <2>2. StartInv'
    BY <2>0 DEF EarlyInv, StartInv, NoneInFlight, InFlight, Startup
  <2>3. ControlInv'
    BY <2>0 DEF EarlyInv, StartInv, ControlInv, StatusInv, EndInv, Started, NoneInFlight, InFlight, Event, Startup
  <2>4. EndInv'
    BY <2>0 DEF EarlyInv, StartInv, EndInv, StatusInv, ControlInv, Started, InFlight, NoneInFlight
  <2>5. StatusInv'
    BY <2>0, <2>a DEF EarlyInv, StartInv, StatusInv, ControlInv, EndInv, Started, PendingState, InFlight, NoneInFlight
  <2> QED BY <2>1, <2>2, <2>3, <2>4, <2>5
<1>6. CASE HandlerSkipsReport(D)
  <2> USE <1>0, <1>6 DEF HandlerSkipsReport, HandlerReturns
  <2>0. place'["dispatcher"] = "idle" /\ place'["serviceMain"] = place["serviceMain"]
    BY DEF TypeOK
  <2>1. EarlyInv'
    BY <2>0 DEF EarlyInv, NoneInFlight
  <2>2. StartInv'
    BY <2>0 DEF EarlyInv, StartInv, NoneInFlight, InFlight, Startup
  <2>3. ControlInv'
    BY <2>0 DEF EarlyInv, StartInv, ControlInv, StatusInv, EndInv, Started, NoneInFlight, InFlight, Event, Startup
  <2>4. EndInv'
    BY <2>0 DEF EarlyInv, StartInv, EndInv, StatusInv, ControlInv, Started, InFlight, NoneInFlight
  <2>5. StatusInv'
    BY <2>0 DEF EarlyInv, StartInv, StatusInv, ControlInv, EndInv, Started, PendingState, InFlight, NoneInFlight
  <2> QED BY <2>1, <2>2, <2>3, <2>4, <2>5
<1>7. CASE Connect
  <2> USE <1>0, <1>7 DEF Connect
  <2>0. place'["dispatcher"] = "idle" /\ place'["serviceMain"] = place["serviceMain"]
    BY DEF TypeOK
  <2>1. EarlyInv'
    BY <2>0 DEF EarlyInv, NoneInFlight
  <2>2. StartInv'
    BY <2>0 DEF EarlyInv, StartInv, NoneInFlight, InFlight, Startup
  <2>3. ControlInv'
    BY <2>0 DEF EarlyInv, StartInv, ControlInv, StatusInv, EndInv, Started, NoneInFlight, InFlight, Event, Startup
  <2>4. EndInv'
    BY <2>0 DEF EarlyInv, StartInv, EndInv, StatusInv, ControlInv, Started, InFlight, NoneInFlight
  <2>5. StatusInv'
    BY <2>0 DEF EarlyInv, StartInv, StatusInv, ControlInv, EndInv, Started, PendingState, InFlight, NoneInFlight
  <2> QED BY <2>1, <2>2, <2>3, <2>4, <2>5
<1>8. CASE ConnectFails
  <2> USE <1>0, <1>8 DEF ConnectFails
  <2>0. place'["dispatcher"] = "refused" /\ place'["serviceMain"] = place["serviceMain"]
    BY DEF TypeOK
  <2>1. EarlyInv'
    BY <2>0 DEF EarlyInv, NoneInFlight
  <2>2. StartInv'
    BY <2>0 DEF EarlyInv, StartInv, NoneInFlight, InFlight, Startup
  <2>3. ControlInv'
    BY <2>0 DEF EarlyInv, StartInv, ControlInv, StatusInv, EndInv, Started, NoneInFlight, InFlight, Event, Startup
  <2>4. EndInv'
    BY <2>0 DEF EarlyInv, StartInv, EndInv, StatusInv, ControlInv, Started, InFlight, NoneInFlight
  <2>5. StatusInv'
    BY <2>0 DEF EarlyInv, StartInv, StatusInv, ControlInv, EndInv, Started, PendingState, InFlight, NoneInFlight
  <2> QED BY <2>1, <2>2, <2>3, <2>4, <2>5
<1>9. CASE DispatcherReturns
  <2> USE <1>0, <1>9 DEF DispatcherReturns
  <2>0. place'["dispatcher"] = "ended" /\ place'["serviceMain"] = place["serviceMain"]
    BY DEF TypeOK
  <2>1. EarlyInv'
    BY <2>0 DEF EarlyInv, NoneInFlight
  <2>2. StartInv'
    BY <2>0 DEF EarlyInv, StartInv, NoneInFlight, InFlight, Startup
  <2>3. ControlInv'
    BY <2>0 DEF EarlyInv, StartInv, ControlInv, StatusInv, EndInv, Started, NoneInFlight, InFlight, Event, Startup
  <2>4. EndInv'
    BY <2>0 DEF EarlyInv, StartInv, EndInv, StatusInv, ControlInv, Started, InFlight, NoneInFlight
  <2>5. StatusInv'
    BY <2>0 DEF EarlyInv, StartInv, StatusInv, ControlInv, EndInv, Started, PendingState, InFlight, NoneInFlight
  <2> QED BY <2>1, <2>2, <2>3, <2>4, <2>5
<1> QED
  BY <1>1, <1>2, <1>3, <1>4, <1>5, <1>6, <1>7, <1>8, <1>9, <1>10 DEF Thread, Handler

\* The thread of serviceMain, unless its report has just been overtaken.
LEMMA ServiceMainServer ==
  ASSUME TypeOK, ServerInv, Thread("serviceMain"), ~overtaken'
  PROVE  ServerInv'
<1> DEFINE S == "serviceMain"
<1>0. S \in Threads /\ "dispatcher" \in Threads /\ Code(S) = "startup"
  BY DEF Threads, Code
<1> USE DEF ServerInv, Goes, mainVars, objectVars, semVars, stateVars, recordVars, historyVars, scmVars
<1>1. CASE HandlerPosts(S)
  <2> USE <1>0, <1>1 DEF HandlerPosts, SetStatus, Told, PendingState
  <2>0. place'["serviceMain"] = "wait" /\ place'["dispatcher"] = place["dispatcher"]
    BY DEF TypeOK
  <2>1. EarlyInv'
    BY <2>0 DEF EarlyInv, NoneInFlight
  <2>2. StartInv'
    BY <2>0 DEF EarlyInv, StartInv, NoneInFlight, InFlight, Startup
  <2>3. ControlInv'
    BY <2>0 DEF EarlyInv, StartInv, ControlInv, StatusInv, EndInv, Started, NoneInFlight, InFlight, Event, Startup
  <2>4. EndInv'
    BY <2>0 DEF EarlyInv, StartInv, EndInv, StatusInv, ControlInv, Started, InFlight, NoneInFlight
  <2>5. StatusInv'
    BY <2>0 DEF EarlyInv, StartInv, StatusInv, ControlInv, EndInv, Started, PendingState, InFlight, NoneInFlight
  <2> QED BY <2>1, <2>2, <2>3, <2>4, <2>5
<1>2. ~HandlerInterrogates(S)
  BY <1>0 DEF HandlerInterrogates
<1>3. CASE HandlerWoken(S)
  <2> USE <1>0, <1>3 DEF HandlerWoken, SetStatus, Told, FinalState
  <2>0. place'["serviceMain"] = "report" /\ place'["dispatcher"] = place["dispatcher"]
    BY DEF TypeOK
  <2>1. EarlyInv'
    BY <2>0 DEF EarlyInv, NoneInFlight
  <2>2. StartInv'
    BY <2>0 DEF EarlyInv, StartInv, NoneInFlight, InFlight, Startup
  <2>3. ControlInv'
    BY <2>0 DEF EarlyInv, StartInv, ControlInv, StatusInv, EndInv, Started, NoneInFlight, InFlight, Event, Startup
  <2>4. EndInv'
    BY <2>0 DEF EarlyInv, StartInv, EndInv, StatusInv, ControlInv, Started, InFlight, NoneInFlight
  <2>5. StatusInv'
    BY <2>0 DEF EarlyInv, StartInv, StatusInv, ControlInv, EndInv, Started, PendingState, InFlight, NoneInFlight
  <2> QED BY <2>1, <2>2, <2>3, <2>4, <2>5
<1>4. CASE HandlerLooks(S)
  <2> USE <1>0, <1>4 DEF HandlerLooks
  <2>0. place'["serviceMain"] = "read" /\ place'["dispatcher"] = place["dispatcher"]
    BY DEF TypeOK
  <2>1. EarlyInv'
    BY <2>0 DEF EarlyInv, NoneInFlight
  <2>2. StartInv'
    BY <2>0 DEF EarlyInv, StartInv, NoneInFlight, InFlight, Startup
  <2>3. ControlInv'
    BY <2>0 DEF EarlyInv, StartInv, ControlInv, StatusInv, EndInv, Started, NoneInFlight, InFlight, Event, Startup
  <2>4. EndInv'
    BY <2>0 DEF EarlyInv, StartInv, EndInv, StatusInv, ControlInv, Started, InFlight, NoneInFlight
  <2>5. StatusInv'
    BY <2>0 DEF EarlyInv, StartInv, StatusInv, ControlInv, EndInv, Started, PendingState, InFlight, NoneInFlight
  <2> QED BY <2>1, <2>2, <2>3, <2>4, <2>5
<1>10. CASE HandlerReads(S)
  <2> USE <1>0, <1>10 DEF HandlerReads, Reads, recordVars
  <2>0. place'["serviceMain"] = "send" /\ place'["dispatcher"] = place["dispatcher"]
    BY DEF TypeOK
  <2>a. carried'["dispatcher"] = carried["dispatcher"] /\ carried'["main"] = carried["main"]
    BY DEF TypeOK, Reporters, Threads
  <2>1. EarlyInv'
    BY <2>0 DEF EarlyInv, NoneInFlight
  <2>2. StartInv'
    BY <2>0 DEF EarlyInv, StartInv, NoneInFlight, InFlight, Startup
  <2>3. ControlInv'
    BY <2>0 DEF EarlyInv, StartInv, ControlInv, StatusInv, EndInv, Started, NoneInFlight, InFlight, Event, Startup
  <2>4. EndInv'
    BY <2>0 DEF EarlyInv, StartInv, EndInv, StatusInv, ControlInv, Started, InFlight, NoneInFlight
  <2>5. StatusInv'
    BY <2>0, <2>a DEF EarlyInv, StartInv, StatusInv, ControlInv, EndInv, Started, PendingState, InFlight, NoneInFlight
  <2> QED BY <2>1, <2>2, <2>3, <2>4, <2>5
<1>5. CASE HandlerReports(S)
  <2> USE <1>0, <1>5 DEF HandlerReports, HandlerReturns, Delivers, Told
  <2>0. place'["serviceMain"] = "ended" /\ place'["dispatcher"] = place["dispatcher"]
    BY DEF TypeOK
  <2>a. /\ carried[S] = status
        /\ carried'["dispatcher"] = carried["dispatcher"] /\ carried'["main"] = carried["main"]
    BY DEF TypeOK, Reporters, Threads
  <2>1. EarlyInv'
    BY <2>0, <2>a DEF EarlyInv, NoneInFlight
  <2>2. StartInv'
    BY <2>0, <2>a DEF EarlyInv, StartInv, NoneInFlight, InFlight, Startup
  <2>3. ControlInv'
    BY <2>0, <2>a DEF EarlyInv, StartInv, ControlInv, StatusInv, EndInv, Started, NoneInFlight, InFlight, Event, Startup
  <2>4. EndInv'
    BY <2>0, <2>a DEF EarlyInv, StartInv, EndInv, StatusInv, ControlInv, Started, InFlight, NoneInFlight
  <2>5. StatusInv'
    BY <2>0, <2>a DEF EarlyInv, StartInv, StatusInv, ControlInv, EndInv, Started, PendingState, InFlight, NoneInFlight
  <2> QED BY <2>1, <2>2, <2>3, <2>4, <2>5
<1>6. CASE HandlerSkipsReport(S)
  <2> USE <1>0, <1>6 DEF HandlerSkipsReport, HandlerReturns
  <2>0. place'["serviceMain"] = "ended" /\ place'["dispatcher"] = place["dispatcher"]
    BY DEF TypeOK
  <2>1. EarlyInv'
    BY <2>0 DEF EarlyInv, NoneInFlight
  <2>2. StartInv'
    BY <2>0 DEF EarlyInv, StartInv, NoneInFlight, InFlight, Startup
  <2>3. ControlInv'
    BY <2>0 DEF EarlyInv, StartInv, ControlInv, StatusInv, EndInv, Started, NoneInFlight, InFlight, Event, Startup
  <2>4. EndInv'
    BY <2>0 DEF EarlyInv, StartInv, EndInv, StatusInv, ControlInv, Started, InFlight, NoneInFlight
  <2>5. StatusInv'
    BY <2>0 DEF EarlyInv, StartInv, StatusInv, ControlInv, EndInv, Started, PendingState, InFlight, NoneInFlight
  <2> QED BY <2>1, <2>2, <2>3, <2>4, <2>5
<1>7. CASE ServiceMain
  <2> USE <1>0, <1>7 DEF ServiceMain
  <2>0. place'["serviceMain"] = "acquire" /\ place'["dispatcher"] = place["dispatcher"]
    BY DEF TypeOK
  <2>1. EarlyInv'
    BY <2>0 DEF EarlyInv, NoneInFlight
  <2>2. StartInv'
    BY <2>0 DEF EarlyInv, StartInv, NoneInFlight, InFlight, Startup
  <2>3. ControlInv'
    BY <2>0 DEF EarlyInv, StartInv, ControlInv, StatusInv, EndInv, Started, NoneInFlight, InFlight, Event, Startup
  <2>4. EndInv'
    BY <2>0 DEF EarlyInv, StartInv, EndInv, StatusInv, ControlInv, Started, InFlight, NoneInFlight
  <2>5. StatusInv'
    BY <2>0 DEF EarlyInv, StartInv, StatusInv, ControlInv, EndInv, Started, PendingState, InFlight, NoneInFlight
  <2> QED BY <2>1, <2>2, <2>3, <2>4, <2>5
<1>8. CASE Register
  <2> USE <1>0, <1>8 DEF Register
  <2>0. place'["serviceMain"] = "enter" /\ place'["dispatcher"] = place["dispatcher"]
    BY DEF TypeOK
  <2>1. EarlyInv'
    BY <2>0 DEF EarlyInv, NoneInFlight
  <2>2. StartInv'
    BY <2>0 DEF EarlyInv, StartInv, NoneInFlight, InFlight, Startup
  <2>3. ControlInv'
    BY <2>0 DEF EarlyInv, StartInv, ControlInv, StatusInv, EndInv, Started, NoneInFlight, InFlight, Event, Startup
  <2>4. EndInv'
    BY <2>0 DEF EarlyInv, StartInv, EndInv, StatusInv, ControlInv, Started, InFlight, NoneInFlight
  <2>5. StatusInv'
    BY <2>0 DEF EarlyInv, StartInv, StatusInv, ControlInv, EndInv, Started, PendingState, InFlight, NoneInFlight
  <2> QED BY <2>1, <2>2, <2>3, <2>4, <2>5
<1> QED
  BY <1>1, <1>2, <1>3, <1>4, <1>5, <1>6, <1>7, <1>8, <1>10 DEF Thread, Handler

\* The SCM admits a control while the service runs or is paused, and its main thread
\* waits for events.
LEMMA AdmittedWhile ==
  ASSUME TypeOK, ServerInv, NEW code, Admits(code), process = "up", place["dispatcher"] = "idle"
  PROVE  /\ Started /\ NoneInFlight /\ main = "loop" /\ ~quit
         /\ reported = status /\ status \in {"running", "paused"}
<1>1. reported \in {"running", "paused", "pause_pending", "continue_pending"} /\ ~shutdown
  BY DEF TypeOK, States, Admits, Seen
<1>2. Started
  BY <1>1 DEF ServerInv, EarlyInv, StartInv, TypeOK, Threads, Started
<1>3. NoneInFlight /\ ~quit
  BY <1>1, <1>2 DEF ServerInv, ControlInv, EndInv
<1>4. main = "loop"
  BY <1>2, <1>3 DEF ServerInv, EndInv, NoneInFlight, TypeOK
<1>5. reported = status
  BY <1>2, <1>4 DEF ServerInv, StatusInv
<1>6. reported \notin {"pause_pending", "continue_pending"}
  BY <1>2 DEF ServerInv, StatusInv, PendingState
<1> QED BY <1>1, <1>2, <1>3, <1>4, <1>5, <1>6

\* The SCM hands out a control, of its own or of a controller.
LEMMA ScmServer ==
  ASSUME TypeOK, AskedInv, ServerInv,
         Interrogate \/ SystemShutdown \/ \E c \in Controllers : Deliver(c)
  PROVE  ServerInv'
<1>0. "dispatcher" \in Threads /\ "serviceMain" \in Threads
  BY DEF Threads
<1> USE DEF ServerInv, Goes, ScmControl, mainVars, objectVars, semVars, stateVars, recordVars, historyVars, scmVars
<1>1. CASE Interrogate
  <2> USE <1>0, <1>1 DEF Interrogate, Admits, Seen
  <2>0. place'["dispatcher"] = "enter" /\ place'["serviceMain"] = place["serviceMain"]
    BY DEF TypeOK
  <2>1. EarlyInv'
    BY <2>0 DEF EarlyInv, NoneInFlight
  <2>2. StartInv'
    BY <2>0 DEF EarlyInv, StartInv, NoneInFlight, InFlight, Startup
  <2>3. ControlInv'
    <3>1. /\ Started /\ NoneInFlight /\ main = "loop" /\ ~quit
          /\ reported = status /\ status \in {"running", "paused"}
      BY AdmittedWhile
    <3> QED
      BY <2>0, <3>1 DEF ControlInv, Started, NoneInFlight
  <2>4. EndInv'
    BY <2>0 DEF EarlyInv, StartInv, EndInv, StatusInv, ControlInv, Started, InFlight, NoneInFlight
  <2>5. StatusInv'
    BY <2>0 DEF EarlyInv, StartInv, StatusInv, ControlInv, EndInv, Started, PendingState, InFlight, NoneInFlight
  <2> QED BY <2>1, <2>2, <2>3, <2>4, <2>5
<1>2. CASE SystemShutdown
  <2> USE <1>0, <1>2 DEF SystemShutdown, Admits, Seen
  <2>0. place'["dispatcher"] = "enter" /\ place'["serviceMain"] = place["serviceMain"]
    BY DEF TypeOK
  <2>1. EarlyInv'
    BY <2>0 DEF EarlyInv, NoneInFlight
  <2>2. StartInv'
    BY <2>0 DEF EarlyInv, StartInv, NoneInFlight, InFlight, Startup
  <2>3. ControlInv'
    <3>1. /\ Started /\ NoneInFlight /\ main = "loop" /\ ~quit
          /\ reported = status /\ status \in {"running", "paused"}
      BY AdmittedWhile
    <3> QED
      BY <2>0, <3>1 DEF ControlInv, Started, NoneInFlight
  <2>4. EndInv'
    BY <2>0 DEF EarlyInv, StartInv, EndInv, StatusInv, ControlInv, Started, InFlight, NoneInFlight
  <2>5. StatusInv'
    BY <2>0 DEF EarlyInv, StartInv, StatusInv, ControlInv, EndInv, Started, PendingState, InFlight, NoneInFlight
  <2> QED BY <2>1, <2>2, <2>3, <2>4, <2>5
<1>3. ASSUME NEW c \in Controllers, Deliver(c)
      PROVE  ServerInv'
  <2> USE <1>0, <1>3 DEF Deliver, Admits, Seen, ServerUnchanged
  <2>a. control'.code \in Requests
    BY DEF AskedInv
  <2>0. place'["dispatcher"] = "enter" /\ place'["serviceMain"] = place["serviceMain"]
    BY DEF TypeOK
  <2>1. EarlyInv'
    BY <2>0, <2>a DEF EarlyInv, NoneInFlight
  <2>2. StartInv'
    BY <2>0, <2>a DEF EarlyInv, StartInv, NoneInFlight, InFlight, Startup
  <2>3. ControlInv'
    <3>1. /\ Started /\ NoneInFlight /\ main = "loop" /\ ~quit
          /\ reported = status /\ status \in {"running", "paused"}
      BY AdmittedWhile
    <3> QED
      BY <2>0, <2>a, <3>1 DEF ControlInv, Started, NoneInFlight, Requests
  <2>4. EndInv'
    BY <2>0, <2>a DEF EarlyInv, StartInv, EndInv, StatusInv, ControlInv, Started, InFlight, NoneInFlight
  <2>5. StatusInv'
    BY <2>0, <2>a DEF EarlyInv, StartInv, StatusInv, ControlInv, EndInv, Started, PendingState, Requests, InFlight, NoneInFlight
  <2> QED BY <2>1, <2>2, <2>3, <2>4, <2>5
<1> QED BY <1>1, <1>2, <1>3

-----------------------------------------------------------------------------
(* The invariant.                                                            *)

\* No service has been started yet.
LEMMA Initial ==
  ASSUME Init
  PROVE  WInv
<1> USE DEF Init
<1>1. TypeOK
  <2>1. polls \in [Controllers -> 0..MaxPolls]
    BY WinAssumption
  <2>2. control \in [code : Codes, from : Controllers \cup {NoController}]
    BY DEF Codes
  <2>3. queue \in Seq(Events)
    OBVIOUS
  <2>4. status \in States /\ reported \in States
    BY DEF States
  <2>5. carried \in [Reporters -> States \cup {"none"}]
    BY DEF Reporters, Threads
  <2> QED BY <2>1, <2>2, <2>3, <2>4, <2>5 DEF TypeOK
<1>2. place["dispatcher"] = "connect" /\ place["serviceMain"] = "off"
  BY DEF Threads
<1>3. AskedInv /\ CarriedInv
  BY DEF AskedInv, CarriedInv
<1>4. ServerInv /\ OvertakenInv
  BY <1>2 DEF ServerInv, EarlyInv, StartInv, ControlInv, EndInv, StatusInv, OvertakenInv, Started,
     NoneInFlight
<1>5. DanglingNeedsLateThread
  BY DEF DanglingNeedsLateThread
<1> QED BY <1>1, <1>3, <1>4, <1>5 DEF WInv, BaseInv

\* A step of the server's threads or of the SCM does not concern who asks.
LEMMA AskedStep ==
  ASSUME AskedInv, TypeOK, [Next]_vars
  PROVE  AskedInv'
<1> SUFFICES ASSUME NEW c \in Controllers, cpc'[c] = "asking"
             PROVE  cmd'[c] \in Requests
  BY DEF AskedInv
<1> USE DEF AskedInv, TypeOK
<1>1. CASE Main \/ SensorCrash \/ \E t \in Threads : HandlerDangles(t)
  <2>1. UNCHANGED <<cpc, cmd>>
    BY <1>1 DEF Main, Acquired, AcquireTimesOut, CreateApplication, TakeEvent, Operate, OperationExits,
       Notify, LoopEnd, SetStopped, ReadStopped, TellStopped, Join, MainReturns, SensorCrash,
       HandlerDangles, MainGoes, ProcessEnds, clientVars
  <2> QED BY <2>1
<1>2. ASSUME NEW t \in Threads, Thread(t)
      PROVE  cmd'[c] \in Requests
  <2>1. cmd' = cmd /\ (cpc' = cpc \/ \E from : HandlerReturns(t, from))
    BY <1>2 DEF Thread, Handler, HandlerPosts, HandlerInterrogates, HandlerWoken, HandlerLooks,
       HandlerReads, HandlerReports, HandlerSkipsReport, Connect, ConnectFails, DispatcherReturns,
       ServiceMain, Register, Goes, HandlerReturns
  <2>2. cpc[c] = "asking"
    BY <2>1 DEF HandlerReturns
  <2> QED BY <2>1, <2>2
<1>3. CASE Interrogate \/ SystemShutdown
  BY <1>3 DEF Interrogate, SystemShutdown, ScmControl, Goes
<1>4. ASSUME NEW d \in Controllers, Controller(d)
      PROVE  cmd'[c] \in Requests
  BY <1>4 DEF Controller, Deliver, ControlFails, ControlSucceeds, StopSeen, StopNotYet,
     StopGivesUp, Returns, Goes
<1>5. ASSUME NEW d \in Controllers, NEW code \in Requests, Ask(d, code)
      PROVE  cmd'[c] \in Requests
  BY <1>5 DEF Ask
<1>6. CASE Over \/ UNCHANGED vars
  BY <1>6 DEF Over, vars, clientVars
<1> QED BY <1>1, <1>2, <1>3, <1>4, <1>5, <1>6 DEF Next

\* A thread comes to deliver only by reading, and what it has read is a state.
LEMMA CarriedStep ==
  ASSUME CarriedInv, TypeOK, [Next]_vars
  PROVE  CarriedInv'
<1> USE DEF CarriedInv
<1>0. "none" \notin States /\ "main" \notin Threads /\ "main" \in Reporters /\ Threads \subseteq Reporters
  BY DEF States, Threads, Reporters
<1>1. CASE Main
  <2>1. CASE ReadStopped
    BY <1>0, <2>1 DEF ReadStopped, Reads, MainGoes, TypeOK
  <2>2. CASE TellStopped
    BY <1>0, <2>2 DEF TellStopped, Delivers, MainGoes, TypeOK
  <2>3. CASE ~ReadStopped /\ ~TellStopped
    <3>1. carried' = carried /\ (main' = main \/ main' # "send")
      BY <1>1, <2>3 DEF Main, Acquired, AcquireTimesOut, CreateApplication, TakeEvent, Operate,
         OperationExits, Notify, LoopEnd, SetStopped, Join, MainReturns, MainGoes, ProcessEnds,
         mainVars, stateVars
    <3>2. \A t \in Threads : place'[t] = "send" => place[t] = "send"
      BY <1>1, <2>3 DEF Main, Acquired, AcquireTimesOut, CreateApplication, TakeEvent, Operate,
         OperationExits, Notify, LoopEnd, SetStopped, Join, MainReturns, MainGoes, ProcessEnds, TypeOK
    <3> QED BY <3>1, <3>2
  <2> QED BY <2>1, <2>2, <2>3
<1>2. ASSUME NEW t \in Threads, Thread(t)
      PROVE  CarriedInv'
  <2>1. main' = main /\ (\A u \in Threads \ {t} : place'[u] = place[u])
    BY <1>2 DEF Thread, Handler, HandlerPosts, HandlerInterrogates, HandlerWoken, HandlerLooks,
       HandlerReads, HandlerReports, HandlerSkipsReport, HandlerReturns, Connect, ConnectFails,
       DispatcherReturns, ServiceMain, Register, Goes, mainVars, TypeOK
  <2>2. CASE HandlerReads(t)
    BY <1>0, <2>1, <2>2 DEF HandlerReads, Reads, TypeOK
  <2>3. CASE HandlerReports(t)
    <3>1. place'[t] # "send"
      BY <2>3 DEF HandlerReports, HandlerReturns, Goes, TypeOK
    <3> QED BY <1>0, <2>1, <2>3, <3>1 DEF HandlerReports, Delivers, TypeOK
  <2>4. CASE ~HandlerReads(t) /\ ~HandlerReports(t)
    <3>1. carried' = carried /\ place'[t] # "send"
      BY <1>2, <2>4 DEF Thread, Handler, HandlerPosts, HandlerInterrogates, HandlerWoken, HandlerLooks,
         HandlerSkipsReport, HandlerReturns, Connect, ConnectFails, DispatcherReturns, ServiceMain,
         Register, Goes, SetStatus, stateVars, TypeOK
    <3> QED BY <2>1, <3>1
  <2> QED BY <2>2, <2>3, <2>4
<1>3. ASSUME NEW c \in Controllers, Controller(c) \/ \E code \in Requests : Ask(c, code)
      PROVE  CarriedInv'
  BY <1>3 DEF Controller, Deliver, Ask, ControlFails, ControlSucceeds, StopSeen, StopNotYet,
     StopGivesUp, Returns, Goes, ServerUnchanged, mainVars, stateVars, TypeOK
<1>4. CASE Interrogate \/ SystemShutdown
  BY <1>4 DEF Interrogate, SystemShutdown, ScmControl, Goes, mainVars, stateVars, TypeOK
<1>5. CASE SensorCrash \/ \E t \in Threads : HandlerDangles(t)
  BY <1>5 DEF SensorCrash, HandlerDangles, ProcessEnds, mainVars, stateVars
<1>6. CASE Over \/ UNCHANGED vars
  BY <1>6 DEF Over, vars, mainVars, stateVars
<1> QED BY <1>1, <1>2, <1>3, <1>4, <1>5, <1>6 DEF Next

-----------------------------------------------------------------------------
(* The report of the start-up, once it has been overtaken.                   *)

\* Only the report of the start-up is overtaken, and it stays so.
LEMMA OvertakenMoves ==
  ASSUME TypeOK, [Next]_vars
  PROVE  \/ overtaken' = overtaken
         \/ HandlerReports("serviceMain") /\ (overtaken => overtaken')
<1>1. CASE Main \/ SensorCrash
  <2>1. CASE TellStopped
    BY <2>1 DEF TellStopped, Delivers, TypeOK
  <2>2. CASE ~TellStopped
    BY <1>1, <2>2 DEF Main, Acquired, AcquireTimesOut, CreateApplication, TakeEvent, Operate,
       OperationExits, Notify, LoopEnd, SetStopped, ReadStopped, Join, MainReturns, SensorCrash,
       MainGoes, ProcessEnds, Reads, stateVars
  <2> QED BY <2>1, <2>2
<1>2. ASSUME NEW t \in Threads, Thread(t)
      PROVE  \/ overtaken' = overtaken
             \/ HandlerReports("serviceMain") /\ (overtaken => overtaken')
  <2>1. CASE HandlerReports(t)
    BY <2>1 DEF HandlerReports, Delivers, TypeOK
  <2>2. CASE ~HandlerReports(t)
    BY <1>2, <2>2 DEF Thread, Handler, HandlerPosts, HandlerInterrogates, HandlerWoken, HandlerLooks,
       HandlerReads, Reads, HandlerSkipsReport, Connect, ConnectFails, DispatcherReturns, ServiceMain,
       Register, SetStatus, stateVars
  <2> QED BY <2>1, <2>2
<1>3. ASSUME NEW t \in Threads, HandlerDangles(t)
      PROVE  overtaken' = overtaken
  BY <1>3 DEF HandlerDangles, ProcessEnds, stateVars
<1>4. CASE Interrogate \/ SystemShutdown
  BY <1>4 DEF Interrogate, SystemShutdown, ScmControl, stateVars
<1>5. ASSUME NEW c \in Controllers, Controller(c) \/ \E code \in Requests : Ask(c, code)
      PROVE  overtaken' = overtaken
  BY <1>5 DEF Controller, Deliver, Ask, ControlFails, ControlSucceeds, StopSeen, StopNotYet,
     StopGivesUp, Returns, ServerUnchanged, stateVars
<1>6. CASE Over \/ UNCHANGED vars
  BY <1>6 DEF Over, vars, stateVars
<1> QED BY <1>1, <1>2, <1>3, <1>4, <1>5, <1>6 DEF Next

\* The main thread handles the event of the dispatcher, if there is one.
LEMMA MainStarted ==
  ASSUME TypeOK, OvertakenInv, Started, Main
  PROVE  OvertakenInv'
<1> USE DEF OvertakenInv, MainGoes, objectVars, semVars, stateVars, historyVars, scmVars
<1>0. "dispatcher" \in Threads /\ "serviceMain" \in Threads
  BY DEF Threads
<1>1. ~Acquired /\ ~AcquireTimesOut /\ ~CreateApplication
  BY DEF Acquired, AcquireTimesOut, CreateApplication
<1>2. CASE TakeEvent
  <2>1. place["dispatcher"] = "wait" /\ queue = <<Event>>
    BY <1>2 DEF TakeEvent, NoneInFlight, Handles
  <2>2. running' = Event /\ queue' = <<>> /\ main' = "event"
    BY <1>2, <2>1 DEF TakeEvent
  <2> QED BY <1>2, <2>1, <2>2 DEF TakeEvent, Started, Handles, Event
<1>3. CASE Operate
  <2>1. place["dispatcher"] = "wait" /\ running = Event /\ queue = <<>>
    BY <1>3 DEF Operate, NoneInFlight, Handles
  <2> QED BY <1>3, <2>1 DEF Operate, Started, Handles, Event
<1>4. CASE Notify
  <2>1. place["dispatcher"] = "wait" /\ running = Event /\ queue = <<>> /\ "dispatcher" \in done
    BY <1>4 DEF Notify, NoneInFlight, Handles, Event
  <2>2. place'["dispatcher"] = "relock" /\ place'["serviceMain"] = place["serviceMain"]
    BY <1>0, <1>4, <2>1 DEF Notify, Started
  <2> QED BY <1>4, <2>1, <2>2 DEF Notify, Started, NoneInFlight
<1>5. CASE LoopEnd \/ SetStopped \/ ReadStopped \/ TellStopped
  <2>1. /\ UNCHANGED <<running, quit, queue, objectVars, place, control, done>>
        /\ overtaken' = overtaken
        /\ main \in {"loop", "stopped", "tell", "send"}
        /\ main' \in {"stopped", "tell", "send", "join"}
    BY <1>5 DEF LoopEnd, SetStopped, ReadStopped, TellStopped, Reads, Delivers, TypeOK
  <2>2. place["dispatcher"] = "wait" => running = NoEvent
    BY <2>1 DEF Handles
  <2> QED BY <2>1, <2>2 DEF Started, NoneInFlight, Handles
<1>6. CASE Join
  BY <1>6 DEF Join, Started, NoneInFlight, Handles
<1>7. CASE OperationExits \/ MainReturns
  BY <1>7 DEF OperationExits, MainReturns, ProcessEnds, mainVars, Started, NoneInFlight, Handles, Event
<1> QED BY <1>1, <1>2, <1>3, <1>4, <1>5, <1>6, <1>7 DEF Main

\* The dispatcher posts one event and waits until it has been handled.
LEMMA ThreadStarted ==
  ASSUME TypeOK, OvertakenInv, Started, NEW t \in Threads, Thread(t)
  PROVE  OvertakenInv'
<1> USE DEF OvertakenInv, Goes, mainVars, objectVars, semVars, stateVars, historyVars, scmVars
<1>0. "dispatcher" \in Threads /\ "serviceMain" \in Threads
  BY DEF Threads
<1>1. CASE t = "serviceMain"
  <2>1. /\ Started'
        /\ place'["dispatcher"] = place["dispatcher"]
        /\ UNCHANGED <<main, running, quit, queue, objectVars, control, done>>
    BY <1>0, <1>1 DEF Thread, Handler, HandlerPosts, HandlerInterrogates, HandlerWoken, HandlerLooks,
       HandlerReads, HandlerReports, HandlerSkipsReport, HandlerReturns, ServiceMain, Register,
       Started, TypeOK
  <2> QED BY <2>1 DEF NoneInFlight, Handles, Event
<1>2. CASE t = "dispatcher"
  <2>1. place'["serviceMain"] = place["serviceMain"] /\ Started' /\ Code(t) = control.code
    BY <1>0, <1>2 DEF Thread, Handler, HandlerPosts, HandlerInterrogates, HandlerWoken, HandlerLooks,
       HandlerReads, HandlerReports, HandlerSkipsReport, HandlerReturns, Connect, ConnectFails,
       DispatcherReturns, Started, TypeOK, Code
  <2>2. CASE HandlerPosts(t)
    <3>1. place["dispatcher"] = "enter" /\ place'["dispatcher"] = "wait" /\ overtaken' = overtaken
      BY <1>0, <1>2, <2>2 DEF HandlerPosts, SetStatus, TypeOK
    <3>2. queue' = <<Event>> /\ running' = NoEvent /\ control' = control
      BY <1>2, <2>1, <2>2, <3>1 DEF HandlerPosts, NoneInFlight, Event
    <3>3. main' \in {"loop", "stopped", "tell", "send", "join", "over"}
      BY <2>2, <3>1 DEF HandlerPosts, NoneInFlight, TypeOK
    <3>4. done' = done \ {"dispatcher"} /\ UNCHANGED <<late, sysd>>
      BY <1>2, <2>2 DEF HandlerPosts
    <3>5. control.code # "interrogate" /\ control.code # "startup"
      BY <2>1, <2>2, <3>1 DEF HandlerPosts
    <3>6. Handles(Event)'
      BY <3>2, <3>3 DEF Handles, Event
    <3> QED BY <2>1, <3>1, <3>2, <3>3, <3>4, <3>5, <3>6
  <2>3. CASE HandlerInterrogates(t) \/ HandlerWoken(t) \/ HandlerLooks(t) \/ HandlerReads(t)
    <3>1. /\ place["dispatcher"] \in {"enter", "relock", "report", "read"}
          /\ place["dispatcher"] = "enter" => control.code = "interrogate"
          /\ place'["dispatcher"] \in {"report", "read", "send"}
          /\ UNCHANGED <<main, running, queue, late, sysd, control, done, overtaken>>
      BY <1>0, <1>2, <2>1, <2>3 DEF HandlerInterrogates, HandlerWoken, HandlerLooks, HandlerReads,
         Reads, SetStatus, TypeOK
    <3> QED BY <2>1, <3>1 DEF NoneInFlight
  <2>4. CASE HandlerReports(t) \/ HandlerSkipsReport(t)
    <3>1. /\ place["dispatcher"] \in {"report", "send"}
          /\ place'["dispatcher"] = "idle"
          /\ UNCHANGED <<main, running, queue, late, sysd, done>>
      BY <1>0, <1>2, <2>4 DEF HandlerReports, HandlerSkipsReport, HandlerReturns, TypeOK
    <3> QED BY <2>1, <3>1 DEF NoneInFlight
  <2>5. CASE Connect \/ ConnectFails \/ DispatcherReturns
    <3>1. /\ place["dispatcher"] \in {"connect", "idle"}
          /\ place'["dispatcher"] \in {"idle", "refused", "ended"}
          /\ UNCHANGED <<main, running, queue, late, sysd, control, done, overtaken>>
      BY <1>0, <2>5 DEF Connect, ConnectFails, DispatcherReturns, TypeOK
    <3> QED BY <2>1, <3>1 DEF NoneInFlight
  <2> QED BY <1>2, <2>2, <2>3, <2>4, <2>5 DEF Thread, Handler
<1> QED BY <1>1, <1>2 DEF Threads

\* The dispatcher takes on a control only when it has no event, whatever admitted it.
LEMMA StartedStep ==
  ASSUME TypeOK, AskedInv, OvertakenInv, Started, [Next]_vars
  PROVE  OvertakenInv'
<1>0. "dispatcher" \in Threads /\ "serviceMain" \in Threads
  BY DEF Threads
<1> DEFINE Kept == UNCHANGED <<main, running, queue, late, sysd, place, control, done, overtaken>>
<1>1. Kept => OvertakenInv'
  BY DEF OvertakenInv, Started, NoneInFlight, Handles, Event
<1>2. ASSUME Goes("dispatcher", "idle", "enter"), control'.code # "startup",
             UNCHANGED <<main, running, queue, late, sysd, done, overtaken>>
      PROVE  OvertakenInv'
  <2>1. place["dispatcher"] = "idle" /\ place'["dispatcher"] = "enter"
        /\ place'["serviceMain"] = place["serviceMain"]
    BY <1>0, <1>2 DEF Goes, TypeOK
  <2> QED BY <1>2, <2>1 DEF OvertakenInv, Started, NoneInFlight
<1>3. CASE SensorCrash \/ \E t \in Threads : HandlerDangles(t)
  BY <1>1, <1>3 DEF SensorCrash, HandlerDangles, ProcessEnds, mainVars, objectVars, stateVars, scmVars,
     historyVars
<1>4. CASE Interrogate \/ SystemShutdown
  BY <1>2, <1>4 DEF Interrogate, SystemShutdown, ScmControl, Goes, mainVars, objectVars, stateVars
<1>5. ASSUME NEW c \in Controllers, Controller(c) \/ \E code \in Requests : Ask(c, code)
      PROVE  OvertakenInv'
  <2>1. CASE Deliver(c)
    <3>1. cmd[c] # "startup"
      BY <2>1 DEF Deliver, AskedInv, Requests
    <3> QED
      BY <1>2, <2>1, <3>1 DEF Deliver, ServerUnchanged, mainVars, objectVars, stateVars, historyVars
  <2>2. CASE ~Deliver(c)
    BY <1>1, <1>5, <2>2 DEF Controller, Ask, ControlFails, ControlSucceeds, StopSeen, StopNotYet,
       StopGivesUp, Returns, ServerUnchanged, mainVars, objectVars, stateVars, historyVars
  <2> QED BY <2>1, <2>2
<1>6. CASE Over \/ UNCHANGED vars
  BY <1>1, <1>6 DEF Over, vars, mainVars, objectVars, stateVars, scmVars, historyVars
<1> QED BY <1>3, <1>4, <1>5, <1>6, MainStarted, ThreadStarted DEF Next

-----------------------------------------------------------------------------
(* The invariant.                                                            *)

\* A thread that reports before the start-up is over is not the dispatcher, and the
\* QtServiceSysPrivate exists.
LEMMA SysdEarly ==
  ASSUME TypeOK, ServerInv, ~Started
  PROVE  /\ sysd
         /\ place["dispatcher"] \in {"relock", "report", "read", "send"} => control.code = "interrogate"
<1>1. place["serviceMain"] \in {"off", "acquire", "enter", "wait", "relock"}
  BY DEF ServerInv, EarlyInv, TypeOK, Threads, Started
<1> QED BY <1>1 DEF ServerInv, EarlyInv, StartInv

\* Of the steps that end the process, only those of a handler leave it dangling; of
\* the others none follows.
LEMMA DanglingStep ==
  ASSUME WInv, [Next]_vars
  PROVE  DanglingNeedsLateThread'
<1> USE DEF DanglingNeedsLateThread
<1>1. CASE process # "up"
  <2>1. UNCHANGED <<process, late, place>>
    <3>1. ~Main /\ ~SensorCrash /\ ~Interrogate /\ ~SystemShutdown
      BY <1>1 DEF Main, Acquired, AcquireTimesOut, CreateApplication, TakeEvent, Operate, OperationExits,
         Notify, LoopEnd, SetStopped, ReadStopped, TellStopped, Join, MainReturns, SensorCrash,
         MainGoes, ProcessEnds, Interrogate, SystemShutdown, ScmControl, Goes
    <3>2. \A t \in Threads : ~Thread(t) /\ ~HandlerDangles(t)
      BY <1>1 DEF Thread, Handler, HandlerPosts, HandlerInterrogates, HandlerWoken, HandlerLooks,
         HandlerReads, HandlerReports, HandlerSkipsReport, HandlerReturns, Connect, ConnectFails,
         DispatcherReturns, ServiceMain, Register, Goes, HandlerDangles, ProcessEnds
    <3>3. ASSUME NEW c \in Controllers, Controller(c) \/ \E code \in Requests : Ask(c, code)
          PROVE  UNCHANGED <<process, late, place>>
      BY <1>1, <3>3 DEF Controller, Deliver, Ask, ControlFails, ControlSucceeds, StopSeen, StopNotYet,
         StopGivesUp, Returns, Goes, ServerUnchanged, mainVars, objectVars
    <3>4. CASE Over \/ UNCHANGED vars
      BY <3>4 DEF Over, vars, mainVars, objectVars
    <3> QED BY <3>1, <3>2, <3>3, <3>4 DEF Next
  <2> QED BY <2>1 DEF WInv
<1>2. CASE process = "up"
  <2>1. ASSUME NEW t \in Threads, HandlerDangles(t)
        PROVE  late' \/ place'["serviceMain"] \in {"report", "read"}
    <3>1. UNCHANGED <<late, place>> /\ ~sysd /\ place[t] \in {"enter", "relock", "report", "read"}
      BY <2>1 DEF HandlerDangles, ProcessEnds, mainVars, objectVars
    <3>2. Started
      BY <3>1, SysdEarly DEF WInv, BaseInv, OvertakenInv
    <3>3. late \/ place["dispatcher"] = "ended"
      BY <3>1, <3>2 DEF WInv, BaseInv, OvertakenInv
    <3>4. t = "dispatcher" \/ t = "serviceMain"
      BY DEF Threads
    <3> QED BY <3>1, <3>2, <3>3, <3>4 DEF Started
  <2>2. ASSUME ~\E t \in Threads : HandlerDangles(t)
        PROVE  process' # "dangling"
    BY <1>2, <2>2 DEF Next, vars, Main, Acquired, AcquireTimesOut, CreateApplication, TakeEvent, Operate,
       OperationExits, Notify, LoopEnd, SetStopped, ReadStopped, TellStopped, Join, MainReturns,
       SensorCrash, MainGoes, ProcessEnds, Interrogate, SystemShutdown, ScmControl, Goes, Thread,
       Handler, HandlerPosts, HandlerInterrogates, HandlerWoken, HandlerLooks, HandlerReads,
       HandlerReports, HandlerSkipsReport, HandlerReturns, Connect, ConnectFails, DispatcherReturns,
       ServiceMain, Register, Controller, Deliver, Ask, ControlFails, ControlSucceeds, StopSeen,
       StopNotYet, StopGivesUp, Returns, ServerUnchanged, Over
  <2> QED BY <2>1, <2>2
<1> QED BY <1>1, <1>2

\* Every step keeps the types.
LEMMA TypeStep ==
  ASSUME WInv, [Next]_vars
  PROVE  TypeOK'
<1> USE DEF WInv, BaseInv
<1>1. CASE Main
  BY <1>1, MainTypes
<1>2. CASE SensorCrash
  BY <1>2 DEF SensorCrash, ProcessEnds, TypeOK, mainVars, objectVars, semVars, scmVars, clientVars,
     stateVars, recordVars, historyVars
<1>3. ASSUME NEW t \in Threads, Thread(t) \/ HandlerDangles(t)
      PROVE  TypeOK'
  BY <1>3, ThreadTypes
<1>4. CASE Interrogate \/ SystemShutdown
  <2>1. "dispatcher" \in Threads
    BY DEF Threads
  <2>2. PICK code \in {"interrogate", "shutdown"} : ScmControl(code)
    BY <1>4 DEF Interrogate, SystemShutdown
  <2>3. control' \in [code : Codes, from : Controllers \cup {NoController}]
    BY <2>2 DEF ScmControl, Codes
  <2>4. shutdown' \in BOOLEAN
    BY <1>4 DEF Interrogate, SystemShutdown, TypeOK
  <2> QED
    BY <2>1, <2>2, <2>3, <2>4, GoesMoves
    DEF ScmControl, Goes, TypeOK, mainVars, objectVars, semVars, stateVars, recordVars
<1>5. ASSUME NEW c \in Controllers, Controller(c) \/ \E code \in Requests : Ask(c, code)
      PROVE  TypeOK'
  BY <1>5, ControllerTypes
<1>6. CASE Over \/ UNCHANGED vars
  BY <1>6 DEF Over, vars, TypeOK, mainVars, objectVars, semVars, scmVars, clientVars, stateVars,
     recordVars, historyVars
<1> QED BY <1>1, <1>2, <1>3, <1>4, <1>5, <1>6 DEF Next

\* As long as no report has been overtaken, every step preserves ServerInv.
LEMMA ServerStep ==
  ASSUME WInv, [Next]_vars, ~overtaken'
  PROVE  ServerInv'
<1> USE DEF WInv, BaseInv
<1>0. ~overtaken /\ ServerInv
  BY OvertakenMoves
<1>1. CASE Main
  BY <1>0, <1>1, MainServer
<1>2. CASE SensorCrash \/ \E t \in Threads : HandlerDangles(t)
  BY <1>0, <1>2, ServerUntouched DEF SensorCrash, HandlerDangles, ProcessEnds, ServerVars, mainVars,
     semVars, scmVars
<1>3. ASSUME NEW t \in Threads, Thread(t)
      PROVE  ServerInv'
  BY <1>0, <1>3, DispatcherServer, ServiceMainServer DEF Threads
<1>4. CASE Interrogate \/ SystemShutdown
  BY <1>0, <1>4, ScmServer
<1>5. ASSUME NEW c \in Controllers, Controller(c) \/ \E code \in Requests : Ask(c, code)
      PROVE  ServerInv'
  <2>1. CASE Deliver(c)
    BY <1>0, <1>5, <2>1, ScmServer
  <2>2. CASE ~Deliver(c)
    <3>1. UNCHANGED ServerVars
      BY <1>5, <2>2 DEF Controller, Ask, ControlFails, ControlSucceeds, StopSeen, StopNotYet,
         StopGivesUp, Returns, ServerUnchanged, ServerVars, mainVars, semVars
    <3> QED BY <1>0, <3>1, ServerUntouched
  <2> QED BY <2>1, <2>2
<1>6. CASE Over \/ UNCHANGED vars
  <2>1. UNCHANGED ServerVars
    BY <1>6 DEF Over, vars, ServerVars, mainVars, semVars, scmVars
  <2> QED BY <1>0, <2>1, ServerUntouched
<1> QED BY <1>1, <1>2, <1>3, <1>4, <1>5, <1>6 DEF Next

LEMMA NotOvertakenNext == (TypeOK /\ ServerInv /\ ~overtaken => OvertakenInv)'
BY NotOvertaken, PTL

\* What is known of the dispatcher's control stays so, overtaken or not.
LEMMA OvertakenStep ==
  ASSUME WInv, [Next]_vars, TypeOK', ~overtaken' => ServerInv'
  PROVE  OvertakenInv'
<1>1. CASE ~overtaken'
  BY <1>1, NotOvertakenNext
<1>2. CASE overtaken'
  <2>1. Started
    BY <1>2, OvertakenMoves DEF WInv, BaseInv, OvertakenInv, HandlerReports, HandlerReturns, Goes, Started
  <2> QED BY <2>1, StartedStep DEF WInv, BaseInv
<1> QED BY <1>1, <1>2

\* The invariant holds throughout.
LEMMA Invariance == Spec => []WInv
<1>1. Init => WInv
  BY Initial
<1>2. ASSUME WInv, [Next]_vars
      PROVE  WInv'
  <2>1. TypeOK' /\ (~overtaken' => ServerInv')
    BY <1>2, TypeStep, ServerStep
  <2> QED BY <1>2, <2>1, OvertakenStep, AskedStep, CarriedStep, DanglingStep DEF WInv, BaseInv
<1> QED BY <1>1, <1>2, PTL DEF Spec

\* The variables of the three threads, the SCM and the controllers keep their ranges
\* (qtservice_win.cpp:365-425, 557-645).
THEOREM WinTypes == Spec => []TypeOK
<1>1. WInv => TypeOK
  BY DEF WInv, BaseInv
<1> QED BY <1>1, Invariance, PTL

\* handler() goes on only when the event it has posted itself has been handled, also
\* after a report has been overtaken (qtservice_win.cpp:557-586, 588-645).
THEOREM OwnEventHandled == Spec => []OwnCompletion
<1>1. WInv => OwnCompletion
  <2> SUFFICES ASSUME WInv, NEW t \in Threads,
                      place[t] \in {"relock", "report", "read", "send"}, Code(t) # "interrogate"
               PROVE  t \in done
    BY DEF OwnCompletion
  <2> USE DEF WInv, BaseInv
  <2>1. CASE Started
    <3>1. t = "dispatcher" => control.code # "interrogate"
      BY DEF Code
    <3> QED BY <2>1, <3>1 DEF OvertakenInv, Threads
  <2>2. CASE ~Started
    <3>1. ServerInv
      BY <2>2 DEF OvertakenInv
    <3>2. t = "serviceMain" /\ place["serviceMain"] = "relock"
      BY <2>2, <3>1, SysdEarly DEF Code, Threads, Started
    <3> QED BY <3>1, <3>2 DEF ServerInv, StartInv
  <2> QED BY <2>1, <2>2
<1> QED BY <1>1, Invariance, PTL

\* The state the SCM shows is the one the last operation left the sensor in, until the
\* report of the start-up has been overtaken by a control (qtservice_win.cpp:588-662).
THEOREM ReportedIsTrue == Spec => []StatusTruth
<1>1. WInv => StatusTruth
  <2> SUFFICES ASSUME WInv, ~shutdown, ~overtaken, reported \in {"running", "paused"}
               PROVE  /\ reported = "running" => last \in {"startup", "continue"}
                      /\ reported = "paused" => last = "pause"
                      /\ running.code \in {"none", "user"}
    BY DEF StatusTruth
  <2> USE DEF WInv, BaseInv, ServerInv
  <2>1. Started
    BY DEF EarlyInv, StartInv, TypeOK, Threads, Started
  <2>2. status # "stopped"
    BY <2>1 DEF StatusInv, EndInv
  <2>3. reported = status
    BY <2>1, <2>2 DEF StatusInv
  <2>4. CASE running = NoEvent
    BY <2>1, <2>3, <2>4 DEF StatusInv, NoEvent
  <2>5. CASE running # NoEvent
    <3>1. running = Event /\ place["dispatcher"] = "wait"
      BY <2>1, <2>5 DEF ControlInv, NoneInFlight, InFlight
    <3>2. control.code \in {"stop", "pause", "continue", "shutdown", "user"}
      BY <2>1, <3>1 DEF ControlInv, TypeOK, Codes
    <3>3. control.code = "user"
      BY <2>1, <2>3, <3>1, <3>2 DEF StatusInv, PendingState
    <3>4. running.code = "user"
      BY <3>1, <3>3 DEF Event
    <3> QED BY <2>1, <2>3, <3>4 DEF StatusInv
  <2> QED BY <2>4, <2>5
<1> QED BY <1>1, Invariance, PTL

\* When the event loop has ended, no event is left and nobody waits for one, unless the
\* report of the start-up has been overtaken; and a handler meets deleted memory only if
\* it is one nobody waits for, overtaken or not (qtservice_win.cpp:841-855).
THEOREM NothingIsLeftBehind == Spec => []NothingLeftBehind
<1>1. WInv => NothingLeftBehind
  <2> SUFFICES ASSUME WInv, ~overtaken
               PROVE  /\ queue # <<>> => handlerObject
                      /\ main \in {"stopped", "tell", "send", "join", "over"} =>
                           \A t \in Threads : place[t] # "wait"
    BY DEF NothingLeftBehind, NobodyLeftWaiting, WInv
  <2> USE DEF WInv, BaseInv, ServerInv
  <2>1. queue # <<>> => handlerObject
    BY DEF EarlyInv, StartInv, ControlInv, EndInv, Started, NoneInFlight, InFlight, TypeOK, Threads
  <2>2. main \in {"stopped", "tell", "send", "join", "over"} => place["serviceMain"] # "wait"
    BY DEF StartInv, InFlight
  <2>3. main \in {"stopped", "tell", "send", "join", "over"} => place["dispatcher"] # "wait"
    BY DEF EarlyInv, StartInv, ControlInv, Started, InFlight, TypeOK, Threads
  <2> QED BY <2>1, <2>2, <2>3 DEF Threads
<1> QED BY <1>1, Invariance, PTL

\* Until the report of the start-up has been overtaken the SCM sees a pending state only
\* between two operations, and never sees a service that stops go on
\* (qtservice_win.cpp:593-670, 841-844).
THEOREM ReportedStatesAreLegal == Spec => LegalStatus
<1> DEFINE Legal ==
      \/ overtaken'
      \/ reported' = "stopped"
      \/ reported \in {"running", "paused"}
         /\ reported' \in {"pause_pending", "continue_pending", "stop_pending"}
      \/ <<reported, reported'>> \in
           {<<"start_pending", "running">>, <<"pause_pending", "paused">>,
            <<"continue_pending", "running">>}
<1>1. ASSUME WInv, [Next]_vars, reported' # reported
      PROVE  Legal
  <2> SUFFICES ASSUME ~overtaken' PROVE Legal
    OBVIOUS
  <2>0. TypeOK /\ ServerInv
    BY <1>1, OvertakenMoves DEF WInv, BaseInv
  <2> USE <2>0 DEF ServerInv
  <2>1. \/ TellStopped
        \/ \E t \in Threads : HandlerPosts(t) \/ HandlerWoken(t) \/ HandlerReports(t)
    BY <1>1 DEF Next, Main, Acquired, AcquireTimesOut, CreateApplication, TakeEvent, Operate,
       OperationExits, Notify, LoopEnd, SetStopped, ReadStopped, Join, MainReturns, SensorCrash,
       ProcessEnds, Interrogate, SystemShutdown, ScmControl, Thread, Handler, HandlerInterrogates,
       HandlerLooks, HandlerReads, Reads, HandlerSkipsReport, Connect, ConnectFails,
       DispatcherReturns, ServiceMain, Register, HandlerDangles, Controller, Deliver, Ask,
       ControlFails, ControlSucceeds, StopSeen, StopNotYet, StopGivesUp, Returns, ServerUnchanged,
       Over, vars, stateVars, recordVars
  <2>2. CASE TellStopped
    <3>1. Started /\ carried["main"] = "stopped"
      BY <2>2 DEF TellStopped, MainGoes, EarlyInv, StartInv, StatusInv, InFlight, NoneInFlight,
         Started, TypeOK, Threads
    <3> QED BY <2>2, <3>1 DEF TellStopped, Delivers, Told
  <2>3. ASSUME NEW t \in Threads, HandlerReports(t)
        PROVE  Legal
    <3>1. place[t] = "send" /\ reported' = Told(carried[t])
      BY <2>3 DEF HandlerReports, Delivers, HandlerReturns, Goes
    <3>2. CASE t = "dispatcher"
      <4>1. Started
        BY <3>1, <3>2 DEF EarlyInv, StartInv, Started, TypeOK, Threads
      <4> QED BY <1>1, <3>1, <3>2, <4>1 DEF StatusInv, Told
    <3>3. CASE t = "serviceMain"
      <4>1. Started
        BY <3>1, <3>3 DEF Started
      <4>2. carried[t] = status
        BY <2>3, <3>3 DEF HandlerReports, Delivers
      <4> QED BY <1>1, <3>1, <4>1, <4>2 DEF StatusInv, Told
    <3> QED BY <3>2, <3>3 DEF Threads
  <2>4. CASE HandlerPosts("dispatcher")
    <3>1. place["dispatcher"] = "enter" /\ control.code # "interrogate"
      BY <2>4 DEF HandlerPosts, Goes, Code
    <3>2. Started
      BY <3>1 DEF EarlyInv, StartInv, TypeOK, Threads, Started
    <3>3. status \in {"running", "paused"} /\ reported = status /\ control.code # "startup"
      BY <3>1, <3>2 DEF ControlInv
    <3> QED
      BY <1>1, <2>4, <3>3 DEF HandlerPosts, SetStatus, PendingState, Told, Code
  <2>5. CASE HandlerPosts("serviceMain")
    <3>1. place["serviceMain"] = "enter"
      BY <2>5 DEF HandlerPosts, Goes
    <3>2. reported = "start_pending"
      BY <3>1 DEF EarlyInv
    <3>3. reported' = "start_pending"
      BY <2>5, <3>2 DEF HandlerPosts, SetStatus, PendingState, Told, Code
    <3> QED BY <1>1, <3>2, <3>3
  <2>6. CASE HandlerWoken("dispatcher")
    <3>1. place["dispatcher"] = "relock"
      BY <2>6 DEF HandlerWoken, Goes
    <3>2. Started
      BY <3>1 DEF EarlyInv, StartInv, TypeOK, Threads, Started
    <3>3. control.code \notin {"startup", "interrogate"}
      BY <3>1, <3>2 DEF ControlInv
    <3>4. /\ control.code = "pause" => status = "pause_pending"
          /\ control.code = "continue" => status = "continue_pending"
      BY <3>1, <3>2 DEF StatusInv, PendingState
    <3>5. reported = status \/ status = "stopped"
      BY <3>2 DEF StatusInv
    <3> QED
      BY <1>1, <2>6, <3>3, <3>4, <3>5 DEF HandlerWoken, SetStatus, FinalState, Told, Code
  <2>7. CASE HandlerWoken("serviceMain")
    <3>1. place["serviceMain"] = "relock"
      BY <2>7 DEF HandlerWoken, Goes
    <3>2. status = "start_pending" /\ reported = "start_pending"
      BY <3>1 DEF StartInv
    <3>3. reported' = "running"
      BY <2>7, <3>2 DEF HandlerWoken, SetStatus, FinalState, Told, Code
    <3> QED BY <3>2, <3>3
  <2> QED BY <2>1, <2>2, <2>3, <2>4, <2>5, <2>6, <2>7 DEF Threads
<1>2. WInv /\ [Next]_vars => [Legal]_reported
  BY <1>1
<1>3. Spec => [][Legal]_reported
  BY <1>2, Invariance, PTL DEF Spec
<1> QED BY <1>3 DEF LegalStatus
=============================================================================
