---------------------------- MODULE OtDaemonProofs ----------------------------
(***************************************************************************)
(* Proofs about OtDaemon, for all its constants: the daemon implements the  *)
(* sensor OtListener, so what is proved of the sensor holds in the daemon,  *)
(* and the channel ServiceSocket, the sensor being its environment.  So what *)
(* is proved of the channel holds too, and an answer says something of the  *)
(* sensor.                                                                  *)
(***************************************************************************)
EXTENDS OtDaemon, TLAPS

\* The theorems of the sensor, about the same variables.
Proved == INSTANCE OtListenerProofs

\* The operations a command line can call.
LEMMA OperationNames == \A w : Channel!OperationOf(w) \in {"stop", "pause", "resume", "none"}
<1> SUFFICES ASSUME NEW w
             PROVE  Channel!OperationOf(w) \in {"stop", "pause", "resume", "none"}
  OBVIOUS
<1>1. CASE w = "terminate"
  BY <1>1 DEF Channel!OperationOf
<1>2. CASE w \in {"pause", "resume"}
  BY <1>2 DEF Channel!OperationOf
<1>3. CASE w \notin {"terminate", "pause", "resume"}
  BY <1>3 DEF Channel!OperationOf
<1> QED
  BY <1>1, <1>2, <1>3

\* What the channel's main thread does to the process and to the operation.
LEMMA ServerCalls ==
  ASSUME Channel!Server
  PROVE  process' = process /\ call' \in Sensor!Operations \cup {call}
<1> USE DEF Channel!At, Sensor!Operations
<1>1. CASE Channel!SetPath \/ Channel!StartService \/ Channel!Started
  BY <1>1 DEF Channel!SetPath, Channel!StartService, Channel!Started
<1>2. CASE \E a \in Addrs : Channel!Accept(a) \/ Channel!SlotReady(a) \/ Channel!SlotClosed(a)
  BY <1>2 DEF Channel!Accept, Channel!SlotReady, Channel!SlotClosed
<1>3. CASE Channel!CallOperation
  <2> DEFINE word == Channel!Line(cache[at])[1].word
  <2>1. process' = process /\ call' = Channel!OperationOf(word)
    BY <1>3 DEF Channel!CallOperation
  <2>2. Channel!OperationOf(word) # "none"
    BY <1>3 DEF Channel!CallOperation
  <2> QED
    BY <2>1, <2>2, OperationNames
<1>4. CASE Channel!AnswerCalled \/ Channel!AnswerSimple \/ Channel!AnswerRefused
  BY <1>4 DEF Channel!AnswerCalled, Channel!AnswerSimple, Channel!AnswerRefused
<1>5. CASE Channel!SlotEnd \/ Channel!LoopEnd \/ Channel!Cleanup
  BY <1>5 DEF Channel!SlotEnd, Channel!LoopEnd, Channel!Cleanup
<1> QED
  BY <1>1, <1>2, <1>3, <1>4, <1>5 DEF Channel!Server

\* A step of the event loop calls an operation of the sensor or leaves it alone.
LEMMA ControlMaps == Control => [Sensor!Next]_(Sensor!vars)
<1> SUFFICES ASSUME Control PROVE [Sensor!Next]_(Sensor!vars)
  OBVIOUS
<1>1. process' = process /\ call' \in Sensor!Operations \cup {call}
  BY ServerCalls DEF Control
<1>2. CASE call' # call
  <2>1. Sensor!Invoke(call') /\ call' \in Sensor!Operations
    BY <1>1, <1>2 DEF Control
  <2> QED
    BY <2>1 DEF Sensor!Next
<1>3. CASE call' = call
  BY <1>1, <1>3 DEF Control, sensorVars, Sensor!vars, Sensor!captureVars, Sensor!historyVars
<1> QED
  BY <1>2, <1>3

\* Every step of the daemon is a step of the sensor or leaves it alone.
LEMMA SensorStep == [Next]_vars => [Sensor!Next]_(Sensor!vars)
<1> SUFFICES ASSUME [Next]_vars PROVE [Sensor!Next]_(Sensor!vars)
  OBVIOUS
<1> USE DEF Sensor!vars, Sensor!captureVars, Sensor!historyVars, sensorVars
<1>1. CASE Control
  BY <1>1, ControlMaps
<1>2. CASE Users
  <2>1. UNCHANGED <<process, call>>
    BY <1>2 DEF Users, Channel!Users, Channel!Connect, Channel!Connects, Channel!ConnectFails,
                Channel!Returns, Channel!Controller, Channel!Send, Channel!Read, Channel!ReadEof,
                Channel!PeerConnect, Channel!PeerWrite, Channel!PeerClose
  <2> QED
    BY <1>2, <2>1 DEF Users
<1>3. CASE Operation
  BY <1>3 DEF Operation, Sensor!Next
<1>4. CASE \E a \in Adapters : CaptureThread(a) \/ CaptureCrash(a)
  BY <1>4 DEF CaptureThread, CaptureCrash, Sensor!Next
<1>5. CASE Over
  BY <1>5 DEF Over, Channel!Quiescent, Channel!vars
<1>6. CASE UNCHANGED vars
  BY <1>6 DEF vars
<1> QED
  BY <1>1, <1>2, <1>3, <1>4, <1>5, <1>6 DEF Next

\* So what is proved of the sensor can be used in the daemon.
LEMMA SensorRefinement == Spec => Sensor!Spec
<1>1. Init => Sensor!Init
  BY DEF Init
<1>2. [Next]_vars => [Sensor!Next]_(Sensor!vars)
  BY SensorStep
<1> QED
  BY <1>1, <1>2, PTL DEF Spec, Sensor!Spec

-----------------------------------------------------------------------------
(* What is proved of the sensor, in the daemon.                              *)

\* The instance that holds the theorems is the sensor of the daemon.
LEMMA SameSensor ==
  /\ Sensor!Init => Proved!Init
  /\ [Sensor!Next]_(Sensor!vars) => [Proved!Next]_(Proved!vars)
  /\ Proved!IInv => Sensor!IInv
<1> QED
  BY DEF Sensor!captureVars, Sensor!historyVars, Sensor!vars, Sensor!Operations,
         Sensor!Running, Sensor!ThreadStates, Sensor!WaitResults, Sensor!TypeOK,
         Sensor!Init, Sensor!Invoke, Sensor!AddAdapter, Sensor!StartFails,
         Sensor!StopLoop, Sensor!WaitReturns, Sensor!WaitDone, Sensor!WaitExpired,
         Sensor!StartThread, Sensor!Return, Sensor!DeleteListener, Sensor!DeleteAdapter,
         Sensor!DeleteWaitDone, Sensor!DeleteWaitExpired, Sensor!DeleteSniffer,
         Sensor!DeleteRunning, Sensor!Exit, Sensor!Main, Sensor!mainVars, Sensor!Goes,
         Sensor!LoopHead, Sensor!MonitorEntry, Sensor!TakesPacket, Sensor!FetchPacket,
         Sensor!FetchStale, Sensor!FetchNothing, Sensor!ProcessPacket, Sensor!Sleep,
         Sensor!Finish, Sensor!Capture, Sensor!CaptureCrash, Sensor!Terminated,
         Sensor!Next, Sensor!Silent, Sensor!WaitedInv, Sensor!AbortNeedsTwoExpiries,
         Sensor!PcInv, Sensor!UnbornInv, Sensor!LateInv, Sensor!VisitedInv,
         Sensor!DeleteInv, Sensor!IInv, Proved!captureVars, Proved!historyVars,
         Proved!vars, Proved!Operations, Proved!Running, Proved!ThreadStates,
         Proved!WaitResults, Proved!TypeOK, Proved!Init, Proved!Invoke,
         Proved!AddAdapter, Proved!StartFails, Proved!StopLoop, Proved!WaitReturns,
         Proved!WaitDone, Proved!WaitExpired, Proved!StartThread, Proved!Return,
         Proved!DeleteListener, Proved!DeleteAdapter, Proved!DeleteWaitDone,
         Proved!DeleteWaitExpired, Proved!DeleteSniffer, Proved!DeleteRunning,
         Proved!Exit, Proved!Main, Proved!mainVars, Proved!Goes, Proved!LoopHead,
         Proved!MonitorEntry, Proved!TakesPacket, Proved!FetchPacket, Proved!FetchStale,
         Proved!FetchNothing, Proved!ProcessPacket, Proved!Sleep, Proved!Finish,
         Proved!Capture, Proved!CaptureCrash, Proved!Terminated, Proved!Next,
         Proved!Silent, Proved!WaitedInv, Proved!AbortNeedsTwoExpiries, Proved!PcInv,
         Proved!UnbornInv, Proved!LateInv, Proved!VisitedInv, Proved!DeleteInv,
         Proved!IInv

\* The inductive invariant of the sensor holds in every reachable state of the daemon.
THEOREM SensorInvariance == Spec => []Sensor!IInv
<1>1. Sensor!Spec => Proved!Spec
  BY SameSensor, PTL DEF Sensor!Spec, Proved!Spec
<1>2. Proved!Spec => []Proved!IInv
  BY DaemonAssumption, Proved!Invariance DEF Proved!NoAdapterAssumption
<1>3. Proved!IInv => Sensor!IInv
  BY SameSensor
<1>4. Spec => Sensor!Spec
  BY SensorRefinement
<1> QED
  BY <1>1, <1>2, <1>3, <1>4, PTL

-----------------------------------------------------------------------------
(* The channel.                                                              *)

\* Before slotStart() no operation runs and no adapter exists; a capture thread
\* belongs to an adapter that init() has created.
StartInv ==
  /\ srv \in {"init", "start"} => call = "none" /\ born = {}
  /\ \A a \in Adapters \ born : thread[a] = "none"

\* A step of the event loop keeps it: only slotStart() leaves "start".
LEMMA ControlStartInv ==
  ASSUME StartInv, Control
  PROVE  StartInv'
<1>1. born' = born /\ thread' = thread
  BY DEF Control, sensorVars, Sensor!Invoke, Sensor!captureVars
<1>2. srv' \in {"init", "start"} => srv \in {"init", "start"} /\ call' = call
  BY DEF Control, Channel!Server, Channel!At, Channel!SetPath, Channel!StartService,
         Channel!Started, Channel!Accept, Channel!SlotReady, Channel!SlotClosed,
         Channel!CallOperation, Channel!AnswerCalled, Channel!AnswerSimple,
         Channel!AnswerRefused, Channel!SlotEnd, Channel!LoopEnd, Channel!Cleanup
<1> QED
  BY <1>1, <1>2 DEF StartInv

\* A step of an operation keeps it: init() runs only inside start().
LEMMA OperationStartInv ==
  ASSUME Sensor!IInv, StartInv, Operation
  PROVE  StartInv'
<1> USE DEF StartInv, Sensor!IInv, Sensor!PcInv, Operation, channelVars, Sensor!captureVars
<1>1. CASE \E a \in Adapters : Sensor!AddAdapter(a)
  BY <1>1 DEF Sensor!AddAdapter, Sensor!TypeOK
<1>2. CASE \E a \in Adapters : Sensor!StartThread(a)
  BY <1>2 DEF Sensor!StartThread, Sensor!TypeOK
<1>3. CASE Sensor!DeleteSniffer
  BY <1>3 DEF Sensor!DeleteSniffer, Sensor!TypeOK
<1>4. CASE UNCHANGED <<born, thread>> /\ call' \in {call, "none"}
  BY <1>4
<1> QED
  BY <1>1, <1>2, <1>3, <1>4
  DEF Sensor!Main, Sensor!StopLoop, Sensor!DeleteAdapter, Sensor!StartFails, Sensor!WaitDone,
      Sensor!WaitExpired, Sensor!WaitReturns, Sensor!Return, Sensor!DeleteListener,
      Sensor!DeleteWaitDone, Sensor!DeleteWaitExpired, Sensor!DeleteRunning, Sensor!Exit

\* Every step of the daemon keeps it.
LEMMA NextStartInv == Sensor!IInv /\ StartInv /\ [Next]_vars => StartInv'
<1> SUFFICES ASSUME Sensor!IInv, StartInv, [Next]_vars PROVE StartInv'
  OBVIOUS
<1>1. CASE Users
  <2>1. UNCHANGED <<call, srv, born, thread>>
    BY <1>1 DEF Users, sensorVars, Channel!Users, Channel!Connect, Channel!Connects,
                Channel!ConnectFails, Channel!Returns, Channel!Controller, Channel!Send,
                Channel!Read, Channel!ReadEof, Channel!PeerConnect, Channel!PeerWrite,
                Channel!PeerClose, Channel!serverVars
  <2> QED
    BY <2>1 DEF StartInv
<1>2. CASE \E a \in Adapters : CaptureThread(a)
  <2>1. PICK a \in Adapters : CaptureThread(a)
    BY <1>2
  <2>2. /\ UNCHANGED <<call, srv, born>>
        /\ thread[a] # "none"
        /\ \E place : thread' = [thread EXCEPT ![a] = place]
    BY <2>1 DEF CaptureThread, channelVars, Sensor!Capture, Sensor!LoopHead,
                Sensor!MonitorEntry, Sensor!FetchPacket, Sensor!FetchStale, Sensor!TakesPacket,
                Sensor!FetchNothing, Sensor!ProcessPacket, Sensor!Sleep, Sensor!Finish,
                Sensor!Goes, Sensor!mainVars
  <2> QED
    BY <2>2 DEF StartInv, Sensor!IInv, Sensor!TypeOK
<1>3. CASE \E a \in Adapters : CaptureCrash(a)
  BY <1>3 DEF CaptureCrash, channelVars, Sensor!CaptureCrash, Sensor!mainVars,
              Sensor!captureVars, StartInv
<1>4. CASE Over \/ UNCHANGED vars
  BY <1>4 DEF Over, Channel!Quiescent, Channel!vars, Channel!serverVars, vars, sensorVars,
              channelVars, StartInv
<1> QED
  BY <1>1, <1>2, <1>3, <1>4, ControlStartInv, OperationStartInv DEF Next

\* Every reachable state satisfies it.
LEMMA StartInvariance == Spec => []StartInv
<1>1. Init => StartInv
  BY DEF Init, Sensor!Init, Channel!Init, StartInv
<1> QED
  BY <1>1, NextStartInv, SensorInvariance, PTL DEF Spec

\* A step of a running operation is its return, its end of the process, or nothing
\* the channel can see.
LEMMA OperationMaps ==
  ASSUME Sensor!IInv, StartInv, Operation
  PROVE  [Channel!Next]_(Channel!vars)
<1> USE DEF Operation, channelVars, Sensor!IInv, Sensor!PcInv, Channel!vars,
            Channel!serverVars, Channel!clientVars, Channel!streamVars,
            Channel!othersThanService
<1>1. CASE (\E a \in Adapters : Sensor!AddAdapter(a)) \/ Sensor!Return
  <2>1. Channel!ServiceReturns
    BY <1>1 DEF Channel!ServiceReturns, Sensor!AddAdapter, Sensor!Return
  <2> QED
    BY <2>1 DEF Channel!Next, Channel!Service
<1>2. CASE Sensor!StartFails
  <2>1. Channel!ServiceDies
    BY <1>2 DEF Channel!ServiceDies, Sensor!StartFails, StartInv
  <2> QED
    BY <2>1 DEF Channel!Next
<1>3. CASE Sensor!DeleteRunning \/ Sensor!Exit
  <2>1. Channel!ServiceEnds
    BY <1>3 DEF Channel!ServiceEnds, Sensor!DeleteRunning, Sensor!Exit
  <2> QED
    BY <2>1 DEF Channel!Next, Channel!Service
<1>4. CASE UNCHANGED <<call, process>>
  BY <1>4
<1> QED
  BY <1>1, <1>2, <1>3, <1>4
  DEF Sensor!Main, Sensor!StopLoop, Sensor!StartThread, Sensor!DeleteAdapter, Sensor!WaitDone,
      Sensor!WaitExpired, Sensor!WaitReturns, Sensor!DeleteListener, Sensor!DeleteWaitDone,
      Sensor!DeleteWaitExpired, Sensor!DeleteSniffer

\* So is a step of a capture thread: a crash, or nothing.
LEMMA CaptureMaps ==
  ASSUME Sensor!IInv, StartInv, NEW a \in Adapters, CaptureThread(a) \/ CaptureCrash(a)
  PROVE  [Channel!Next]_(Channel!vars)
<1> USE DEF channelVars, Channel!vars, Channel!serverVars, Channel!clientVars,
            Channel!streamVars, Channel!othersThanService, Sensor!mainVars
<1>1. CASE CaptureThread(a)
  BY <1>1 DEF CaptureThread, Sensor!Capture, Sensor!LoopHead, Sensor!MonitorEntry,
              Sensor!FetchPacket, Sensor!FetchStale, Sensor!TakesPacket, Sensor!FetchNothing,
              Sensor!ProcessPacket, Sensor!Sleep, Sensor!Finish, Sensor!Goes
<1>2. CASE CaptureCrash(a)
  <2>1. Channel!ServiceDies
    BY <1>2 DEF CaptureCrash, Sensor!CaptureCrash, Channel!ServiceDies, StartInv
  <2> QED
    BY <2>1 DEF Channel!Next
<1> QED
  BY <1>1, <1>2

\* Every step of the daemon is a step of the channel or leaves it alone.
LEMMA ChannelStep ==
  Sensor!IInv /\ StartInv /\ [Next]_vars => [Channel!Next]_(Channel!vars)
<1> SUFFICES ASSUME Sensor!IInv, StartInv, [Next]_vars PROVE [Channel!Next]_(Channel!vars)
  OBVIOUS
<1>1. CASE Control \/ Users \/ Over
  BY <1>1 DEF Control, Users, Over, Channel!Next
<1>2. CASE UNCHANGED vars
  BY <1>2 DEF vars, channelVars, Channel!vars, Channel!serverVars, Channel!clientVars,
              Channel!streamVars
<1> QED
  BY <1>1, <1>2, OperationMaps, CaptureMaps DEF Next

\* The daemon implements the channel of ServiceSocket: the operations of the sensor
\* do what the channel expects of its environment.
THEOREM ChannelRefinement == Spec => ChannelRefined
<1>1. Init => Channel!Init
  BY DEF Init
<1> QED
  BY <1>1, ChannelStep, SensorInvariance, StartInvariance, PTL
  DEF Spec, ChannelRefined, Channel!Spec

-----------------------------------------------------------------------------
(* The end of the daemon.                                                    *)

\* The destructor runs with the channel closed, its loop leaves deleted threads
\* behind, and the process exits with nothing left.
EndInv ==
  /\ call = "destroy" => srv = "destroying"
  /\ srv = "destroying" => ~listening /\ pending = <<>>
  /\ pc \in {"children", "cwait", "dtor"} =>
       \A a \in born \ todo : thread[a] = "none" \/ (pc # "children" /\ a = cur)
  /\ process = "exited" => call = "destroy" /\ \A a \in Adapters : thread[a] = "none"
  /\ process = "aborted" => call = "destroy"

\* The event loop closes the channel before it calls the destructor, and has no
\* step afterwards.
LEMMA ControlEndInv ==
  ASSUME Sensor!IInv, EndInv, Control
  PROVE  EndInv'
<1>1. process = "up" /\ process' = "up" /\ srv # "destroying"
  BY DEF Control, Channel!Server, Channel!At, Channel!SetPath, Channel!StartService,
         Channel!Started, Channel!Accept, Channel!SlotReady, Channel!SlotClosed,
         Channel!CallOperation, Channel!AnswerCalled, Channel!AnswerSimple,
         Channel!AnswerRefused, Channel!SlotEnd, Channel!LoopEnd, Channel!Cleanup
<1>2. call # "destroy" /\ pc \notin {"children", "cwait", "dtor"}
  BY <1>1 DEF EndInv, Sensor!IInv, Sensor!PcInv
<1>3. pc' \notin {"children", "cwait", "dtor"}
  BY <1>2 DEF Control, Sensor!Invoke, sensorVars
<1>4. CASE Channel!Cleanup
  BY <1>1, <1>3, <1>4 DEF Channel!Cleanup, EndInv
<1>5. CASE Channel!CallOperation
  <2>1. call' # "destroy" /\ srv' = "called"
    BY <1>5, OperationNames DEF Channel!CallOperation
  <2> QED
    BY <1>1, <1>3, <2>1 DEF EndInv
<1>6. CASE srv' # "destroying" /\ call' \in {call, "start"}
  BY <1>1, <1>2, <1>3, <1>6 DEF EndInv
<1> QED
  BY <1>4, <1>5, <1>6
  DEF Control, Channel!Server, Channel!At, Channel!SetPath, Channel!StartService,
      Channel!Started, Channel!Accept, Channel!SlotReady, Channel!SlotClosed,
      Channel!AnswerCalled, Channel!AnswerSimple, Channel!AnswerRefused, Channel!SlotEnd,
      Channel!LoopEnd

\* The clients neither reopen the channel nor queue a connection to a closed one.
LEMMA UsersEndInv ==
  ASSUME EndInv, Users
  PROVE  EndInv'
<1>1. /\ UNCHANGED <<process, call, srv, listening, sensorVars>>
      /\ ~listening => pending' = pending
  BY DEF Users, Channel!Users, Channel!Connect, Channel!Connects, Channel!ConnectFails,
         Channel!Reachable, Channel!Returns, Channel!Controller, Channel!Send, Channel!Read,
         Channel!ReadEof, Channel!PeerConnect, Channel!PeerWrite, Channel!PeerClose,
         Channel!serverVars
<1> QED
  BY <1>1 DEF EndInv, sensorVars

\* The loop of the destructor deletes one thread after the other.
LEMMA OperationEndInv ==
  ASSUME Sensor!IInv, StartInv, EndInv, Operation
  PROVE  EndInv'
<1> USE DEF EndInv, Operation, channelVars, Sensor!IInv, Sensor!PcInv, Sensor!TypeOK
<1>1. CASE \E a \in Adapters : Sensor!AddAdapter(a) \/ Sensor!StopLoop(a) \/ Sensor!StartThread(a)
  BY <1>1 DEF Sensor!AddAdapter, Sensor!StopLoop, Sensor!StartThread
<1>2. CASE \E a \in Adapters : Sensor!DeleteAdapter(a)
  BY <1>2 DEF Sensor!DeleteAdapter
<1>3. CASE Sensor!StartFails \/ Sensor!WaitDone \/ Sensor!WaitExpired \/ Sensor!Return
  BY <1>3 DEF Sensor!StartFails, Sensor!WaitDone, Sensor!WaitExpired, Sensor!WaitReturns,
              Sensor!Return, Sensor!captureVars
<1>4. CASE Sensor!DeleteListener \/ Sensor!DeleteWaitDone \/ Sensor!DeleteWaitExpired
  BY <1>4 DEF Sensor!DeleteListener, Sensor!DeleteWaitDone, Sensor!DeleteWaitExpired,
              Sensor!WaitReturns, Sensor!captureVars
<1>5. CASE Sensor!DeleteSniffer
  BY <1>5 DEF Sensor!DeleteSniffer
<1>6. CASE Sensor!DeleteRunning
  BY <1>6 DEF Sensor!DeleteRunning, Sensor!captureVars
<1>7. CASE Sensor!Exit
  BY <1>7 DEF Sensor!Exit, Sensor!captureVars, StartInv
<1> QED
  BY <1>1, <1>2, <1>3, <1>4, <1>5, <1>6, <1>7 DEF Sensor!Main

\* A thread that has been deleted takes no step.
LEMMA CaptureEndInv ==
  ASSUME Sensor!IInv, EndInv, NEW a \in Adapters, CaptureThread(a) \/ CaptureCrash(a)
  PROVE  EndInv'
<1> USE DEF EndInv, channelVars, Sensor!mainVars
<1>1. CASE CaptureThread(a)
  <2>1. /\ UNCHANGED <<process, channelVars, call, pc, cur, todo, born>>
        /\ process = "up"
        /\ thread[a] # "none"
        /\ \E place : thread' = [thread EXCEPT ![a] = place]
    BY <1>1 DEF CaptureThread, Sensor!Capture, Sensor!LoopHead, Sensor!MonitorEntry,
                Sensor!FetchPacket, Sensor!FetchStale, Sensor!TakesPacket,
                Sensor!FetchNothing, Sensor!ProcessPacket, Sensor!Sleep, Sensor!Finish,
                Sensor!Goes
  <2> QED
    BY <2>1 DEF Sensor!IInv, Sensor!TypeOK
<1>2. CASE CaptureCrash(a)
  BY <1>2 DEF CaptureCrash, Sensor!CaptureCrash, Sensor!captureVars
<1> QED
  BY <1>1, <1>2

\* Every reachable state satisfies it.
LEMMA EndInvariance == Spec => []EndInv
<1>1. Init => EndInv
  BY DEF Init, Sensor!Init, Channel!Init, EndInv
<1>2. Sensor!IInv /\ StartInv /\ EndInv /\ [Next]_vars => EndInv'
  <2> SUFFICES ASSUME Sensor!IInv, StartInv, EndInv, [Next]_vars PROVE EndInv'
    OBVIOUS
  <2>1. CASE Over \/ UNCHANGED vars
    BY <2>1 DEF Over, Channel!Quiescent, Channel!vars, Channel!serverVars, vars, sensorVars,
                channelVars, EndInv
  <2> QED
    BY <2>1, ControlEndInv, UsersEndInv, OperationEndInv, CaptureEndInv DEF Next
<1> QED
  BY <1>1, <1>2, SensorInvariance, StartInvariance, PTL DEF Spec

\* main() returns, or ~QThread aborts, only after the channel is closed and its queue
\* is gone; the one with every capture thread deleted, the other after two expired
\* waits (qtservice.cpp:470-482, otservice.cpp:20-25, adapter.cpp:12-36).
THEOREM DaemonExitsOrderly == Spec => []OrderlyExit
<1>1. EndInv /\ Sensor!IInv => OrderlyExit
  BY DEF EndInv, OrderlyExit, Sensor!IInv, Sensor!AbortNeedsTwoExpiries
<1> QED
  BY <1>1, EndInvariance, SensorInvariance, PTL

-----------------------------------------------------------------------------
(* The answers.  If the peers write whole lines, "true" for a pause or a     *)
(* stop is said only when every adapter has been told to stop.               *)

\* The theorems of the channel, about the same variables.
Answers == INSTANCE ServiceSocketProofs

\* The instance that holds the theorems is the channel of the daemon.
LEMMA SameChannel ==
  /\ Channel!Init => Answers!Init
  /\ [Channel!Next]_(Channel!vars) => [Answers!Next]_(Answers!vars)
<1>1. UNCHANGED Channel!vars => UNCHANGED Answers!vars
  BY DEF Channel!vars, Answers!vars, Channel!serverVars, Answers!serverVars,
         Channel!clientVars, Answers!clientVars, Channel!streamVars, Answers!streamVars
<1>2. /\ Channel!Clients = Answers!Clients
      /\ Channel!NoToken = Answers!NoToken
  BY DEF Channel!Clients, Answers!Clients, Channel!NoToken, Answers!NoToken
<1>3. \A s : /\ Channel!Line(s) = Answers!Line(s)
             /\ Channel!Rest(s) = Answers!Rest(s)
  BY DEF Channel!LineEnds, Answers!LineEnds, Channel!LineEnd, Answers!LineEnd,
         Channel!Line, Answers!Line, Channel!Rest, Answers!Rest
<1>4. \A w : Channel!OperationOf(w) = Answers!OperationOf(w)
  BY DEF Channel!OperationOf, Answers!OperationOf
<1>5. \A s : Channel!IsObeyed(s) <=> Answers!IsObeyed(s)
  BY DEF Channel!Obeyed, Answers!Obeyed, Channel!IsObeyed, Answers!IsObeyed
<1>6. Channel!Init <=> Answers!Init
  BY <1>2 DEF Channel!Init, Answers!Init
<1>7. /\ Channel!SetPath <=> Answers!SetPath
      /\ Channel!StartService <=> Answers!StartService
      /\ Channel!Started <=> Answers!Started
      /\ Channel!LoopEnd <=> Answers!LoopEnd
      /\ Channel!Cleanup <=> Answers!Cleanup
  BY DEF Channel!SetPath, Answers!SetPath, Channel!StartService, Answers!StartService,
         Channel!Started, Answers!Started, Channel!LoopEnd, Answers!LoopEnd,
         Channel!Cleanup, Answers!Cleanup, Channel!At, Answers!At, Channel!clientVars,
         Answers!clientVars, Channel!streamVars, Answers!streamVars
<1>8. \A a : /\ Channel!Accept(a) <=> Answers!Accept(a)
             /\ Channel!SlotReady(a) <=> Answers!SlotReady(a)
             /\ Channel!SlotClosed(a) <=> Answers!SlotClosed(a)
  BY DEF Channel!Accept, Answers!Accept, Channel!SlotReady, Answers!SlotReady,
         Channel!SlotClosed, Answers!SlotClosed, Channel!At, Answers!At,
         Channel!clientVars, Answers!clientVars, Channel!streamVars, Answers!streamVars
<1>9. /\ Channel!CallOperation <=> Answers!CallOperation
      /\ Channel!SlotEnd <=> Answers!SlotEnd
  BY <1>3, <1>4, <1>5 DEF Channel!CallOperation, Answers!CallOperation, Channel!SlotEnd,
         Answers!SlotEnd, Channel!At, Answers!At, Channel!Count, Answers!Count,
         Channel!clientVars, Answers!clientVars, Channel!streamVars, Answers!streamVars
<1>10. /\ Channel!AnswerCalled <=> Answers!AnswerCalled
       /\ Channel!AnswerSimple <=> Answers!AnswerSimple
       /\ Channel!AnswerRefused <=> Answers!AnswerRefused
  BY <1>2, <1>3, <1>4, <1>5 DEF Channel!AnswerCalled, Answers!AnswerCalled,
         Channel!AnswerSimple, Answers!AnswerSimple, Channel!AnswerRefused,
         Answers!AnswerRefused, Channel!At, Answers!At, Channel!Answer, Answers!Answer,
         Channel!Count, Answers!Count, Channel!clientVars, Answers!clientVars,
         Channel!streamVars, Answers!streamVars
<1>11. Channel!Server <=> Answers!Server
  BY <1>7, <1>8, <1>9, <1>10 DEF Channel!Server, Answers!Server
<1>12. \A c, w : /\ Channel!Connect(c, w) <=> Answers!Connect(c, w)
                 /\ Channel!ConnectFails(c, w) <=> Answers!ConnectFails(c, w)
  BY DEF Channel!Connect, Answers!Connect, Channel!Connects, Answers!Connects,
         Channel!ConnectFails, Answers!ConnectFails, Channel!Returns, Answers!Returns,
         Channel!Reachable, Answers!Reachable, Channel!serverVars, Answers!serverVars,
         Channel!streamVars, Answers!streamVars
<1>13. \A c : /\ Channel!Send(c) <=> Answers!Send(c)
              /\ Channel!Read(c) <=> Answers!Read(c)
              /\ Channel!ReadEof(c) <=> Answers!ReadEof(c)
  BY DEF Channel!Send, Answers!Send, Channel!Read, Answers!Read, Channel!ReadEof,
         Answers!ReadEof, Channel!Returns, Answers!Returns, Channel!Linked, Answers!Linked,
         Channel!Range, Answers!Range, Channel!serverVars, Answers!serverVars,
         Channel!streamVars, Answers!streamVars
<1>14. \A p : /\ Channel!PeerConnect(p) <=> Answers!PeerConnect(p)
              /\ Channel!PeerClose(p) <=> Answers!PeerClose(p)
  BY DEF Channel!PeerConnect, Answers!PeerConnect, Channel!PeerClose, Answers!PeerClose,
         Channel!Connects, Answers!Connects, Channel!Reachable, Answers!Reachable,
         Channel!serverVars, Answers!serverVars, Channel!streamVars, Answers!streamVars
<1>15. \A p, line : Channel!PeerWrite(p, line) <=> Answers!PeerWrite(p, line)
  BY DEF Channel!PeerWrite, Answers!PeerWrite, Channel!serverVars, Answers!serverVars
<1>16. Channel!Users <=> Answers!Users
  BY <1>12, <1>13, <1>14, <1>15 DEF Channel!Users, Answers!Users, Channel!Controller,
         Answers!Controller
<1>17. /\ Channel!Service <=> Answers!Service
       /\ Channel!ServiceDies <=> Answers!ServiceDies
  BY DEF Channel!Service, Answers!Service, Channel!ServiceReturns, Answers!ServiceReturns,
         Channel!ServiceEnds, Answers!ServiceEnds, Channel!ServiceDies,
         Answers!ServiceDies, Channel!othersThanService, Answers!othersThanService,
         Channel!serverVars, Answers!serverVars, Channel!clientVars, Answers!clientVars,
         Channel!streamVars, Answers!streamVars
<1>18. Channel!Quiescent => UNCHANGED Channel!vars
  BY DEF Channel!Quiescent
<1> QED
  <2>1. Channel!Next => Answers!Next \/ UNCHANGED Channel!vars
    BY <1>11, <1>16, <1>17, <1>18 DEF Channel!Next, Answers!Next
  <2> QED
    BY <1>1, <1>6, <2>1

\* What is proved of the channel holds in the daemon.
LEMMA ChannelInvariance ==
  ASSUME Answers!LinesAreWhole
  PROVE  Spec => []Answers!AInv
<1>1. Spec => Channel!Spec
  BY ChannelRefinement DEF ChannelRefined
<1>2. Channel!Spec => Answers!Spec
  BY SameChannel, PTL DEF Channel!Spec, Answers!Spec
<1>3. Answers!SocketAssumption
  BY DaemonAssumption DEF Answers!SocketAssumption, Answers!Words, Answers!Clients, Channel!Words
<1>4. Answers!Spec => []Answers!AInv
  BY <1>3, Answers!AnswerInvariance
<1> QED
  BY <1>1, <1>2, <1>4, PTL

-----------------------------------------------------------------------------
(* The flag.                                                                 *)

\* Who has been waited for, or is being waited for, has been told to stop.
FlagInv ==
  /\ \A a \in Adapters : waited[a] # "no" => mStop[a]
  /\ pc = "wait" => mStop[cur]

\* Every step of the sensor keeps it: the flag is set before the wait, and never reset.
LEMMA SensorFlagInv ==
  ASSUME Sensor!IInv, FlagInv, [Sensor!Next]_(Sensor!vars)
  PROVE  FlagInv'
<1> USE DEF FlagInv, Sensor!IInv, Sensor!TypeOK, Sensor!captureVars, Sensor!historyVars
<1>1. CASE \E op \in Sensor!Operations : Sensor!Invoke(op)
  BY <1>1 DEF Sensor!Invoke
<1>2. CASE \E a \in Adapters : Sensor!AddAdapter(a) \/ Sensor!StartThread(a)
  BY <1>2 DEF Sensor!AddAdapter, Sensor!StartThread
<1>3. CASE \E a \in Adapters : Sensor!StopLoop(a) \/ Sensor!DeleteAdapter(a)
  BY <1>3 DEF Sensor!StopLoop, Sensor!DeleteAdapter
<1>4. CASE Sensor!WaitDone \/ Sensor!WaitExpired
  BY <1>4 DEF Sensor!WaitDone, Sensor!WaitExpired, Sensor!WaitReturns
<1>5. CASE \E a \in Adapters : Sensor!Capture(a)
  <2>1. UNCHANGED <<pc, cur, waited, mStop>>
    BY <1>5 DEF Sensor!Capture, Sensor!LoopHead, Sensor!MonitorEntry, Sensor!FetchPacket,
                Sensor!FetchStale, Sensor!TakesPacket, Sensor!FetchNothing,
                Sensor!ProcessPacket, Sensor!Sleep, Sensor!Finish, Sensor!Goes, Sensor!mainVars
  <2> QED
    BY <2>1
<1>6. CASE UNCHANGED <<waited, mStop, cur>> /\ pc' # "wait"
  BY <1>6
<1>7. CASE UNCHANGED <<waited, mStop, cur, pc>>
  BY <1>7
<1> QED
  BY <1>1, <1>2, <1>3, <1>4, <1>5, <1>6, <1>7
  DEF Sensor!Next, Sensor!Main, Sensor!StartFails, Sensor!Return, Sensor!DeleteListener,
      Sensor!DeleteWaitDone, Sensor!DeleteWaitExpired, Sensor!DeleteSniffer,
      Sensor!DeleteRunning, Sensor!Exit, Sensor!Terminated, Sensor!CaptureCrash,
      Sensor!mainVars, Sensor!vars

\* Every reachable state of the daemon satisfies it.
LEMMA FlagInvariance == Spec => []FlagInv
<1>1. Init => FlagInv
  BY DEF Init, Sensor!Init, FlagInv
<1>2. Sensor!IInv /\ FlagInv /\ [Next]_vars => FlagInv'
  BY SensorStep, SensorFlagInv
<1> QED
  BY <1>1, <1>2, SensorInvariance, PTL DEF Spec

-----------------------------------------------------------------------------
(* The commands that stop the adapters.                                      *)

\* Every adapter has been told to stop; after a stop the sensor holds none.
Stopped(word) ==
  /\ \A a \in born : mStop[a]
  /\ word = "terminate" => adapterList = {}

\* The operation that c's command calls is running.
Stopping(c) == srv = "called" /\ conn[at] = c /\ call = Channel!OperationOf(cmd[c])

StopCommands == {"pause", "terminate"}

\* No command is carried out before start() has created the adapters, and one that
\* stops them has done so when its operation has returned.
StoppedInv ==
  /\ call = "start" => srv = "starting"
  /\ srv \in {"init", "start", "starting"} => \A c \in Controllers : executed[c] = 0
  /\ \A c \in Controllers :
       cmd[c] \in StopCommands /\ executed[c] # 0 => Stopped(cmd[c]) \/ Stopping(c)

\* The slot counts a command when it calls its operation.
LEMMA SlotCounts ==
  ASSUME Answers!AInv, Channel!CallOperation \/ Channel!AnswerSimple, NEW c \in Controllers
  PROVE  \/ executed'[c] = executed[c]
         \/ /\ c = conn[at] /\ at' = at /\ conn' = conn
            /\ Channel!CallOperation => call' = Channel!OperationOf(cmd[c]) /\ srv' = "called"
            /\ Channel!AnswerSimple => cmd[c] \notin StopCommands
<1> DEFINE line == Channel!Line(cache[at])
<1> USE DEF Answers!AInv, Answers!SInv
<1>1. /\ process = "up" /\ srv = "slot" /\ Channel!IsObeyed(line) /\ UNCHANGED <<at, conn>>
      /\ executed' = [executed EXCEPT ![line[1].from] = @ + 1]
      /\ Channel!CallOperation => call' = Channel!OperationOf(line[1].word) /\ srv' = "called"
      /\ Channel!AnswerSimple => Channel!OperationOf(line[1].word) = "none"
  BY DEF Channel!CallOperation, Channel!AnswerSimple, Channel!At, Channel!Count
<1>2. line = Answers!Line(cache[at]) /\ Answers!IsObeyed(line)
  BY <1>1 DEF Channel!Line, Channel!LineEnd, Channel!LineEnds, Channel!IsObeyed, Channel!Obeyed,
              Answers!Line, Answers!LineEnd, Answers!LineEnds, Answers!IsObeyed, Answers!Obeyed
<1>3. line # <<>>
  <2>1. Len(<<>>) = 0
    OBVIOUS
  <2> QED BY <1>2, <2>1 DEF Answers!IsObeyed
<1>4. Answers!SocketAssumption
  BY DaemonAssumption DEF Answers!SocketAssumption, Answers!Words, Answers!Clients, Channel!Words
<1>5. line[1].from = conn[at]
  BY <1>1, <1>2, <1>3, <1>4, Answers!SlotLine
<1> HIDE DEF line
<1>6. CASE c # conn[at]
  BY <1>1, <1>5, <1>6 DEF Answers!TypeOK, Answers!Clients
<1>7. CASE c = conn[at]
  <2>1. Answers!Life(c)
    BY DEF Answers!LifeInv
  <2>2. line[1].word = cmd[c]
    <3>1. line = << [from |-> c, word |-> cmd[c]] >>
      BY <1>1, <1>2, <1>3, <1>4, <1>7, <2>1, Answers!SlotWord
    <3> QED BY <3>1
  <2>3. \A word \in StopCommands : Channel!OperationOf(word) # "none"
    BY DEF Channel!OperationOf, StopCommands
  <2> QED
    BY <1>1, <1>7, <2>2, <2>3
<1> QED
  BY <1>6, <1>7

\* A step of the event loop: it calls an operation for a command, or lets one that has
\* returned be answered.
LEMMA ControlStopped ==
  ASSUME Answers!AInv, Sensor!IInv, StoppedInv, Control
  PROVE  StoppedInv'
<1>1. UNCHANGED <<born, mStop, adapterList>>
  BY DEF Control, sensorVars, Sensor!Invoke, Sensor!captureVars
<1>2. Channel!Server /\ cmd' = cmd
  BY DEF Control, Channel!Server, Channel!SetPath, Channel!StartService, Channel!Started,
         Channel!Accept, Channel!SlotReady, Channel!SlotClosed, Channel!CallOperation,
         Channel!AnswerCalled, Channel!AnswerSimple, Channel!AnswerRefused, Channel!SlotEnd,
         Channel!LoopEnd, Channel!Cleanup, Channel!clientVars
<1>3. CASE Channel!CallOperation \/ Channel!AnswerSimple
  <2>1. srv = "slot" /\ srv' \in {"slot", "called"} /\ call' # "start"
    BY <1>3, OperationNames DEF Channel!CallOperation, Channel!AnswerSimple, Channel!At, StoppedInv
  <2>2. ASSUME NEW c \in Controllers, cmd[c] \in StopCommands, executed'[c] # 0
        PROVE  Stopped(cmd[c])' \/ Stopping(c)'
    <3>1. CASE executed'[c] = executed[c]
      BY <1>1, <1>2, <2>1, <2>2, <3>1 DEF StoppedInv, Stopped, Stopping
    <3>2. CASE executed'[c] # executed[c]
      BY <1>2, <1>3, <2>2, <3>2, SlotCounts DEF Stopping
    <3> QED BY <3>1, <3>2
  <2> QED BY <1>2, <2>1, <2>2 DEF StoppedInv
<1>4. CASE ~ (Channel!CallOperation \/ Channel!AnswerSimple)
  <2>1. /\ executed' = executed
        /\ srv' \in {"init", "start", "starting"} => srv \in {"init", "start", "starting"}
        /\ call' = "start" => srv' = "starting"
        /\ srv = "called" => call = "none"
    BY <1>2, <1>4 DEF Channel!Server, Channel!SetPath, Channel!StartService, Channel!Started,
       Channel!Accept, Channel!SlotReady, Channel!SlotClosed, Channel!AnswerCalled,
       Channel!AnswerRefused, Channel!SlotEnd, Channel!LoopEnd, Channel!Cleanup, Channel!At,
       StoppedInv
  <2>2. \A word \in StopCommands : Channel!OperationOf(word) # "none"
    BY DEF Channel!OperationOf, StopCommands
  <2>3. ASSUME NEW c \in Controllers, cmd[c] \in StopCommands, executed[c] # 0
        PROVE  Stopped(cmd[c])'
    BY <1>1, <1>2, <2>1, <2>2, <2>3 DEF StoppedInv, Stopped, Stopping
  <2> QED BY <1>2, <2>1, <2>3 DEF StoppedInv
<1> QED BY <1>3, <1>4

\* A controller that asks has not been served before; the others keep their commands.
LEMMA UsersStopped ==
  ASSUME Answers!AInv, StoppedInv, Users
  PROVE  StoppedInv'
<1>1. UNCHANGED <<call, srv, conn, at, executed, born, mStop, adapterList>>
  BY DEF Users, sensorVars, Channel!Users, Channel!Connect, Channel!Connects, Channel!ConnectFails,
         Channel!Returns, Channel!Controller, Channel!Send, Channel!Read, Channel!ReadEof,
         Channel!PeerConnect, Channel!PeerWrite, Channel!PeerClose, Channel!serverVars,
         Sensor!captureVars
<1>2. ASSUME NEW c \in Controllers, executed[c] # 0
      PROVE  cmd'[c] = cmd[c]
  <2>1. cpc[c] # "idle"
    BY <1>2 DEF Answers!AInv, Answers!LifeInv, Answers!Life, Answers!Fresh
  <2>2. c \in Answers!Clients /\ cmd \in [Answers!Clients -> Answers!Words \cup {"none"}]
    BY DEF Answers!AInv, Answers!SInv, Answers!TypeOK, Answers!Clients
  <2>3. cmd' = cmd \/ \E d \in Controllers, w \in Requests : cpc[d] = "idle" /\ cmd' = [cmd EXCEPT ![d] = w]
    BY DEF Users, Channel!Users, Channel!Connect, Channel!Connects, Channel!ConnectFails,
           Channel!Returns, Channel!Controller, Channel!Send, Channel!Read, Channel!ReadEof,
           Channel!PeerConnect, Channel!PeerWrite, Channel!PeerClose
  <2> QED BY <2>1, <2>2, <2>3
<1> QED BY <1>1, <1>2 DEF StoppedInv, Stopped, Stopping

\* The operation a command called returns with every adapter told to stop; adapters are
\* created before the first command only.
LEMMA OperationStopped ==
  ASSUME Sensor!IInv, FlagInv, StoppedInv, Operation
  PROVE  StoppedInv'
<1> USE DEF Sensor!IInv, Sensor!PcInv, Sensor!TypeOK, Operation, channelVars, Sensor!captureVars
<1>1. CASE \E a \in Adapters : Sensor!AddAdapter(a)
  <2>1. call = "start" /\ call' = "none" /\ UNCHANGED <<srv, executed>>
    BY <1>1 DEF Sensor!AddAdapter
  <2> QED BY <2>1 DEF StoppedInv
<1>2. CASE \E a \in Adapters : Sensor!StopLoop(a) \/ Sensor!DeleteAdapter(a)
  <2>1. /\ UNCHANGED <<call, srv, conn, at, cmd, executed, born, adapterList>>
        /\ \A a \in born : mStop[a] => mStop'[a]
    BY <1>2 DEF Sensor!StopLoop, Sensor!DeleteAdapter
  <2> QED BY <2>1 DEF StoppedInv, Stopped, Stopping
<1>3. CASE Sensor!Return
  <2>1. /\ UNCHANGED <<srv, conn, at, cmd, executed, born, mStop>>
        /\ call' = "none" /\ pc = "each" /\ todo = {}
        /\ adapterList' = IF call = "stop" THEN {} ELSE adapterList
    BY <1>3 DEF Sensor!Return
  <2>2. call \in {"pause", "stop"} => \A a \in born : mStop[a]
    BY <2>1 DEF Sensor!VisitedInv, FlagInv
  <2>3. ASSUME NEW c \in Controllers, Stopping(c), cmd[c] \in StopCommands
        PROVE  Stopped(cmd[c])'
    <3>1. cmd[c] = "pause" => call = "pause"
      BY <2>3 DEF Stopping, Channel!OperationOf
    <3>2. cmd[c] = "terminate" => call = "stop"
      BY <2>3 DEF Stopping, Channel!OperationOf
    <3> QED BY <2>1, <2>2, <2>3, <3>1, <3>2 DEF Stopped, StopCommands
  <2> QED BY <2>1, <2>3 DEF StoppedInv, Stopped
<1>4. CASE Sensor!DeleteListener
  <2>1. /\ UNCHANGED <<call, srv, conn, at, cmd, executed, born, mStop>>
        /\ adapterList' = {}
    BY <1>4 DEF Sensor!DeleteListener
  <2> QED BY <2>1 DEF StoppedInv, Stopped, Stopping
<1>5. CASE UNCHANGED <<call, srv, conn, at, cmd, executed, born, mStop, adapterList>>
  BY <1>5 DEF StoppedInv, Stopped, Stopping
<1> QED
  BY <1>1, <1>2, <1>3, <1>4, <1>5
  DEF Sensor!Main, Sensor!StartThread, Sensor!StartFails, Sensor!WaitDone, Sensor!WaitExpired,
      Sensor!WaitReturns, Sensor!DeleteWaitDone, Sensor!DeleteWaitExpired,
      Sensor!DeleteSniffer, Sensor!DeleteRunning, Sensor!Exit

\* Every reachable state satisfies it.
LEMMA StoppedInvariance ==
  ASSUME Answers!LinesAreWhole
  PROVE  Spec => []StoppedInv
<1>1. Init => StoppedInv
  BY DEF Init, Sensor!Init, Channel!Init, Channel!Clients, StoppedInv, StopCommands
<1>2. Answers!AInv /\ Sensor!IInv /\ FlagInv /\ StoppedInv /\ [Next]_vars => StoppedInv'
  <2> SUFFICES ASSUME Answers!AInv, Sensor!IInv, FlagInv, StoppedInv, [Next]_vars
               PROVE  StoppedInv'
    OBVIOUS
  <2>1. CASE Over \/ UNCHANGED vars \/ \E a \in Adapters : CaptureThread(a) \/ CaptureCrash(a)
    <3>1. UNCHANGED <<call, srv, conn, at, cmd, executed, born, mStop, adapterList>>
      BY <2>1 DEF Over, Channel!Quiescent, Channel!vars, Channel!serverVars, Channel!clientVars, vars,
         sensorVars, channelVars, CaptureThread, CaptureCrash, Sensor!CaptureCrash, Sensor!Capture,
         Sensor!LoopHead, Sensor!MonitorEntry, Sensor!FetchPacket, Sensor!FetchStale,
         Sensor!TakesPacket, Sensor!FetchNothing, Sensor!ProcessPacket, Sensor!Sleep,
         Sensor!Finish, Sensor!Goes, Sensor!mainVars, Sensor!captureVars
    <3> QED BY <3>1 DEF StoppedInv, Stopped, Stopping
  <2> QED BY <2>1, ControlStopped, UsersStopped, OperationStopped DEF Next
<1> QED
  BY <1>1, <1>2, ChannelInvariance, SensorInvariance, FlagInvariance, PTL DEF Spec

\* A controller that returned "true" had its command carried out, and the answer was
\* written after the operation.
LEMMA TrueMeansServed ==
  ASSUME Answers!AInv, StoppedInv, NEW c \in Controllers,
         cmd[c] \in StopCommands, ret[c] = "true"
  PROVE  Stopped(cmd[c])
<1>1. Answers!Answered(c) /\ Answers!Obeyed(cmd[c])
  BY DEF Answers!AInv, Answers!LifeInv, Answers!Life, Answers!SInv, Answers!TypeOK, Answers!Clients
<1>2. executed[c] # 0 /\ ~ Stopping(c)
  BY <1>1 DEF Answers!Answered, Answers!Served, Stopping
<1> QED
  BY <1>2 DEF StoppedInv

\* If the peers write whole lines, "true" for a pause or a stop means that every adapter
\* has been told to stop, and that each thread takes up at most one packet more
\* (qtservice_unix.cpp:329-339, otservice.cpp:33-49, sniffer.cpp:42-64).
THEOREM TrueMeansStopping ==
  ASSUME Answers!LinesAreWhole
  PROVE  Spec => []AnsweredMeansStopping
<1>1. Answers!AInv /\ Sensor!IInv /\ StoppedInv => AnsweredMeansStopping
  <2>1. ASSUME Sensor!IInv, NEW a \in born
        PROVE  late[a] <= 1
    <3>1. a \in Adapters /\ late[a] \in Nat
      BY <2>1 DEF Sensor!IInv, Sensor!TypeOK
    <3>2. late[a] # 0 => late[a] = 1
      BY <2>1, <3>1 DEF Sensor!IInv, Sensor!LateInv
    <3> QED BY <3>1, <3>2
  <2> QED
    BY <2>1, TrueMeansServed DEF AnsweredMeansStopping, Stopped, StopCommands
<1> QED
  BY <1>1, ChannelInvariance, SensorInvariance, StoppedInvariance, PTL

\* If the peers write whole lines, "true" for a stop means that the sensor holds no
\* adapter any more (otlistener.cpp:43-53, qtservice_unix.cpp:329-333).
THEOREM TrueStopDetaches ==
  ASSUME Answers!LinesAreWhole
  PROVE  Spec => []AnsweredStopDetaches
<1>1. Answers!AInv /\ StoppedInv => AnsweredStopDetaches
  BY TrueMeansServed DEF AnsweredStopDetaches, Stopped, StopCommands
<1> QED
  BY <1>1, ChannelInvariance, StoppedInvariance, PTL
=============================================================================
