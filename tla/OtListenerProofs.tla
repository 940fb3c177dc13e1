--------------------------- MODULE OtListenerProofs ---------------------------
(***************************************************************************)
(* Proofs about OtListener, for every set of adapters.  IInv is inductive;  *)
(* it implies the safety properties of the sensor.                          *)
(***************************************************************************)
EXTENDS OtListener, TLAPS

\* The initial state satisfies the inductive invariant.
LEMMA InitIInv == Init => IInv
<1> SUFFICES ASSUME Init PROVE IInv
  OBVIOUS
<1> USE DEF Init
<1>1. TypeOK
  BY DEF TypeOK, Operations, ThreadStates, Running, WaitResults
<1>2. PcInv /\ UnbornInv /\ LateInv
  BY DEF PcInv, UnbornInv, LateInv
<1>3. WaitedInv /\ VisitedInv /\ DeleteInv /\ AbortNeedsTwoExpiries
  BY DEF WaitedInv, VisitedInv, DeleteInv, AbortNeedsTwoExpiries
<1> QED
  BY <1>1, <1>2, <1>3 DEF IInv

\* Calling an operation disturbs only the places and the loop of the main thread.
LEMMA InvokeStep ==
  ASSUME IInv, NEW op \in Operations, Invoke(op)
  PROVE  IInv'
<1> USE DEF IInv, Invoke, captureVars, historyVars
<1>1. TypeOK'
  BY DEF TypeOK, Operations
<1>2. PcInv'
  BY DEF PcInv, TypeOK, Operations
<1>3. UnbornInv' /\ LateInv' /\ WaitedInv'
  BY DEF UnbornInv, LateInv, WaitedInv, Silent
<1>4. VisitedInv'
  BY DEF VisitedInv, Operations
<1>5. DeleteInv' /\ AbortNeedsTwoExpiries'
  BY DEF DeleteInv, AbortNeedsTwoExpiries, Silent
<1> QED
  BY <1>1, <1>2, <1>3, <1>4, <1>5

\* A new adapter enters the list with its thread running and its history empty.
LEMMA AddAdapterStep ==
  ASSUME IInv, NEW a \in Adapters, AddAdapter(a)
  PROVE  IInv'
<1> USE DEF IInv, AddAdapter, historyVars
<1>1. TypeOK'
  BY DEF TypeOK, Operations, ThreadStates, Running
<1>2. PcInv'
  BY DEF PcInv
<1>3. UnbornInv'
  BY DEF UnbornInv
<1>4. LateInv'
  BY DEF LateInv, TypeOK
<1>5. WaitedInv'
  BY DEF WaitedInv, UnbornInv, Silent, TypeOK
<1>6. VisitedInv'
  BY DEF VisitedInv
<1>7. DeleteInv'
  BY DEF DeleteInv, UnbornInv, PcInv, Silent, TypeOK
<1>8. AbortNeedsTwoExpiries'
  BY DEF AbortNeedsTwoExpiries
<1> QED
  BY <1>1, <1>2, <1>3, <1>4, <1>5, <1>6, <1>7, <1>8

\* Setting the flag and starting to wait, for a stop or a pause.
LEMMA StopLoopStep ==
  ASSUME IInv, NEW a \in Adapters, StopLoop(a)
  PROVE  IInv'
<1> USE DEF IInv, StopLoop, historyVars
<1>1. TypeOK'
  BY DEF TypeOK
<1>2. PcInv'
  BY DEF PcInv, TypeOK
<1>3. UnbornInv' /\ WaitedInv' /\ DeleteInv' /\ AbortNeedsTwoExpiries'
  BY DEF UnbornInv, WaitedInv, DeleteInv, AbortNeedsTwoExpiries, Silent
<1>4. LateInv'
  BY DEF LateInv, TypeOK
<1>5. VisitedInv'
  BY DEF VisitedInv, PcInv, TypeOK
<1> QED
  BY <1>1, <1>2, <1>3, <1>4, <1>5

\* The wait of a stop or a pause ends; its result tells the thread's state.
LEMMA WaitStep ==
  ASSUME IInv, WaitDone \/ WaitExpired
  PROVE  IInv'
<1> USE DEF IInv, WaitDone, WaitExpired, WaitReturns, captureVars
<1>1. TypeOK'
  BY DEF TypeOK, WaitResults
<1>2. PcInv'
  BY DEF PcInv
<1>3. UnbornInv'
  BY DEF UnbornInv, PcInv, TypeOK
<1>4. LateInv'
  BY DEF LateInv
<1>5. WaitedInv'
  BY DEF WaitedInv, Silent, TypeOK
<1>6. VisitedInv'
  BY DEF VisitedInv, TypeOK, PcInv
<1>7. DeleteInv' /\ AbortNeedsTwoExpiries'
  BY DEF DeleteInv, AbortNeedsTwoExpiries, Silent
<1> QED
  BY <1>1, <1>2, <1>3, <1>4, <1>5, <1>6, <1>7

\* A resume may restart a thread that was waited for; only a listed adapter's.
LEMMA StartThreadStep ==
  ASSUME IInv, NEW a \in Adapters, StartThread(a)
  PROVE  IInv'
<1> USE DEF IInv, StartThread
<1>1. TypeOK'
  BY DEF TypeOK, ThreadStates, Running, WaitResults
<1>2. PcInv'
  BY DEF PcInv
<1>3. UnbornInv'
  BY DEF UnbornInv, TypeOK
<1>4. LateInv'
  BY DEF LateInv, TypeOK
<1>5. WaitedInv'
  BY DEF WaitedInv, Silent, TypeOK
<1>6. VisitedInv'
  BY DEF VisitedInv, PcInv, TypeOK
<1>7. DeleteInv'
  BY DEF DeleteInv, PcInv, Silent, TypeOK
<1>8. AbortNeedsTwoExpiries'
  BY DEF AbortNeedsTwoExpiries
<1> QED
  BY <1>1, <1>2, <1>3, <1>4, <1>5, <1>6, <1>7, <1>8

\* The end of a loop: every adapter the list loses has been waited for.
LEMMA LoopEndStep ==
  ASSUME IInv, Return \/ DeleteListener
  PROVE  IInv'
<1> USE DEF IInv, Return, DeleteListener, captureVars, historyVars
<1>1. TypeOK'
  BY DEF TypeOK, Operations
<1>2. PcInv'
  BY DEF PcInv
<1>3. UnbornInv' /\ LateInv' /\ WaitedInv' /\ AbortNeedsTwoExpiries'
  BY DEF UnbornInv, LateInv, WaitedInv, AbortNeedsTwoExpiries, Silent
<1>4. VisitedInv'
  BY DEF VisitedInv, TypeOK
<1>5. DeleteInv'
  BY DEF DeleteInv, Silent
<1> QED
  BY <1>1, <1>2, <1>3, <1>4, <1>5

\* ~Adapter up to the end of its wait, and ~Sniffer of a thread that has ended.
LEMMA DeleteStep ==
  ASSUME IInv,
         \/ \E a \in Adapters : DeleteAdapter(a)
         \/ DeleteWaitDone
         \/ DeleteWaitExpired
         \/ DeleteSniffer
  PROVE  IInv'
<1> USE DEF IInv
<1>1. CASE \E a \in Adapters : DeleteAdapter(a)
  <2> PICK a \in Adapters : DeleteAdapter(a)
    BY <1>1
  <2> USE DEF DeleteAdapter, historyVars
  <2>1. TypeOK'
    BY DEF TypeOK
  <2>2. PcInv' /\ VisitedInv'
    BY DEF PcInv, VisitedInv, TypeOK
  <2>3. UnbornInv' /\ WaitedInv' /\ DeleteInv' /\ AbortNeedsTwoExpiries'
    BY DEF UnbornInv, WaitedInv, DeleteInv, AbortNeedsTwoExpiries, Silent
  <2>4. LateInv'
    BY DEF LateInv, TypeOK
  <2> QED
    BY <2>1, <2>2, <2>3, <2>4
<1>2. CASE DeleteWaitDone \/ DeleteWaitExpired
  <2> USE <1>2 DEF DeleteWaitDone, DeleteWaitExpired, WaitReturns, captureVars
  <2>1. TypeOK'
    BY DEF TypeOK, WaitResults
  <2>2. PcInv' /\ VisitedInv'
    BY DEF PcInv, VisitedInv
  <2>3. UnbornInv'
    BY DEF UnbornInv, PcInv, TypeOK
  <2>4. LateInv' /\ WaitedInv' /\ AbortNeedsTwoExpiries'
    BY DEF LateInv, WaitedInv, AbortNeedsTwoExpiries, Silent
  <2>5. DeleteInv'
    BY DEF DeleteInv, PcInv, Silent, TypeOK
  <2> QED
    BY <2>1, <2>2, <2>3, <2>4, <2>5
<1>3. CASE DeleteSniffer
  <2> USE <1>3 DEF DeleteSniffer, historyVars
  <2>1. TypeOK'
    BY DEF TypeOK, ThreadStates, Running
  <2>2. PcInv' /\ UnbornInv' /\ VisitedInv' /\ AbortNeedsTwoExpiries'
    BY DEF PcInv, UnbornInv, VisitedInv, AbortNeedsTwoExpiries
  <2>3. LateInv' /\ WaitedInv' /\ DeleteInv'
    BY DEF LateInv, WaitedInv, DeleteInv, Silent, TypeOK
  <2> QED
    BY <2>1, <2>2, <2>3
<1> QED
  BY <1>1, <1>2, <1>3

\* The ways the process ends; only DeleteRunning aborts it.
LEMMA EndStep ==
  ASSUME IInv,
         \/ StartFails
         \/ DeleteRunning
         \/ Exit
         \/ \E a \in Adapters : CaptureCrash(a)
  PROVE  IInv'
<1> USE DEF IInv
<1>1. /\ process' \in {"failed", "aborted", "exited", "crashed"}
      /\ process' = "aborted" => DeleteRunning
      /\ UNCHANGED <<mainVars, captureVars>>
  BY DEF StartFails, DeleteRunning, Exit, CaptureCrash, mainVars, captureVars, historyVars
<1> USE <1>1 DEF mainVars, captureVars, historyVars
<1>2. TypeOK'
  BY DEF TypeOK
<1>3. PcInv' /\ UnbornInv' /\ LateInv'
  BY DEF PcInv, UnbornInv, LateInv
<1>4. WaitedInv' /\ VisitedInv' /\ DeleteInv'
  BY DEF WaitedInv, VisitedInv, DeleteInv, Silent
<1>5. AbortNeedsTwoExpiries'
  <2> SUFFICES ASSUME DeleteRunning
               PROVE  waited[cur] = "expired" /\ deleteWait[cur] = "expired" /\ cur \in Adapters
    BY DEF AbortNeedsTwoExpiries
  <2>1. cur \in born /\ adapterList = {} /\ thread[cur] \in Running
    BY DEF DeleteRunning, PcInv, VisitedInv
  <2>2. ~ Silent(cur) /\ cur \in Adapters
    BY <2>1 DEF Silent, Running, TypeOK
  <2>3. waited[cur] # "no" /\ deleteWait[cur] # "no"
    BY <2>1 DEF VisitedInv, DeleteInv, DeleteRunning
  <2> QED
    BY <2>2, <2>3 DEF WaitedInv, DeleteInv, TypeOK, WaitResults
<1> QED
  BY <1>2, <1>3, <1>4, <1>5

\* A capture thread moves itself and nothing of the main thread.
LEMMA CaptureStep ==
  ASSUME IInv, NEW a \in Adapters, Capture(a)
  PROVE  IInv'
<1> USE DEF IInv
<1>1. /\ UNCHANGED <<process, mainVars, mStop>>
      /\ \E to \in ThreadStates : thread' = [thread EXCEPT ![a] = to]
      /\ header' \in [Adapters -> BOOLEAN]
      /\ thread[a] \notin {"ready", "none"}
      /\ process = "up"
  BY DEF Capture, LoopHead, MonitorEntry, TakesPacket, FetchPacket, FetchStale, FetchNothing,
         ProcessPacket, Sleep, Finish, Goes, ThreadStates, Running, TypeOK
<1>2. LateInv' /\ late' \in [Adapters -> Nat]
  <2>1. CASE TakesPacket(a)
    BY <2>1, <1>1 DEF TakesPacket, Goes, LateInv, TypeOK
  <2>2. CASE LoopHead(a) \/ MonitorEntry(a)
    BY <2>2 DEF LoopHead, MonitorEntry, Goes, LateInv, TypeOK
  <2>3. CASE FetchNothing(a) \/ ProcessPacket(a) \/ Sleep(a) \/ Finish(a)
    BY <2>3 DEF FetchNothing, ProcessPacket, Sleep, Finish, Goes, LateInv, TypeOK
  <2> QED
    BY <2>1, <2>2, <2>3 DEF Capture, FetchPacket, FetchStale
<1>3. TypeOK'
  BY <1>1, <1>2 DEF TypeOK, mainVars, historyVars
<1>4. PcInv' /\ UnbornInv' /\ VisitedInv' /\ AbortNeedsTwoExpiries'
  BY <1>1 DEF PcInv, UnbornInv, VisitedInv, AbortNeedsTwoExpiries, mainVars, historyVars
<1>5. WaitedInv' /\ DeleteInv'
  BY <1>1 DEF WaitedInv, DeleteInv, Silent, TypeOK, mainVars, historyVars
<1> QED
  BY <1>2, <1>3, <1>4, <1>5

\* The invariant is inductive.
LEMMA NextIInv == IInv /\ [Next]_vars => IInv'
<1> SUFFICES ASSUME IInv, [Next]_vars PROVE IInv'
  OBVIOUS
<1>1. CASE \E op \in Operations : Invoke(op)
  BY <1>1, InvokeStep
<1>2. CASE Main
  <2>1. CASE \E a \in Adapters : AddAdapter(a)
    BY <2>1, AddAdapterStep
  <2>2. CASE \E a \in Adapters : StopLoop(a)
    BY <2>2, StopLoopStep
  <2>3. CASE \E a \in Adapters : StartThread(a)
    BY <2>3, StartThreadStep
  <2>4. CASE WaitDone \/ WaitExpired
    BY <2>4, WaitStep
  <2>5. CASE Return \/ DeleteListener
    BY <2>5, LoopEndStep
  <2>6. CASE (\E a \in Adapters : DeleteAdapter(a)) \/ DeleteWaitDone \/ DeleteWaitExpired
             \/ DeleteSniffer
    BY <2>6, DeleteStep
  <2>7. CASE StartFails \/ DeleteRunning \/ Exit
    BY <2>7, EndStep
  <2> QED
    BY <1>2, <2>1, <2>2, <2>3, <2>4, <2>5, <2>6, <2>7 DEF Main
<1>3. CASE \E a \in Adapters : Capture(a)
  BY <1>3, CaptureStep
<1>4. CASE \E a \in Adapters : CaptureCrash(a)
  BY <1>4, EndStep
<1>5. CASE UNCHANGED vars
  BY <1>5 DEF vars, captureVars, historyVars, IInv, TypeOK, PcInv, UnbornInv, LateInv,
              WaitedInv, VisitedInv, DeleteInv, AbortNeedsTwoExpiries, Silent
<1> QED
  BY <1>1, <1>2, <1>3, <1>4, <1>5 DEF Next, Terminated

\* Every reachable state satisfies the inductive invariant.
THEOREM Invariance == Spec => []IInv
BY InitIInv, NextIInv, PTL DEF Spec

\* Type correctness: the lists hold existing adapters only, and every variable of
\* main thread and capture threads stays in its range (otlistener.h, sniffer.h).
THEOREM TypeCorrect == Spec => []TypeOK
<1>1. IInv => TypeOK
  BY DEF IInv
<1> QED
  BY <1>1, Invariance, PTL

\* At most one packet is taken up per sniffer once its flag is set, for any number
\* of adapters and any interleaving (sniffer.cpp:47-64, 122-152).
THEOREM AtMostOneLatePacket == Spec => []LateBound
<1>1. IInv => LateBound
  <2> SUFFICES ASSUME IInv, NEW a \in Adapters PROVE late[a] <= 1
    BY DEF LateBound
  <2>1. late[a] = 0 \/ late[a] = 1
    BY DEF IInv, LateInv
  <2> QED
    BY <2>1
<1> QED
  BY <1>1, Invariance, PTL

\* A detached adapter stays detached, and its ended thread stays so: every loop
\* of the main thread is over listed adapters, and start() makes new ones.
LEMMA DetachedStep ==
  ASSUME IInv, [Next]_vars, NEW a \in Adapters, a \in born \ adapterList, Silent(a)
  PROVE  a \in born' \ adapterList' /\ Silent(a)'
<1> USE DEF Silent
<1>1. CASE UNCHANGED vars
  BY <1>1 DEF vars, captureVars
<1>2. CASE \E op \in Operations : Invoke(op)
  BY <1>2 DEF Invoke, captureVars
<1>3. CASE \E b \in Adapters : AddAdapter(b) \/ StopLoop(b) \/ DeleteAdapter(b)
  BY <1>3 DEF AddAdapter, StopLoop, DeleteAdapter, IInv, TypeOK
<1>4. CASE \E b \in Adapters : StartThread(b)
  <2> PICK b \in Adapters : StartThread(b)
    BY <1>4
  <2>1. a # b
    BY DEF StartThread, IInv, PcInv
  <2> QED
    BY <2>1 DEF StartThread, IInv, TypeOK
<1>5. CASE StartFails \/ WaitDone \/ WaitExpired \/ Return \/ DeleteListener
           \/ DeleteWaitDone \/ DeleteWaitExpired \/ DeleteRunning \/ Exit
  BY <1>5 DEF StartFails, WaitDone, WaitExpired, Return, DeleteListener, DeleteWaitDone,
     DeleteWaitExpired, DeleteRunning, Exit, captureVars
<1>6. CASE DeleteSniffer
  BY <1>6 DEF DeleteSniffer, IInv, TypeOK
<1>7. CASE \E b \in Adapters : Capture(b) \/ CaptureCrash(b)
  <2> PICK b \in Adapters : Capture(b) \/ CaptureCrash(b)
    BY <1>7
  <2>1. CASE Capture(b)
    <3>1. /\ UNCHANGED <<born, adapterList>>
          /\ \E to \in ThreadStates : thread' = [thread EXCEPT ![b] = to]
          /\ thread[b] \notin {"ready", "none"}
      BY <2>1 DEF Capture, LoopHead, MonitorEntry, TakesPacket, FetchPacket, FetchStale,
         FetchNothing, ProcessPacket, Sleep, Finish, Goes, ThreadStates, Running, mainVars
    <3> QED
      BY <3>1 DEF IInv, TypeOK
  <2>2. CASE CaptureCrash(b)
    BY <2>2 DEF CaptureCrash, mainVars, captureVars
  <2> QED
    BY <2>1, <2>2
<1> QED
  BY <1>1, <1>2, <1>3, <1>4, <1>5, <1>6, <1>7 DEF Next, Main, Terminated

\* The thread of an adapter that stop() has forgotten does not come back once it is
\* over, whatever operations follow (otlistener.cpp:14-64, adapter.cpp:25-50).
THEOREM StoppedStaysStopped == Spec => StoppedForGood
<1> SUFFICES ASSUME NEW a \in Adapters
             PROVE  Spec => [](a \in born \ adapterList /\ Silent(a) => []Silent(a))
  BY DEF StoppedForGood
<1>1. IInv /\ [Next]_vars /\ (a \in born \ adapterList /\ Silent(a))
        => (a \in born \ adapterList /\ Silent(a))'
  BY DetachedStep
<1> QED
  BY <1>1, Invariance, PTL DEF Spec

\* The process aborts only when one thread outlived both of its waits
\* (otservice.cpp:20-25, otlistener.cpp:43-53, adapter.cpp:12-36).
THEOREM AbortOnlyAfterTwoExpiries == Spec => []AbortNeedsTwoExpiries
<1>1. IInv => AbortNeedsTwoExpiries
  BY DEF IInv
<1> QED
  BY <1>1, Invariance, PTL

\* A pause never returns past a running thread it has not waited 500 ms for
\* (otlistener.cpp:55-64, adapter.cpp:38-45).
THEOREM PauseWaitsForAll == Spec => PauseHolds
<1>1. IInv /\ [Next]_vars =>
        [(call = "pause" /\ call' = "none") =>
           \A a \in adapterList : Silent(a) \/ waited[a] = "expired"]_vars
  <2> SUFFICES ASSUME IInv, Next, call = "pause", call' = "none", NEW a \in adapterList
               PROVE  Silent(a) \/ waited[a] = "expired"
    OBVIOUS
  <2>1. Return
    <3>1. ~ \E op \in Operations : Invoke(op)
      BY DEF Invoke
    <3>2. ~ \E b \in Adapters : AddAdapter(b)
      BY DEF AddAdapter, IInv, PcInv
    <3>3. ~ \E b \in Adapters : Capture(b) \/ CaptureCrash(b)
      BY DEF Capture, LoopHead, MonitorEntry, TakesPacket, FetchPacket, FetchStale,
             FetchNothing, ProcessPacket, Sleep, Finish, Goes, CaptureCrash, mainVars
    <3>4. ~ Terminated
      BY DEF Terminated, vars
    <3> QED
      BY <3>1, <3>2, <3>3, <3>4 DEF Next, Main, StopLoop, StartThread, DeleteAdapter, StartFails,
         WaitDone, WaitExpired, DeleteListener, DeleteWaitDone, DeleteWaitExpired,
         DeleteSniffer, DeleteRunning, Exit
  <2>2. waited[a] # "no" /\ a \in Adapters
    BY <2>1 DEF Return, IInv, VisitedInv, TypeOK
  <2> QED
    BY <2>2 DEF IInv, WaitedInv, TypeOK, WaitResults
<1> QED
  BY <1>1, Invariance, PTL DEF Spec, PauseHolds
=============================================================================
