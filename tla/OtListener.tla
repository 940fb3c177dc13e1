------------------------------ MODULE OtListener ------------------------------
(***************************************************************************)
(* The sensor of the daemon: OtListener (otlistener.cpp) owns Adapters      *)
(* (adapter.cpp), each Adapter owns a Sniffer, and each Sniffer is a QThread *)
(* (sniffer.cpp) that captures packets.  The main thread runs the service    *)
(* operations (otservice.cpp) one at a time; every capture thread runs       *)
(* beside it.  They share one plain bool per Sniffer, m_stop.                *)
(*                                                                           *)
(* The main thread's operation is `call': an operation is invoked by the     *)
(* service framework when call = "none", and call is "none" again when the   *)
(* operation has returned.  `destroy' is ~OtService, which ends the process. *)
(***************************************************************************)
EXTENDS Naturals

CONSTANTS Adapters,   \* the Adapter objects init() can create
          NoAdapter   \* `cur' while the main thread handles none

ASSUME NoAdapterAssumption == NoAdapter \notin Adapters

VARIABLES
  call,         \* the service operation the main thread is executing
  process,      \* "up", or how the process ended
  pc,           \* where in that operation the main thread is
  cur,          \* the adapter it is waiting for or deleting
  todo,         \* the adapters its loop has still to visit
  adapterList,  \* OtListener::adapterList
  born,         \* the Adapter objects init() has created, children of the listener
  mStop,        \* Sniffer::m_stop
  thread,       \* where each capture thread is
  header,       \* does the pcap handle's header describe a packet?
  waited,       \* history: how the last wait(500) of a stop or a pause ended
  deleteWait,   \* history: how the wait(500) of ~Adapter ended
  late          \* history: packets taken up although m_stop was set

captureVars == <<mStop, thread, header, late>>
historyVars == <<waited, deleteWait>>
vars == <<call, process, pc, cur, todo, adapterList, born, captureVars, historyVars>>

Operations == {"start", "pause", "resume", "stop", "destroy"}

\* The places of a capture thread between QThread::start and the end of run().
Running == {"head", "entry", "fetch", "packet", "sleep"}
\* "ready": not started or ended, "finish": run() has returned, "none": no object.
ThreadStates == Running \cup {"none", "ready", "finish"}

WaitResults == {"no", "done", "expired"}

\* One type invariant: every variable is in its range, and the lists only hold
\* adapters that exist (otlistener.h, sniffer.h).
TypeOK ==
  /\ call \in Operations \cup {"none"}
  /\ process \in {"up", "exited", "failed", "aborted", "crashed"}
  /\ pc \in {"idle", "init", "each", "wait", "children", "cwait", "dtor"}
  /\ cur \in Adapters \cup {NoAdapter}
  /\ born \subseteq Adapters
  /\ adapterList \subseteq born
  /\ todo \subseteq born
  /\ mStop \in [Adapters -> BOOLEAN]
  /\ thread \in [Adapters -> ThreadStates]
  /\ header \in [Adapters -> BOOLEAN]
  /\ waited \in [Adapters -> WaitResults]
  /\ deleteWait \in [Adapters -> WaitResults]
  /\ late \in [Adapters -> Nat]

Init ==
  /\ call = "none"
  /\ process = "up"
  /\ pc = "idle"
  /\ cur = NoAdapter
  /\ todo = {}
  /\ adapterList = {}
  /\ born = {}
  /\ mStop = [a \in Adapters |-> FALSE]
  /\ thread = [a \in Adapters |-> "none"]
  /\ header = [a \in Adapters |-> FALSE]
  /\ waited = [a \in Adapters |-> "no"]
  /\ deleteWait = [a \in Adapters |-> "no"]
  /\ late = [a \in Adapters |-> 0]

-----------------------------------------------------------------------------
(* The main thread.                                                          *)

\* Wrong: the loop runs over the child objects, not over the list.
InvokeChildren(op) ==
  /\ process = "up"
  /\ call = "none"
  /\ op = "start" => born # Adapters
  /\ call' = op
  /\ pc' = IF op = "start" THEN "init" ELSE "each"
  /\ todo' = IF op = "start" THEN {} ELSE born
  /\ UNCHANGED <<process, cur, adapterList, born, captureVars, historyVars>>

\* The framework calls a service operation.  start() goes to init(), the others
\* to a loop over adapterList.
Invoke(op) ==
  /\ process = "up"
  /\ call = "none"
  /\ op = "start" => born # Adapters
  /\ call' = op
  /\ pc' = IF op = "start" THEN "init" ELSE "each"
  /\ todo' = IF op = "start" THEN {} ELSE adapterList
  /\ UNCHANGED <<process, cur, adapterList, born, captureVars, historyVars>>

\* Wrong: the Adapter is not made a child of the listener.
AddAdapterOrphan(a) ==
  /\ process = "up"
  /\ pc = "init"
  /\ a \notin born
  /\ adapterList' = adapterList \cup {a}
  /\ thread' = [thread EXCEPT ![a] = "head"]
  /\ call' = "none"
  /\ pc' = "idle"
  /\ UNCHANGED <<process, cur, todo, born, mStop, header, late, historyVars>>

\* init(): a new Adapter opens its pcap handle, starts its capture thread and is
\* appended to the list.
AddAdapter(a) ==
  /\ process = "up"
  /\ pc = "init"
  /\ a \notin born
  /\ born' = born \cup {a}
  /\ adapterList' = adapterList \cup {a}
  /\ thread' = [thread EXCEPT ![a] = "head"]
  /\ call' = "none"
  /\ pc' = "idle"
  /\ UNCHANGED <<process, cur, todo, mStop, header, late, historyVars>>

\* StartPcap and SetPcapFilter leave with exit(EXIT_FAILURE) when the interface
\* cannot be opened, configured or filtered.
StartFails ==
  /\ process = "up"
  /\ pc = "init"
  /\ process' = "failed"
  /\ UNCHANGED <<call, pc, cur, todo, adapterList, born, captureVars, historyVars>>

\* Wrong: the flag is set and nobody waits.
StopLoopNoWait(a) ==
  /\ process = "up"
  /\ call \in {"pause", "stop", "destroy"}
  /\ pc = "each"
  /\ a \in todo
  /\ todo' = todo \ {a}
  /\ mStop' = [mStop EXCEPT ![a] = TRUE]
  /\ UNCHANGED <<call, process, pc, cur, adapterList, born, thread, header, late, historyVars>>

\* Adapter::stopLoop and Adapter::setPause(true): set the flag, then wait(500).
\* quit() does nothing: run() has no event loop.
StopLoop(a) ==
  /\ process = "up"
  /\ call \in {"pause", "stop", "destroy"}
  /\ pc = "each"
  /\ a \in todo
  /\ todo' = todo \ {a}
  /\ mStop' = [mStop EXCEPT ![a] = TRUE]
  /\ cur' = a
  /\ pc' = "wait"
  /\ UNCHANGED <<call, process, adapterList, born, thread, header, late, historyVars>>

\* wait(500) of `p' returns: the thread has ended, or the time is over.
WaitReturns(p, result) ==
  /\ process = "up"
  /\ pc = p
  /\ (thread[cur] = "ready") <=> (result = "done")

WaitDone ==
  /\ WaitReturns("wait", "done")
  /\ waited' = [waited EXCEPT ![cur] = "done"]
  /\ pc' = "each"
  /\ UNCHANGED <<call, process, cur, todo, adapterList, born, captureVars, deleteWait>>

WaitExpired ==
  /\ WaitReturns("wait", "expired")
  /\ waited' = [waited EXCEPT ![cur] = "expired"]
  /\ pc' = "each"
  /\ UNCHANGED <<call, process, cur, todo, adapterList, born, captureVars, deleteWait>>

\* Adapter::setPause(false): QThread::start does nothing while the thread runs,
\* and lets a thread that is finishing end first.  m_stop keeps its value.
StartThread(a) ==
  /\ process = "up"
  /\ call = "resume"
  /\ pc = "each"
  /\ a \in todo
  /\ thread[a] # "finish"
  /\ todo' = todo \ {a}
  /\ IF thread[a] = "ready"
       THEN /\ thread' = [thread EXCEPT ![a] = "head"]
            /\ waited' = [waited EXCEPT ![a] = "no"]
       ELSE UNCHANGED <<thread, waited>>
  /\ UNCHANGED <<call, process, pc, cur, adapterList, born, mStop, header, late, deleteWait>>

\* Wrong: the loop returns early, as with a `return' in its body.
ReturnEarly ==
  /\ process = "up"
  /\ call \in {"pause", "resume", "stop"}
  /\ pc = "each"
  /\ adapterList' = IF call = "stop" THEN {} ELSE adapterList
  /\ call' = "none"
  /\ pc' = "idle"
  /\ UNCHANGED <<process, cur, todo, born, captureVars, historyVars>>

\* Wrong: stop() keeps its list.
ReturnKeepsList ==
  /\ process = "up"
  /\ call \in {"pause", "resume", "stop"}
  /\ pc = "each"
  /\ todo = {}
  /\ call' = "none"
  /\ pc' = "idle"
  /\ UNCHANGED <<process, cur, todo, adapterList, born, captureVars, historyVars>>

\* The loop is over: stop() forgets the adapters without deleting them.
Return ==
  /\ process = "up"
  /\ call \in {"pause", "resume", "stop"}
  /\ pc = "each"
  /\ todo = {}
  /\ adapterList' = IF call = "stop" THEN {} ELSE adapterList
  /\ call' = "none"
  /\ pc' = "idle"
  /\ UNCHANGED <<process, cur, todo, born, captureVars, historyVars>>

\* Wrong: the service does not delete its listener.
DeleteListenerLeaks ==
  /\ process = "up"
  /\ call = "destroy"
  /\ pc = "each"
  /\ todo = {}
  /\ adapterList' = {}
  /\ pc' = "children"
  /\ UNCHANGED <<call, process, cur, todo, born, captureVars, historyVars>>

\* ~OtService: after stop(), deleting the listener deletes its child objects.
DeleteListener ==
  /\ process = "up"
  /\ call = "destroy"
  /\ pc = "each"
  /\ todo = {}
  /\ adapterList' = {}
  /\ todo' = born
  /\ pc' = "children"
  /\ UNCHANGED <<call, process, cur, born, captureVars, historyVars>>

\* ~Adapter: the flag and the wait again ...
DeleteAdapter(a) ==
  /\ process = "up"
  /\ pc = "children"
  /\ a \in todo
  /\ todo' = todo \ {a}
  /\ mStop' = [mStop EXCEPT ![a] = TRUE]
  /\ cur' = a
  /\ pc' = "cwait"
  /\ UNCHANGED <<call, process, adapterList, born, thread, header, late, historyVars>>

DeleteWaitDone ==
  /\ WaitReturns("cwait", "done")
  /\ deleteWait' = [deleteWait EXCEPT ![cur] = "done"]
  /\ pc' = "dtor"
  /\ UNCHANGED <<call, process, cur, todo, adapterList, born, captureVars, waited>>

DeleteWaitExpired ==
  /\ WaitReturns("cwait", "expired")
  /\ deleteWait' = [deleteWait EXCEPT ![cur] = "expired"]
  /\ pc' = "dtor"
  /\ UNCHANGED <<call, process, cur, todo, adapterList, born, captureVars, waited>>

\* ... then ~Sniffer and ~QThread: a thread that is finishing is waited for, ...
DeleteSniffer ==
  /\ process = "up"
  /\ pc = "dtor"
  /\ thread[cur] = "ready"
  /\ thread' = [thread EXCEPT ![cur] = "none"]
  /\ pc' = "children"
  /\ UNCHANGED <<call, process, cur, todo, adapterList, born, mStop, header, late, historyVars>>

\* ... one that is still running is fatal ("Destroyed while thread is still running").
DeleteRunning ==
  /\ process = "up"
  /\ pc = "dtor"
  /\ thread[cur] \in Running
  /\ process' = "aborted"
  /\ UNCHANGED <<call, pc, cur, todo, adapterList, born, captureVars, historyVars>>

\* main() returns.
Exit ==
  /\ process = "up"
  /\ pc = "children"
  /\ todo = {}
  /\ process' = "exited"
  /\ UNCHANGED <<call, pc, cur, todo, adapterList, born, captureVars, historyVars>>

Main ==
  \/ \E a \in Adapters : AddAdapter(a) \/ StopLoop(a) \/ StartThread(a) \/ DeleteAdapter(a)
  \/ StartFails
  \/ WaitDone
  \/ WaitExpired
  \/ Return
  \/ DeleteListener
  \/ DeleteWaitDone
  \/ DeleteWaitExpired
  \/ DeleteSniffer
  \/ DeleteRunning
  \/ Exit

-----------------------------------------------------------------------------
(* A capture thread: Sniffer::run and Sniffer::MonitorPcap.                  *)

mainVars == <<call, pc, cur, todo, adapterList, born, historyVars>>

\* The thread goes on at `to'; nothing but its place changes.
Goes(a, from, to) ==
  /\ process = "up"
  /\ thread[a] = from
  /\ thread' = [thread EXCEPT ![a] = to]
  /\ UNCHANGED <<process, mainVars, mStop>>

\* Wrong: run() does not look at the flag.
LoopHeadBlind(a) ==
  /\ Goes(a, "head", "entry")
  /\ UNCHANGED <<header, late>>

\* run(): the first look at m_stop.
LoopHead(a) ==
  /\ Goes(a, "head", IF mStop[a] THEN "finish" ELSE "entry")
  /\ UNCHANGED <<header, late>>

\* MonitorPcap(): the second one.
MonitorEntry(a) ==
  /\ Goes(a, "entry", IF mStop[a] THEN "sleep" ELSE "fetch")
  /\ UNCHANGED <<header, late>>

\* Takes up a packet; counts it as late if the flag was set in the meantime.
TakesPacket(a) ==
  /\ Goes(a, "fetch", "packet")
  /\ late' = [late EXCEPT ![a] = IF mStop[a] THEN @ + 1 ELSE @]

\* pcap_next_ex returns 1; the filter lets only whole TCP segments through.
FetchPacket(a) ==
  /\ TakesPacket(a)
  /\ header' = [header EXCEPT ![a] = TRUE]

\* pcap_next_ex returns 0, which is not rejected, with the header of the last
\* packet and no data pointer: the last packet may be processed once more.
FetchStale(a) ==
  /\ TakesPacket(a)
  /\ header[a]
  /\ UNCHANGED header

\* pcap_next_ex returns < 0, or 0 with bytes that look like no known packet.
FetchNothing(a) ==
  /\ Goes(a, "fetch", "sleep")
  /\ UNCHANGED <<header, late>>

\* Wrong: MonitorPcap drains the handle in a loop of its own.
ProcessPacketDrains(a) ==
  /\ Goes(a, "packet", "fetch")
  /\ UNCHANGED <<header, late>>

\* processIpPacket or processArpPacket returns.
ProcessPacket(a) ==
  /\ Goes(a, "packet", "sleep")
  /\ UNCHANGED <<header, late>>

\* msleep(SnifferGetPacketPeriod) is over.
Sleep(a) ==
  /\ Goes(a, "sleep", "head")
  /\ UNCHANGED <<header, late>>

\* QThreadPrivate::finish is done and wakes the waiters.
Finish(a) ==
  /\ Goes(a, "finish", "ready")
  /\ UNCHANGED <<header, late>>

Capture(a) ==
  \/ LoopHead(a)
  \/ MonitorEntry(a)
  \/ FetchPacket(a)
  \/ FetchStale(a)
  \/ FetchNothing(a)
  \/ ProcessPacket(a)
  \/ Sleep(a)
  \/ Finish(a)

\* Undefined behaviour that ends the process: the ether type read through an
\* uninitialised pointer after a 0 from pcap_next_ex, or a dissector that reads
\* beyond the captured bytes.
CaptureCrash(a) ==
  /\ process = "up"
  /\ thread[a] = "packet" \/ (thread[a] = "fetch" /\ header[a])
  /\ process' = "crashed"
  /\ UNCHANGED <<mainVars, captureVars>>

-----------------------------------------------------------------------------
\* The process is gone: nothing happens any more.
Terminated ==
  /\ process # "up"
  /\ UNCHANGED vars

Next ==
  \/ \E op \in Operations : Invoke(op)
  \/ Main
  \/ \E a \in Adapters : Capture(a) \/ CaptureCrash(a)
  \/ Terminated

Spec == Init /\ [][Next]_vars

\* The main thread never blocks for ever by itself and every capture thread is
\* scheduled.  Nobody is obliged to call an operation.
Fairness == WF_vars(Main) /\ \A a \in Adapters : WF_vars(Capture(a))

FairSpec == Spec /\ Fairness

-----------------------------------------------------------------------------
(* Properties.                                                               *)

\* The capture thread of `a' does not run.
Silent(a) == thread[a] \in {"ready", "none"}

\* After m_stop is set a capture thread takes up at most one more packet, for
\* good: the flag is read twice per turn and never reset (sniffer.cpp:52-63,
\* 122-129), so an acknowledged stop leaves at most the packet already fetched.
LateBound == \A a \in Adapters : late[a] <= 1

\* stop() forgets its adapters without deleting them, so their sniffers live on in
\* an idle service.  Once such a thread is over it is over for good: no start,
\* pause, resume or stop that follows, and nothing a thread still on its way does,
\* brings it back (otlistener.cpp:14-64, adapter.cpp:25-50).
StoppedForGood ==
  \A a \in Adapters : [](a \in born \ adapterList /\ Silent(a) => []Silent(a))

\* The process aborts in ~QThread only if the thread outlived two waits of 500 ms,
\* stop()'s and ~Adapter's, although stop() forgot the adapter in between
\* (otservice.cpp:20-25, otlistener.cpp:43-53, adapter.cpp:12-36).
AbortNeedsTwoExpiries ==
  process = "aborted" =>
    \E a \in Adapters : waited[a] = "expired" /\ deleteWait[a] = "expired"

\* pause() returns only when the thread of each listed adapter is not running, or
\* the wait for that very thread expired (otlistener.cpp:55-64): no adapter of
\* the list is skipped and none is left unwaited for.
PauseHolds ==
  [][(call = "pause" /\ call' = "none") =>
       \A a \in adapterList : Silent(a) \/ waited[a] = "expired"]_vars

\* Once m_stop is set, the capture thread ends (or the process does): it cannot
\* miss the flag however packets, pauses and resumes interleave.
CaptureEnds ==
  \A a \in Adapters : mStop[a] ~> (Silent(a) \/ process # "up")

\* What resume() is for (qtservice.cpp:965-967: "Reimplement this function to
\* continue the service after a call to pause()"): a resumed adapter captures again,
\* unless another operation is called first or the process ends.
ResumeRestartsCapture ==
  \A a \in Adapters :
    (call = "resume" /\ a \in adapterList)
      ~> (thread[a] = "fetch" \/ call \in Operations \ {"resume"} \/ process # "up")
-----------------------------------------------------------------------------
(* The inductive invariant behind the safety properties.                     *)

\* Where the main thread can be in which operation.
PcInv ==
  /\ pc = "init" => call = "start"
  /\ pc \in {"each", "wait"} => call \in {"pause", "resume", "stop", "destroy"}
  /\ pc = "wait" => call # "resume"
  /\ pc \in {"children", "cwait", "dtor"} => call = "destroy"
  /\ pc \in {"wait", "cwait", "dtor"} => cur \in born
  /\ pc \in {"each", "wait"} => todo \subseteq adapterList

\* Nothing has happened to an adapter that does not exist yet.
UnbornInv ==
  \A a \in Adapters \ born : waited[a] = "no" /\ deleteWait[a] = "no"

\* What a wait has seen holds until the adapter is resumed.
WaitedInv == \A a \in Adapters : waited[a] = "done" => Silent(a)

\* A late packet is the last one: the flag is set for good and the thread is past
\* the point where it could take up another.
LateInv ==
  \A a \in Adapters :
    late[a] # 0 => late[a] = 1 /\ mStop[a] /\ thread[a] # "fetch"

\* Every adapter the list no longer holds has been waited for, and so has every
\* adapter the running loop of a pause or stop is past.
VisitedInv ==
  /\ \A a \in born \ adapterList : waited[a] # "no"
  /\ (call \in {"pause", "stop", "destroy"} /\ pc \in {"each", "wait"}) =>
       \A a \in adapterList \ todo : (pc = "wait" /\ a = cur) \/ waited[a] # "no"
  /\ pc \in {"children", "cwait", "dtor"} => adapterList = {}

\* The second wait of an adapter belongs to its destruction.
DeleteInv ==
  /\ \A a \in Adapters : deleteWait[a] # "no" => call = "destroy"
  /\ \A a \in Adapters : deleteWait[a] = "done" => Silent(a)
  /\ pc = "dtor" => deleteWait[cur] # "no"

\* All of it together.
IInv ==
  /\ TypeOK
  /\ PcInv
  /\ UnbornInv
  /\ LateInv
  /\ WaitedInv
  /\ VisitedInv
  /\ DeleteInv
  /\ AbortNeedsTwoExpiries
=============================================================================
