------------------------------- MODULE OtDaemon -------------------------------
(***************************************************************************)
(* The daemon: the control channel (ServiceSocket) and the sensor           *)
(* (OtListener) in one process.  They share the process and `call': the     *)
(* slots of the channel call the operations of OtService (otservice.cpp),   *)
(* which call those of OtListener, and wait for them on the same thread.    *)
(***************************************************************************)
EXTENDS Naturals, Sequences

CONSTANTS Adapters, NoAdapter,
          Controllers, Peers, Addrs, Backlog, Flags, Requests, PeerWrites, NoClient, NoAddr

VARIABLES process, call,
          pc, cur, todo, adapterList, born, mStop, thread, header, waited, deleteWait, late,
          srv, quit, listening, pending, conn, cache, at, doing,
          cpc, cmd, wire, reply, ret, executed

Sensor == INSTANCE OtListener
Channel == INSTANCE ServiceSocket

\* What OtListener and ServiceSocket assume of the constants.
ASSUME DaemonAssumption ==
  /\ NoAdapter \notin Adapters
  /\ Controllers \cap Peers = {}
  /\ NoClient \notin Controllers \cup Peers
  /\ NoAddr \notin Addrs
  /\ Backlog \in Nat \ {0}
  /\ Flags \subseteq {"CanBeSuspended", "CannotBeStopped"}
  /\ Requests \subseteq Channel!Words
  /\ PeerWrites \subseteq Seq(Channel!Words \cup {"CRLF"})

sensorVars == <<pc, cur, todo, adapterList, born, mStop, thread, header, waited, deleteWait, late>>
channelVars == <<srv, quit, listening, pending, conn, cache, at, doing,
                 cpc, cmd, wire, reply, ret, executed>>
vars == <<process, call, sensorVars, channelVars>>

Init == Sensor!Init /\ Channel!Init

\* A step of the service's event loop.  One that calls an operation enters it.
Control ==
  /\ Channel!Server
  /\ IF call' # call THEN Sensor!Invoke(call') ELSE UNCHANGED sensorVars

Users ==
  /\ Channel!Users
  /\ UNCHANGED sensorVars

\* Wrong: OtService::stop() itself asks the event loop to end.
OperationQuits ==
  /\ Sensor!Main
  /\ quit' = (quit \/ (call = "stop" /\ call' = "none"))
  /\ UNCHANGED <<srv, listening, pending, conn, cache, at, doing,
                 cpc, cmd, wire, reply, ret, executed>>

\* A step of the operation that is running.
Operation ==
  /\ Sensor!Main
  /\ UNCHANGED channelVars

CaptureThread(a) ==
  /\ Sensor!Capture(a)
  /\ UNCHANGED channelVars

CaptureCrash(a) ==
  /\ Sensor!CaptureCrash(a)
  /\ UNCHANGED channelVars

\* Every client has what it came for; the daemon is gone, or waits for the next one.
Over ==
  /\ Channel!Quiescent
  /\ UNCHANGED sensorVars

Next ==
  \/ Control
  \/ Users
  \/ Operation
  \/ \E a \in Adapters : CaptureThread(a) \/ CaptureCrash(a)
  \/ Over

Spec == Init /\ [][Next]_vars

\* The main thread runs the event loop and the operations, the capture threads are
\* scheduled, and a controller that has connected goes on.
Fairness ==
  /\ WF_vars(Control)
  /\ WF_vars(Operation)
  /\ \A a \in Adapters : WF_vars(CaptureThread(a))
  /\ \A c \in Controllers : WF_vars(Channel!Controller(c) /\ UNCHANGED sensorVars)

FairSpec == Spec /\ Fairness

-----------------------------------------------------------------------------
(* Properties.                                                               *)

\* The channel behaves in the daemon as ServiceSocket says, with the operations of
\* the sensor in the place of its environment.
ChannelRefined == Channel!Spec

\* "true" for a pause or a stop means that every adapter has been told to stop, so
\* that at most the packet it already holds is still processed
\* (qtservice_unix.cpp:329-339, otservice.cpp:33-49, sniffer.cpp:42-64).
AnsweredMeansStopping ==
  \A c \in Controllers :
    (cmd[c] \in {"pause", "terminate"} /\ ret[c] = "true") =>
       \A a \in born : mStop[a] /\ late[a] <= 1

\* "true" for a stop means that the sensor holds no adapter any more: no later pause
\* or resume in the same pass of the event loop reaches one.
AnsweredStopDetaches ==
  \A c \in Controllers :
    (cmd[c] = "terminate" /\ ret[c] = "true") => adapterList = {}

\* The end of the daemon is orderly: ~OtService runs only after the channel is closed,
\* main() returns only with every capture thread ended, and an abort in ~QThread shows
\* that one thread outlived two waits, that of stop() and that of ~Adapter
\* (qtservice.cpp:474-482, otservice.cpp:20-25, adapter.cpp:12-36).
OrderlyExit ==
  /\ process \in {"exited", "aborted"} => ~listening /\ pending = <<>>
  /\ process = "exited" => \A a \in Adapters : thread[a] = "none"
  /\ process = "aborted" =>
       \E a \in Adapters : waited[a] = "expired" /\ deleteWait[a] = "expired"

\* A stop that was answered "true" ends the process, whatever the capture threads
\* and the other clients do.
StopEndsProcess ==
  \A c \in Controllers :
    (cmd[c] = "terminate" /\ ret[c] = "true") ~> process # "up"

\* Every controller returns, with the real operations behind the channel: none of
\* them, a resume that meets a finishing thread included, blocks the event loop.
ControllersReturn == Channel!ControllersReturn
=============================================================================
