---------------------------- MODULE ServiceSocket ----------------------------
(***************************************************************************)
(* The control channel of the daemon on Unix (qtservice_unix.cpp): the      *)
(* service listens on a Unix domain socket, a QtServiceController in another *)
(* process connects, writes one command line, waits for the answer and       *)
(* closes (sendCmd).  The service's main thread runs QtServiceBasePrivate::run *)
(* and, from its event loop, the slots of QtServiceSysPrivate.               *)
(*                                                                           *)
(* The service operations (start, stop, pause, resume and the destructor) are *)
(* behind `call': this module invokes one and waits until call = "none".     *)
(* What they do is left to an environment here and to OtListener in OtDaemon. *)
(***************************************************************************)
EXTENDS Naturals, Sequences, SequencesExt

CONSTANTS
  Controllers,   \* calls of stop(), pause(), resume(), sendCommand(), "alive"
  Peers,         \* other connections: isRunning(), foreign programs
  Addrs,         \* heap addresses a QTcpSocket of the service can have
  Backlog,       \* connections the kernel queues for listen(sock, 5)
  Flags,         \* the service's ServiceFlags
  Requests,      \* the commands the controllers send
  PeerWrites,    \* what a peer may write: sequences of words and "CRLF"
  NoClient, NoAddr

Words == {"terminate", "pause", "resume", "alive", "num", "junk"}
Clients == Controllers \cup Peers

ASSUME SocketAssumption ==
  /\ Controllers \cap Peers = {}
  /\ NoClient \notin Clients
  /\ NoAddr \notin Addrs
  /\ Backlog \in Nat \ {0}
  /\ Flags \subseteq {"CanBeSuspended", "CannotBeStopped"}
  /\ Requests \subseteq Words
  /\ PeerWrites \subseteq Seq(Words \cup {"CRLF"})

VARIABLES
  process,     \* "up", or how the service process ended
  call,        \* the service operation that is running
  srv,         \* where the service's main thread is
  quit,        \* QCoreApplication::quit() was called
  listening,   \* the listening socket is open under the service's path
  pending,     \* connections the kernel has queued
  conn,        \* whom the QTcpSocket at an address serves
  cache,       \* QtServiceSysPrivate::cache: the unprocessed input by address
  at,          \* the address of the sender() of the running slotReady
  doing,       \* the command whose operation is running
  cpc,         \* where each client is
  cmd,         \* the command of each controller
  wire,        \* bytes on the way to the service
  reply,       \* answers on the way to the client, "true" or "false" each
  ret,         \* what the controller function returned
  executed     \* history: how often a controller's command was carried out

clientVars == <<cpc, cmd, ret>>
streamVars == <<wire, reply>>
serverVars == <<srv, quit, listening, pending, conn, cache, at, doing>>
vars == <<process, call, serverVars, clientVars, streamVars, executed>>

\* A token is one word or line end, tagged with the client that wrote it.
Tokens == [from : Clients, word : Words \cup {"CRLF"}]
NoToken == [from |-> NoClient, word |-> "CRLF"]

Operations == {"start", "pause", "resume", "stop", "destroy"}

\* One type invariant: every variable is in its range (qtservice_unix.cpp:272-297).
TypeOK ==
  /\ process \in {"up", "exited", "failed", "aborted", "crashed"}
  /\ call \in Operations \cup {"none"}
  /\ srv \in {"init", "start", "starting", "loop", "slot", "called", "closing", "destroying"}
  /\ quit \in BOOLEAN
  /\ listening \in BOOLEAN
  /\ pending \in Seq(Clients)
  /\ Len(pending) <= Backlog
  /\ conn \in [Addrs -> Clients \cup {NoClient}]
  /\ cache \in [Addrs -> Seq(Tokens)]
  /\ at \in Addrs \cup {NoAddr}
  /\ doing \in Tokens \cup {NoToken}
  /\ cpc \in [Clients -> {"idle", "connected", "sent", "closed"}]
  /\ cmd \in [Clients -> Words \cup {"none"}]
  /\ wire \in [Clients -> Seq(Tokens)]
  /\ reply \in [Clients -> Seq(BOOLEAN)]
  /\ ret \in [Clients -> {"none", "true", "false"}]
  /\ executed \in [Clients -> Nat]

Init ==
  /\ process = "up"
  /\ call = "none"
  /\ srv = "init"
  /\ quit = FALSE
  /\ listening = FALSE
  /\ pending = <<>>
  /\ conn = [a \in Addrs |-> NoClient]
  /\ cache = [a \in Addrs |-> <<>>]
  /\ at = NoAddr
  /\ doing = NoToken
  /\ cpc = [c \in Clients |-> "idle"]
  /\ cmd = [c \in Clients |-> "none"]
  /\ wire = [c \in Clients |-> <<>>]
  /\ reply = [c \in Clients |-> <<>>]
  /\ ret = [c \in Clients |-> "none"]
  /\ executed = [c \in Clients |-> 0]

-----------------------------------------------------------------------------
(* The service's main thread: QtServiceBasePrivate::run.                     *)

\* The main thread is at `place', and nobody else of the process disturbs it.
At(place) ==
  /\ process = "up"
  /\ srv = place
  /\ UNCHANGED process

\* sysSetPath(): unlinks the path, binds and listens; a failure goes unnoticed.
SetPath ==
  /\ At("init")
  /\ listening' \in BOOLEAN
  /\ srv' = "start"
  /\ UNCHANGED <<call, quit, pending, conn, cache, at, doing, clientVars, streamVars, executed>>

\* The first event of the loop is the starter's timer: slotStart().
StartService ==
  /\ At("start")
  /\ call = "none"
  /\ call' = "start"
  /\ srv' = "starting"
  /\ UNCHANGED <<quit, listening, pending, conn, cache, at, doing, clientVars, streamVars, executed>>

Started ==
  /\ At("starting")
  /\ call = "none"
  /\ srv' = "loop"
  /\ UNCHANGED <<call, quit, listening, pending, conn, cache, at, doing, clientVars, streamVars,
                 executed>>

\* incomingConnection(): a new QTcpSocket, at any address that is not in use.
Accept(a) ==
  /\ At("loop")
  /\ pending # <<>>
  /\ conn[a] = NoClient
  /\ conn' = [conn EXCEPT ![a] = Head(pending)]
  /\ pending' = Tail(pending)
  /\ UNCHANGED <<call, srv, quit, listening, cache, at, doing, clientVars, streamVars, executed>>

\* slotReady() begins: everything that has arrived is appended to the cache.
SlotReady(a) ==
  /\ At("loop")
  /\ conn[a] # NoClient
  /\ wire[conn[a]] # <<>>
  /\ cache' = [cache EXCEPT ![a] = @ \o wire[conn[a]]]
  /\ wire' = [wire EXCEPT ![conn[a]] = <<>>]
  /\ at' = a
  /\ srv' = "slot"
  /\ UNCHANGED <<call, quit, listening, pending, conn, doing, clientVars, reply, executed>>

\* getCommand(): the input in front of the first line end; "" if there is none.
LineEnds(s) == {i \in DOMAIN s : s[i].word = "CRLF"}
LineEnd(s) == CHOOSE i \in LineEnds(s) : \A j \in LineEnds(s) : i <= j
Line(s) == IF LineEnds(s) = {} THEN <<>> ELSE SubSeq(s, 1, LineEnd(s) - 1)

\* Wrong: the line stays in the cache.
RestKept(s) == s

\* What getCommand() leaves in the cache.
Rest(s) == IF LineEnds(s) = {} THEN s ELSE SubSeq(s, LineEnd(s) + 1, Len(s))

\* The service obeys the command: it is known and the flags allow it.
Obeyed(word) ==
  \/ word = "terminate" /\ "CannotBeStopped" \notin Flags
  \/ word \in {"pause", "resume"} /\ "CanBeSuspended" \in Flags
  \/ word \in {"alive", "num"}

\* The operation a command calls; "alive" calls none, and OtService does not
\* implement processCommand().
OperationOf(word) ==
  CASE word = "terminate" -> "stop"
    [] word \in {"pause", "resume"} -> word
    [] OTHER -> "none"

\* A line is a command only if it is one word: two words run together are none.
IsObeyed(line) == Len(line) = 1 /\ Obeyed(line[1].word)

\* One more execution of the command `token' stands for.
Count(token) == executed' = [executed EXCEPT ![token.from] = @ + 1]

\* s->write(), s->flush() of the answer to the socket of the running slot.
Answer(value) == reply' = [reply EXCEPT ![conn[at]] = Append(@, value)]

\* The next line is a command that needs a service operation, which is called.
CallOperation ==
  LET line == Line(cache[at]) IN
  /\ At("slot")
  /\ call = "none"
  /\ IsObeyed(line)
  /\ OperationOf(line[1].word) # "none"
  /\ call' = OperationOf(line[1].word)
  /\ doing' = line[1]
  /\ Count(line[1])
  /\ cache' = [cache EXCEPT ![at] = Rest(@)]
  /\ srv' = "called"
  /\ UNCHANGED <<quit, listening, pending, conn, at, clientVars, streamVars>>

\* Wrong: nobody asks the event loop to end.
AnswerCalledNoQuit ==
  /\ At("called")
  /\ call = "none"
  /\ Answer(TRUE)
  /\ doing' = NoToken
  /\ srv' = "slot"
  /\ UNCHANGED <<call, quit, listening, pending, conn, cache, at, clientVars, wire, executed>>

\* Wrong: the answer to the command is forgotten.
AnswerCalledLost ==
  /\ At("called")
  /\ call = "none"
  /\ quit' = (quit \/ doing.word = "terminate")
  /\ doing' = NoToken
  /\ srv' = "slot"
  /\ UNCHANGED <<call, listening, pending, conn, cache, at, clientVars, streamVars, executed>>

\* The operation has returned; terminate asks the event loop to end.
AnswerCalled ==
  /\ At("called")
  /\ call = "none"
  /\ Answer(TRUE)
  /\ quit' = (quit \/ doing.word = "terminate")
  /\ doing' = NoToken
  /\ srv' = "slot"
  /\ UNCHANGED <<call, listening, pending, conn, cache, at, clientVars, wire, executed>>

\* A command without an operation of OtService, carried out at once.
AnswerSimple ==
  LET line == Line(cache[at]) IN
  /\ At("slot")
  /\ IsObeyed(line)
  /\ OperationOf(line[1].word) = "none"
  /\ Count(line[1])
  /\ Answer(TRUE)
  /\ cache' = [cache EXCEPT ![at] = Rest(@)]
  /\ UNCHANGED <<call, srv, quit, listening, pending, conn, at, doing, clientVars, wire>>

\* Wrong: only obeyed commands are answered.
AnswerRefusedSilent ==
  LET line == Line(cache[at]) IN
  /\ At("slot")
  /\ line # <<>>
  /\ ~IsObeyed(line)
  /\ cache' = [cache EXCEPT ![at] = Rest(@)]
  /\ UNCHANGED <<call, srv, quit, listening, pending, conn, at, doing, clientVars, streamVars,
                 executed>>

\* Wrong: the slot handles one line per signal.
AnswerRefusedOnce ==
  LET line == Line(cache[at]) IN
  /\ At("slot")
  /\ line # <<>>
  /\ ~IsObeyed(line)
  /\ Answer(FALSE)
  /\ cache' = [cache EXCEPT ![at] = Rest(@)]
  /\ at' = NoAddr
  /\ srv' = "loop"
  /\ UNCHANGED <<call, quit, listening, pending, conn, doing, clientVars, wire, executed>>

\* Any other line that is not empty is answered "false".
AnswerRefused ==
  LET line == Line(cache[at]) IN
  /\ At("slot")
  /\ line # <<>>
  /\ ~IsObeyed(line)
  /\ Answer(FALSE)
  /\ cache' = [cache EXCEPT ![at] = Rest(@)]
  /\ UNCHANGED <<call, srv, quit, listening, pending, conn, at, doing, clientVars, wire, executed>>

\* getCommand() returned "": the slot ends.  An empty line has been taken from the
\* cache, an unfinished one stays, and so does what follows an empty line.
SlotEnd ==
  /\ At("slot")
  /\ Line(cache[at]) = <<>>
  /\ cache' = [cache EXCEPT ![at] = Rest(@)]
  /\ at' = NoAddr
  /\ srv' = "loop"
  /\ UNCHANGED <<call, quit, listening, pending, conn, doing, clientVars, streamVars, executed>>

\* slotClosed(): the socket is deleted and its address free again.  Its entry in
\* the cache is not removed.
SlotClosed(a) ==
  /\ At("loop")
  /\ conn[a] # NoClient
  /\ cpc[conn[a]] = "closed"
  /\ wire[conn[a]] = <<>>
  /\ conn' = [conn EXCEPT ![a] = NoClient]
  /\ UNCHANGED <<call, srv, quit, listening, pending, cache, at, doing, clientVars, streamVars,
                 executed>>

\* exec() returns.  Events of the same pass may still be handled before it does.
LoopEnd ==
  /\ At("loop")
  /\ quit
  /\ srv' = "closing"
  /\ UNCHANGED <<call, quit, listening, pending, conn, cache, at, doing, clientVars, streamVars,
                 executed>>

\* sysCleanup() closes the socket, unlinks its path and deletes the server object
\* with its connections; then main() destroys the service.
Cleanup ==
  /\ At("closing")
  /\ call = "none"
  /\ listening' = FALSE
  /\ pending' = <<>>
  /\ conn' = [a \in Addrs |-> NoClient]
  /\ call' = "destroy"
  /\ srv' = "destroying"
  /\ UNCHANGED <<quit, cache, at, doing, clientVars, streamVars, executed>>

Server ==
  \/ SetPath
  \/ StartService
  \/ Started
  \/ \E a \in Addrs : Accept(a) \/ SlotReady(a) \/ SlotClosed(a)
  \/ CallOperation
  \/ AnswerCalled
  \/ AnswerSimple
  \/ AnswerRefused
  \/ SlotEnd
  \/ LoopEnd
  \/ Cleanup

-----------------------------------------------------------------------------
(* The clients, each in a process of its own.                                *)

Reachable == process = "up" /\ listening

\* The client has a connection the service still knows of.
Linked(c) == process = "up" /\ (c \in Range(pending) \/ c \in Range(conn))

\* Wrong: the queue has no limit.
ConnectsUnbounded(c) ==
  /\ cpc[c] = "idle"
  /\ Reachable
  /\ cpc' = [cpc EXCEPT ![c] = "connected"]
  /\ pending' = Append(pending, c)
  /\ UNCHANGED <<process, call, srv, quit, listening, conn, cache, at, doing, streamVars, ret,
                 executed>>

\* connect() succeeds as soon as the kernel's queue has room, accepted or not.
Connects(c) ==
  /\ cpc[c] = "idle"
  /\ Reachable
  /\ Len(pending) < Backlog
  /\ cpc' = [cpc EXCEPT ![c] = "connected"]
  /\ pending' = Append(pending, c)
  /\ UNCHANGED <<process, call, srv, quit, listening, conn, cache, at, doing, streamVars, ret,
                 executed>>

\* sendCmd() with the command w: connectTo() succeeds ...
Connect(c, w) ==
  /\ Connects(c)
  /\ cmd' = [cmd EXCEPT ![c] = w]

\* The controller function returns.
Returns(c, value) ==
  /\ ret' = [ret EXCEPT ![c] = value]
  /\ cpc' = [cpc EXCEPT ![c] = "closed"]
  /\ UNCHANGED <<process, call, serverVars, streamVars, executed>>

\* ... or fails: no path, or nobody listens under it.
ConnectFails(c, w) ==
  /\ cpc[c] = "idle"
  /\ ~Reachable
  /\ cmd' = [cmd EXCEPT ![c] = w]
  /\ Returns(c, "false")

\* sock.write(), sock.flush(): the command line in one piece.
Send(c) ==
  /\ cpc[c] = "connected"
  /\ cpc' = [cpc EXCEPT ![c] = "sent"]
  /\ wire' = [wire EXCEPT ![c] = << [from |-> c, word |-> cmd[c]],
                                    [from |-> c, word |-> "CRLF"] >>]
  /\ UNCHANGED <<process, call, serverVars, cmd, reply, ret, executed>>

\* Wrong: any answer counts as success.
ReadAnything(c) ==
  /\ cpc[c] = "sent"
  /\ reply[c] # <<>>
  /\ Returns(c, "true")
  /\ UNCHANGED cmd

\* waitForReadyRead(-1) returns with an answer; readAll() is compared to "true".
Read(c) ==
  /\ cpc[c] = "sent"
  /\ reply[c] # <<>>
  /\ Returns(c, IF reply[c] = <<TRUE>> THEN "true" ELSE "false")
  /\ UNCHANGED cmd

\* waitForReadyRead(-1) returns because the connection is gone.
ReadEof(c) ==
  /\ cpc[c] = "sent"
  /\ reply[c] = <<>>
  /\ ~Linked(c)
  /\ Returns(c, "false")
  /\ UNCHANGED cmd

Controller(c) == Send(c) \/ Read(c) \/ ReadEof(c)

\* isRunning() connects and closes; a foreign program may write in between.
PeerConnect(p) ==
  /\ Connects(p)
  /\ UNCHANGED cmd

PeerWrite(p, line) ==
  /\ cpc[p] = "connected"
  /\ cpc' = [cpc EXCEPT ![p] = "sent"]
  /\ wire' = [wire EXCEPT ![p] = [i \in DOMAIN line |-> [from |-> p, word |-> line[i]]]]
  /\ UNCHANGED <<process, call, serverVars, cmd, reply, ret, executed>>

PeerClose(p) ==
  /\ cpc[p] \in {"connected", "sent"}
  /\ cpc' = [cpc EXCEPT ![p] = "closed"]
  /\ UNCHANGED <<process, call, serverVars, cmd, streamVars, ret, executed>>

Users ==
  \/ \E c \in Controllers : \/ \E w \in Requests : Connect(c, w) \/ ConnectFails(c, w)
                            \/ Controller(c)
  \/ \E p \in Peers : \/ PeerConnect(p)
                      \/ \E line \in PeerWrites : PeerWrite(p, line)
                      \/ PeerClose(p)

-----------------------------------------------------------------------------
(* The service's operations, as far as the channel can tell.                 *)

othersThanService == <<serverVars, clientVars, streamVars, executed>>

\* start, stop, pause or resume returns.
ServiceReturns ==
  /\ process = "up"
  /\ call \notin {"none", "destroy"}
  /\ call' = "none"
  /\ UNCHANGED <<process, othersThanService>>

\* The destructor ends the process, one way or the other.
ServiceEnds ==
  /\ process = "up"
  /\ call = "destroy"
  /\ process' \in {"exited", "aborted"}
  /\ UNCHANGED <<call, othersThanService>>

\* start() leaves with exit(), or a thread of the service crashes the process.
ServiceDies ==
  /\ process = "up"
  /\ srv \notin {"init", "start"}
  /\ process' \in IF call = "start" THEN {"failed", "crashed"} ELSE {"crashed"}
  /\ UNCHANGED <<call, othersThanService>>

Service == ServiceReturns \/ ServiceEnds

\* Everybody has what he came for, and the service, if it lives, waits for more.
Quiescent ==
  /\ \A c \in Clients : cpc[c] = "closed" \/ (c \in Peers /\ cpc[c] = "idle" /\ ~Reachable)
  /\ \/ process # "up"
     \/ srv = "loop" /\ ~quit /\ pending = <<>> /\ \A a \in Addrs : conn[a] = NoClient
  /\ UNCHANGED vars

Next == Server \/ Users \/ Service \/ ServiceDies \/ Quiescent

Spec == Init /\ [][Next]_vars

\* The event loop and the operations make progress, and so does a controller that
\* has begun.  Nobody is obliged to connect, and a peer to nothing at all.
Fairness ==
  /\ WF_vars(Server)
  /\ WF_vars(Service)
  /\ \A c \in Controllers : WF_vars(Controller(c))

FairSpec == Spec /\ Fairness

-----------------------------------------------------------------------------
(* Properties.                                                               *)

\* The request of each controller, as RemoteCommand sees it.
Phase(c) ==
  CASE cpc[c] = "idle" -> "idle"
    [] cpc[c] \in {"connected", "sent"} -> "asked"
    [] OTHER -> ret[c]

Promise == INSTANCE RemoteCommand WITH
  phase <- [c \in Controllers |-> Phase(c)],
  served <- [c \in Controllers |-> executed[c]],
  alive <- (process = "up")

\* The channel keeps the promise: each request is carried out at most once and the
\* returned value tells whether it was (sendCmd and slotReady together).
KeepsPromise == Promise!Spec

\* A controller is answered once, and with what its own command deserves under the
\* service's flags, whoever used the address of its socket before
\* (qtservice_unix.cpp:322-378).
OwnAnswer ==
  \A c \in Controllers : reply[c] # <<>> => reply[c] = << Obeyed(cmd[c]) >>

\* When no slot runs, no input is left behind in the cache, of a live connection or
\* of a closed one, if every client writes whole lines (qtservice_unix.cpp:325-360).
CacheDrained ==
  srv = "loop" => \A a \in Addrs : cache[a] = <<>>

\* A controller that has connected gets to return although sendCmd waits without a
\* limit: by an answer, or because the connection ends.
ControllersReturn ==
  \A c \in Controllers : cpc[c] = "connected" ~> cpc[c] = "closed"

\* qtservice.cpp:373 of stop(): "Returns true if a running service was successfully
\* stopped".
StopReturnsStopped ==
  \A c \in Controllers :
    (cmd[c] = "terminate" /\ ret[c] = "true") => ~Reachable

\* qtservice.cpp:368-370 of stop(): "The service will call the QtServiceBase::stop()
\* implementation unless the service's state is QtServiceBase::CannotBeStopped".
StopIsServed ==
  \A c \in Controllers :
    (cmd[c] = "terminate" /\ "CannotBeStopped" \notin Flags) => FALSE \notin Range(reply[c])
=============================================================================
