# A TLA+ model of the OT TCP listener daemon

The repository holds a daemon that captures Modbus/TCP traffic on an interface of a
Linux (or Windows) host. It is a service in the sense of the Qt Solutions service
library, whose source is part of the repository: a process that is started detached,
and that is paused, resumed and stopped by other processes over a Unix domain socket.
This directory holds TLA+ modules that model the daemon's control, the TLC runs that
check them on small instances, and proofs checked by TLAPS.

## 1. The system

| part | source | state | operations |
|---|---|---|---|
| `OtService` | `otservice.cpp`, `main.cpp` | the listener, the logger | `start`, `pause`, `resume`, `stop`, destructor |
| `OtListener` | `otlistener.cpp` | `adapterList`, child objects | `init`, `setPause`, `stop`, destructor |
| `Adapter` | `adapter.cpp` | its `Sniffer` | constructor, `stopLoop`, `setPause`, destructor |
| `Sniffer` | `sniffer.cpp` | `m_stop`, pcap handle, the thread | `run`, `MonitorPcap`, `stopLoop`, `StartPcap`, `SetPcapFilter` |
| packet dissection | `sniffer.cpp`, `modbus.cpp` | `m_lastAddress`, `data` | `processIpPacket`, `processArpPacket`, `processModbusPacket` |
| control channel | `qtservice_unix.cpp`, `qtunixserversocket.cpp`, `qtunixsocket.cpp` | listening socket, connections, `cache` by socket address | `setPath`, `incomingConnection`, `slotReady`, `slotClosed`, `sysCleanup`, `sendCmd`, `isRunning` |
| service start | `qtservice.cpp`, `qtservice_unix.cpp` | settings, socket path, detached process | `exec`, `install`, `uninstall`, `start` |
| Windows service | `qtservice_win.cpp` | semaphores, mutex, wait condition, reported status | `start`, `serviceMain`, `handler`, `handleCustomEvent`, controller |
| HTTP client | `httprequest.h` | `responseData`, framing and chunk state of one `send()` | constructor of `Request`, `send` |
| network tools | `networktools.h`, `helper.h` | none that lasts | `getDeviceInfo`, `geNetSegment`, `get_ipmask`, `cleanQString`, vendor query over HTTP |
| other | `arp.h`, `logger.cpp` | none that others read | ARP frame, log lines |

How they interact. A controller in another process connects to the socket, writes one
command line, and waits without a limit for `true` or `false`. The main thread of the
daemon runs the Qt event loop; the slot `slotReady` reads the line, calls the operation
of `OtService` on the same thread, answers, and after `terminate` asks the loop to end.
An operation of `OtService` walks over `adapterList`; for a pause or a stop it sets
`m_stop` of each sniffer and waits at most 500 ms for the capture thread. The capture
thread shares nothing with the main thread but that flag and its own state of running.
When the loop has ended, the socket is closed and unlinked, and `~OtService` stops and
deletes the listener with its children; a `QThread` that is deleted while it runs aborts
the process.

What is hard. The main thread and the capture threads interleave at the flag; waits
expire and nobody looks at the result; the capture thread reads a packet header that
`pcap_next_ex` did not fill in; a service operation may end the process in the middle of
a command; input of one connection can reach another through the cache; the answer to a
stop precedes the stop. `PROJECT.json` lists these hazards at their lines, with the
properties that would catch each going wrong. What makes each part correct:

- sensor: after a stop or a pause at most the packet at hand is processed; a thread that
  is told to stop ends; nothing but two expired waits aborts the process; a resumed
  sensor captures again (it does not, see section 5);
- channel: every request is carried out at most once and its answer is the truth; every
  line gets its own answer; every caller returns;
- daemon: what is answered `true` has taken effect on every adapter; a stop ends the
  process in order;
- service start: started one after the other, at most one instance runs that has a socket
  or may get one, and it is found; a daemon loses its path only to another one that
  claimed it at the same time;
- start of the sensor: what is announced belongs to one interface, though the interfaces
  change meanwhile; a sensor that has found no address captures nothing;
- Windows service: every control is answered when its own operation has ended, the state
  that is reported is true, nobody waits for an event that nobody handles;
- packets: reports follow the capture; whole frames are decoded one by one, and padding
  is none;
- HTTP client: the response does not depend on how the stream is cut into segments; the
  client waits for no more than the response says.

## 2. The modules

| module | models |
|---|---|
| `OtListener` | `OtListener`, `Adapter` and the capture threads; the main thread step by step |
| `OtListenerProofs` | theorems about `OtListener` |
| `RemoteCommand` | abstract: what a controller function promises about one request |
| `ServiceSocket` | the control channel: event loop and slots of the service, `sendCmd`, `isRunning` |
| `ServiceSocketProofs` | theorems about `ServiceSocket`: its types and its parser of lines, each caller gets its own answer |
| `OtDaemon` | `OtListener` and `ServiceSocket` in one process |
| `OtDaemonProofs` | theorems about `OtDaemon` |
| `WinService` | the three threads of the service on Windows and the controls it is sent |
| `WinServiceProofs` | theorems about `WinService` |
| `ServiceLaunch` | `exec()`, `install`, `start()`, the detached process and the path of its socket |
| `ServiceLaunchProofs` | theorems about `ServiceLaunch` |
| `SensorStart` | `OtListener::init()` and the constructor of `Sniffer`, step by step |
| `SensorStartProofs` | theorems about `SensorStart` |
| `PacketDispatch` | what the capture does with packets: from `pcap_next_ex` to the log |
| `ModbusDecoder` | operators: the decoding of one segment; used by `PacketDispatch` |
| `PacketDispatchProofs` | theorems about `PacketDispatch` and `ModbusDecoder` |
| `HttpClient` | `http::Request`: URL, form, sending, the parser of the response |
| `HttpClientProofs` | theorems about `HttpClient` |
| `MCServiceSocket`, `MCSensorStart`, `MCPacketDispatch`, `MCHttpClient` | values of the constants for TLC |

How they fit together. `OtDaemon` composes `OtListener` and `ServiceSocket`. The others
are parts that share no state with these while they run, and meet them at named actions:
`ServiceLaunch` has the life of the process around `OtDaemon` (its `Answer` is all of
`ServiceSocket` as one step); `SensorStart` is the inside of `AddAdapter` and
`StartFails` of `OtListener`; `PacketDispatch` is the inside of its actions on a packet
(`FetchPacket`, `FetchStale`).

Definitions named `Wrong:` in their comment are broken variants of the definition that
follows. No specification uses them; each shows that a property notices such a bug.

**OtListener.** `call` is the operation of `OtService` that runs, `pc`, `cur` and `todo`
are the main thread's place in it. `Invoke(op)` is the call; the loop over the list takes
`StopLoop(a)` and one of `WaitDone` and `WaitExpired` for each adapter (`StartThread(a)`
for a resume), and `Return`. `destroy` stands for `~OtService`: the same loop, then
`DeleteListener`, and for each child `DeleteAdapter`, the wait of `~Adapter`, and
`DeleteSniffer` or `DeleteRunning`. The list is a set: its order makes no difference to
any property, so that the loop takes any order. `thread[a]` is the place of a capture
thread: `head` and `entry` are its two looks at `m_stop`, `fetch` is the call of
`pcap_next_ex`, `packet` the dissection, `sleep` the `msleep`, `finish` the time between
the end of `run()` and the end of the thread.

`m_stop` is a plain `bool`. Each turn of the loop calls functions the compiler cannot see
into between two reads, so that every read is of memory; the model has one shared value.
The other undefined behaviour is modelled as a choice: when `pcap_next_ex` returns 0 the
pointer to the packet is not set, and the last packet's bytes are seen again
(`FetchStale`), or bytes of no known type (`FetchNothing`), or the process crashes
(`CaptureCrash`), which a dissector that reads past the captured bytes can do as well.
`wait(500)` may expire whenever the thread has not ended: the model knows no durations.

**ServiceSocket.** The main thread's place is `srv`; the slot `slotReady` takes a step
for reading, one for each line (`CallOperation` and `AnswerCalled`, `AnswerSimple`,
`AnswerRefused`) and one for its end. A stream is a sequence of tokens, words and line
ends; words that are run together are no command. Tokens carry their writer's identity,
for the properties only. `Addrs` are the heap addresses that sockets can have: a new
socket takes any free one, and `cache` is kept by address as in the code. Connections
wait in `pending`, of length `Backlog`, until the loop accepts them. Each controller is
one call of one function, as the programs that use it are (`-t`, `-p`, `-r`, `-c`).
Peers are the other users of the socket: `isRunning()`, which connects and closes, and
foreign programs, which may write something. `start()` is called before any command: the
starter's timer has been posted before the loop begins to look at sockets. The
operations are an environment here, which returns, ends or dies.

**OtDaemon.** The two modules share `call` and `process`. A step of the event loop that
sets `call` is at the same time the `Invoke` of the sensor; while an operation runs, the
event loop has no step. The environment of `ServiceSocket` is replaced by the sensor.

**WinService.** On Windows three threads take part: the main thread (`main`), the
dispatcher on which Windows calls `handler()`, and the thread on which it calls
`serviceMain()` (`place`). No thread blocks inside a critical section of the mutex but in
`condition.wait`, which leaves it, so that each section is one action and the mutex no
variable: from the lock to the wait (`HandlerPosts`), from the wake-up to the unlock
(`HandlerWoken`), and `wakeAll` (`Notify`). What happens without the mutex is split as
finely as it can be seen. A report outside the mutex is a look at the record
(`HandlerLooks`), a copy of what it says by then (`HandlerReads`, into `carried`), and the
arrival of that copy (`HandlerReports`); the main thread's is `SetStopped`, `ReadStopped`
and `TellStopped`. Between the copy and its arrival the other threads go on, so that a
report can arrive after a later one. `setStatus` under the mutex writes and delivers in
one action: the only thread that can deliver in between does so with what it read before,
which is a step before this one, or with the new state. `overtaken` is history: the report
that `serviceMain` makes at its end has arrived after the record had changed. The service control manager is external: it calls `handler()` for one
control at a time, refuses controls while the last reported state is stopped, starting
or stopping (`Admits`; interrogations too), sends none after a shutdown, and takes no more news of a service
that has stopped (`Told`). Its own limit of 30 s for a handler is taken not to expire. Opening the manager or the
service may fail (`ControlFails`), and so may a later query of `stop()` (`StopGivesUp`).
That the operation exits or the sensor crashes stands for what capture does on Windows
(`Adapter` and `Sniffer` are compiled on Linux only): external here.
`RegisterServiceCtrlHandler` is taken to succeed, as the code's comment says. After
`sysCleanup` a handler that is still in its last steps may meet deleted memory: the
process then ends (`HandlerDangles`) or goes on as if nothing was.

**ServiceLaunch.** A call (`cpc`) is one call of the program with an option, or of the
controller's `start()`. A daemon (`dpc`) is a detached process on its way through
`run(true)`: `setPath()` is three steps (`Unlink`, `Bind`, `Listen`), `close()` two
(`Close`, `ClosePath`), as the file system sees them; each of the three may fail for a
reason of its own, and the daemon goes on without a socket (`SetPathFails`, "refused").
`path` names the daemon whose
socket the path leads to; it stays when that daemon dies. There is one user, because the
path contains the name of the login. `controller start()` starts the program without the
variable that marks the daemon, so that the new process is a call again, which asks and
starts a daemon itself. `-exec` runs the service without a socket. `ret` is what the call
printed of `isRunning()`. The end of a connection can be read as soon as the daemon it
leads to no longer listens; an answer that was written before is read first. A daemon
whose `bind` collides with another one that has bound the path in the meantime is "deaf".
"command" stands for the options that ask and end, `-pause`, `-resume` and `-command`.
`installed` stands for the group of the service in `QSettings`: of its
keys only the path of the program decides anything here. Two variables are history:
`overlap` says that a daemon was started while another one claimed the path (`Claims`: it
has the socket or may still get it), `hasty` that a call
began before everything the calls before it began had settled. What is promised to a
careful user is promised while `hasty` is false. `Spawn` takes some process that does not
exist yet; they are all alike.

**SensorStart.** `pc` is the step that comes next; between two of them the interfaces of
the host may change (`HostChanges`). `Device` is the first entry of the first interface
that meets the conditions of `getDeviceInfo`, `Network` the masking of `geNetSegment`,
`Segment` the loop of the constructor. An address is its four bytes. Without an address
the code computes both from memory nobody has set, which is a choice from `Junk`; the
result is logged, and the process exits in `pcap_open_live("")`. `get_ipmask` may also
fail for want of a socket, so that `NoMask` is always possible. `seen` and `asked` are
history: the host as `getDeviceInfo` and as `get_ipmask` saw it.

**PacketDispatch, ModbusDecoder.** A packet carries a part of a stream of frames; its
bytes are computed from the frames (`Adu`), so that the decoder works on bytes as in the
code. `header->len`, `caplen` and the padding are kept apart. What the code reads beyond
the captured bytes is `stray`, any value. When `pcap_next_ex` returns 0 the header is
that of the last packet and the pointer is mostly that of the pass before
(`MonitorPcapIdle`); that it may be any other is `CaptureCrash` of `OtListener`. An ARP
packet and one that is not for port 502 change nothing. The return of
`analyzeModbusPacket` without a value is kept as a kind of its own (`Undefined`).
`processModbusPacket` calls itself for what remains of the segment: `ProcessModbusPacket`
is one such call, and `Decode` makes them one after the other (a call that returns, or
for which nothing is left, leaves things as they are; no other takes less than a byte
off). What a frame may be is said by `IsFrame`: a query has a PDU of five bytes, an answer
and a write have their registers behind a count, an exception has two bytes; a
frame of the function 16 without registers is the answer to a write, of five bytes. What the code
reads is the bytes alone; `kind`, `address` and `values` of a frame are for the
properties.

**HttpClient.** One connection: `Open`, `Send` of any part of the request, `Recv` of any
part of what has arrived, and one action for each turn of the parsing loops, with
`responseData` as `rd`. A text is one token; CR, LF and the bytes of a body are tokens of
their own, so that a segment can end between any two. An element of `Exchanges` is
what a URL and a form are made of (`Urls`, `Forms`) and what the server answers
(`Messages`); the server may close at any point (`PeerCloses`). A word of a scheme, host
or port has none of the delimiters (user information and the brackets of an IPv6 address
are left out), a path begins with a slash, and a query may follow with or without one;
names and values of a form are any bytes. A length that a server announces, and does not
override by chunks, is that of its body: of more than it announces, the code would keep
some in the body. `min<int>` is done as the code does it: both sizes are cut down to an
`int` (`AsInt`, with `IntMax` for 2^31 - 1), and a chunk that no `int` holds makes the
client throw (`ChunkThrows`; undefined, `insert` of a range that is less than empty) or
take nothing, again and again. The server may write the names of headers in lower case,
which the code does not know. `reserve` of an announced length throws beyond `Room`, also
in a chunked response. `Understood` says which responses the code can deal with: shorter
than an `int`, with the names spelled as in the code. Its only user is
`NetworkTools::getVendor`, which the daemon does not call at present; it is modelled as
the library it is.

## 3. The runs

| run | configuration | bounds | shows |
|---|---|---|---|
| `sensor` | `Sensor.cfg` | 2 adapters | type invariant, `LateBound`, `StoppedForGood`, `AbortNeedsTwoExpiries`, `PauseHolds`, `CaptureEnds` |
| `sensor_resume` | `SensorResume.cfg` | 1 adapter | violation of `ResumeRestartsCapture` |
| `socket` | `Socket.cfg` | 2 controllers, 1 peer that writes whole lines, 2 addresses, queue of 2 | type invariant, `KeepsPromise` (refinement of `RemoteCommand`), `OwnAnswer`, `CacheDrained`, `ControllersReturn` |
| `socket_stale_cache` | `SocketStaleCache.cfg` | 1 controller, 1 peer that writes part of a line | violation of `StopIsServed` |
| `socket_stop_returns` | `SocketStop.cfg` | as `socket` | violation of `StopReturnsStopped` |
| `daemon` | `Daemon.cfg` | 1 adapter, 2 controllers, 2 addresses, queue of 2 | `ChannelRefined` (with the sensor as its environment, the channel is the one of `ServiceSocket`), `AnsweredMeansStopping`, `AnsweredStopDetaches`, `OrderlyExit`, `StopEndsProcess`, `ControllersReturn` |
| `windows` | `Windows.cfg` | 2 controllers, 2 looks of `stop()` (10 in the code), a shutdown | type invariant, `OwnCompletion`, `StatusTruth`, `NothingLeftBehind`, `LegalStatus`, `ControllersReturn`, `StartsAndStops` |
| `launch` | `Launch.cfg` | 3 calls with any option, 2 daemons | type invariant, `PathOwned`, `OneDaemon`, `CarefulIsReported`, `StartedServes`, `CallsReturn` |
| `launch_twice` | `LaunchTwice.cfg` | 3 calls, 2 daemons | violation of `RunningIsReported` |
| `sensor_start` | `SensorStart.cfg` | hosts of up to 3 interfaces of every kind, 5 masks, 1 change, 2 addresses of `Junk` | type invariant, `Announcement`, `CapturesWithAddress` |
| `packets` | `Packets.cfg` | 1 segment of up to 3 frames of 10 kinds, cut at any byte, or 3 packets on the wire; 2 passes without one | `DecodedAsSent`, `ReportsFollowCapture` |
| `http` | `Http.cfg` | responses of up to 2 pieces of up to 2 bytes, headers spelled in lower case, chunks and lengths beyond `IntMax` (31) and `Room` (20); 6 forms of a path and 3 of a query, with and without each other; forms of up to 2 parameters, with `&` and `=` in them; buffer of 5 | type invariant, `ResponseFaithful`, `RequestFaithful`, `SendReturns` |

Some properties are conjunctions of named parts, which the modules define and comment one
by one: `NothingLeftBehind` is `NobodyLeftWaiting` and `DanglingNeedsLateThread`;
`StartsAndStops` is `ServiceStarts` and `ServiceStops`; `PathOwned` is
`OrphanNeedsOverlap` and `NoFileOfExited`; `Announcement` is `ChosenTogether`,
`ListsOwnNetwork` and `AnnouncedIsListed`; `DecodedAsSent` is `WholeFramesOrNothing`,
`RegistersAsSent`, `LabelsOfSegment` and `PaddingIsEmpty`; `ResponseFaithful` is
`ResponseWhole`, `ResponsePrefix`, `NeverMisframed` and `NoIdleWait`; `RequestFaithful` is
`UrlParsed`, `FormDecodes` and `RequestInOrder`; `SendReturns` is `ReturnsIfDelimited` and
`ReturnsAfterClose`.

Why the bounds are enough. The program creates one adapter; a second one shows that the
loops do not mix adapters up, and adapters do not interact otherwise, so a third adds
nothing new. Operations may be called any number of times and in any order in the sensor
runs: nothing but the number of adapters is bounded there. In the socket runs two
controllers and a peer are enough for one connection to be accepted while another is
served, for a third to wait in the queue or find it full (2, where the code has 5), for
an address to be used a second time, and for a command to be read after `quit()`. Every
controller is one call, which bounds the history. With two addresses for three clients an
accept has to wait for a socket to be deleted, which a heap does not ask for; the
controllers return all the same. Two controllers can send any pair of
commands, such as a pause and a stop, or a stop and a resume in the same pass of the event
loop; three would be needed only for pause, resume, stop, which the sensor runs cover.

In the Windows run the service control manager hands out one control at a time, so that
two controllers give every pair of controls in a row, and one more that is refused or
waits; interrogations come at any time and without a limit.

A race for the path needs two daemons that are there at once and a third call to look at
what comes of it. Two daemons can also follow each other, the first of which dies with its
file or is stopped. In the run of the packets a frame has each
length that the code treats in a way of its own (less than 5 bytes, 5 to 7, 8, more), every
pair of frames meets in a segment, and three do where the label of a register depends on
an earlier frame. The snapshot length of 160 (65535 in the code) lets an answer with 55
registers exceed it. The HTTP bodies consist of
bytes that look like line ends wherever they can, and the buffer is smaller than a
response, so that every cut of the stream occurs. A chunk has one or two
bytes, or as many as are the least `int` and 0 when an `int` has to hold them. The interfaces change once in
`sensor_start`: into any other set, between any two steps.

Symmetry is used only in the two runs of the socket that show an invariant violated. Deadlock is checked in every run:
`Terminated`, `Quiescent`, `Over`, `Idle`, `Ended`, `Stopped` and `Finished` name the states
in which the system may stop.

Fairness. The main thread runs, so its event loop and its operations are weakly fair: an
operation is either in a wait with a limit or in a step of its own. Every capture thread
is scheduled, and its steps end: `msleep` has a limit, `pcap_next_ex` does not block, and
the dissectors loop over the bytes of one packet. A controller that has connected goes
on. On Windows the dispatcher hands out a control that it can hand out again and again
(strong fairness of `Deliver`: interrogations may come in between). A call of the program that can go on
does, and so does a daemon on its way to the socket or away from it; a daemon that serves
looks at its connections. The HTTP client runs on, and
what the server has sent arrives; the server does not have to close. No client has to connect, no peer has to write or close, no operation has to be
called, no packet has to arrive, and nothing has to crash or expire.

## 4. What is proved

For every set of adapters `OtListenerProofs` proves that `IInv` is an invariant, and
from it `TypeOK`, `LateBound`, `StoppedForGood`, `AbortNeedsTwoExpiries` and `PauseHolds`,
the properties of the run `sensor` that are not liveness.
The only assumption is that `NoAdapter` is no adapter. The properties are not inductive.
`LateBound` needs to know that a thread that has taken up a late packet is past the fetch
and that the flag stays set (`LateInv`). That an abort needs two expired waits rests on
four facts: every adapter that is not in the list has been waited for, and so has every
one the running loop is past (`VisitedInv`); a wait that saw the end of the thread is
still true (`WaitedInv`), because only a resume starts a thread and it reaches listed
adapters only; the second wait happens in the destructor, after which no resume can come
(`DeleteInv`); and the main thread is in the operation its place says (`PcInv`). An
adapter that is yet to be created has no history (`UnbornInv`).
`StoppedForGood` is about all that follows: no step of any operation takes an adapter
that the list has lost, and whose thread is over, back to either (`DetachedStep`).

`ServiceSocketProofs` proves the type invariant of the channel for all clients,
addresses, flags, requests, queue lengths and inputs that `SocketAssumption` admits. The
invariant is `SInv`: `TypeOK`, that a running slot serves a socket that exists
(`SlotInv`), and that a controller that has connected has chosen its command
(`CommandInv`). The work is in the parser: the first line end is the least element of a
set of positions, which exists because the naturals are well founded (`LeastElement`),
so that the line and the rest are sequences of tokens again.

The same module proves `CacheDrained`, `OwnAnswer` and the refinement `KeepsPromise` on the same assumptions and one more: `LinesAreWhole`, that whatever a
foreign program writes at once is whole lines. It is a hypothesis of the theorems and not
of the model, because the code does not see to it: without it the properties are false,
as the run `socket_stale_cache` shows. The invariant `AInv` says where a command is on its
way. What is on the wire are whole lines of the one who wrote them (`WireInv`), and so is
what is in the cache, which is empty for every address but that of the socket whose slot
runs (`CacheInv`); hence a line that is read belongs to the connection it is read from,
however often the address was used before. `LifeInv` has, for each controller, all places
its command can be in: not written, on the wire, in the cache, being carried out,
answered, or gone with the connection; at each of them the operation was carried out once
or not at all, and the answer is what it returned. `LinkInv` says that a connection
belongs to one client. The refinement maps each step to a step of `RemoteCommand` or to a
stutter.

`OtDaemonProofs` proves, for all constants, that the daemon implements both of its parts:
the lemma `SensorRefinement` (`Spec => Sensor!Spec`) and the theorem `ChannelRefinement`
(`Spec => ChannelRefined`). Each step of the daemon is mapped to a step of the part or to
a stutter. The first needs no invariant and is a fact about the composition alone: whenever the channel changes `call` the sensor's
`Invoke` takes the same step, and the channel only calls operations the sensor has
(`ServerCalls`). By it, what is proved of the sensor holds in the daemon
(`SensorInvariance`). The second needs it: that a return of the sensor is one the channel
expects, that only `start` fails with `exit()` and only the destructor ends the process
rests on `PcInv`, and that nothing crashes before `slotStart()` on `StartInv`. From
these invariants and `EndInv` (the destructor runs with the channel closed, and its loop
leaves only deleted threads behind), and from `AbortNeedsTwoExpiries` of the sensor for the
end by an abort, follows `DaemonExitsOrderly`. The assumption is
that `NoAdapter` is no adapter, and that the channel's constants are what
`ServiceSocket` takes them for (`DaemonAssumption`).

What is answered `true` has taken effect: `TrueMeansStopping` and `TrueStopDetaches` prove
`AnsweredMeansStopping` and `AnsweredStopDetaches`, again for clients that write whole
lines. They join the two parts: by `ChannelRefinement` what `ServiceSocketProofs` proves of
the channel holds in the daemon, so that an answer `true` means that the operation was
carried out, and the sensor's invariant says what that operation did to each adapter and
that nothing takes it back before the next command.

`ServiceLaunchProofs` proves, for any number of calls and daemons, the properties of the
run `launch` that are not liveness. The assumptions are that `NoDaemon` is no daemon and
that the options are those of the program. A daemon whose socket has failed counts with
none of them: it captures on and nobody can ask it, so that a careful start puts another
one beside it, and the claims are about those that have a socket or may still get one.
`PathOwned` is not inductive, because it says nothing of the way to the
socket: `AloneInv` adds that a claimant that has met no other is the only one, and
`OwnerInv` that such a daemon finds the path free and owns it from `bind` to its end, so
that neither its own `setPath()` nor its own `close()` takes it from somebody else.
`OneDaemon` and `CarefulIsReported` speak of calls that wait for each other. `BusyInv`
says that one of them is busy at a time, and `ServedInv` follows that one on its way:
while it asks, every claimant serves; while it waits, the daemon it waits for does, unless
it has its answer, which counts though the daemon ends; and when it starts a daemon there
is none, because the one it could not reach is dead or has no socket.

`WinServiceProofs` proves, for any number of controllers, any flags and any limit of the
loop in `stop()`, the type invariant, `OwnCompletion`, `StatusTruth`,
`NothingLeftBehind` and the action property `LegalStatus`. `serviceMain` reports the end
of the start-up without the mutex, and once that report has been overtaken by a control
the manager knows a state that is over; `StatusTruth`, `NobodyLeftWaiting` and
`LegalStatus` are claimed until then, `OwnCompletion`, `DanglingNeedsLateThread` and the
types in every case. They say at the same time that nothing else breaks the order: the
reports of the dispatcher and of the main thread may be copied and delivered with any
steps in between. The invariant has two parts accordingly. `OvertakenInv` is what remains
true: the dispatcher posts one event at a time and waits for that one. `ServerInv` holds
until then. One condition variable
serves every wait, so the question is who is woken for what. `ServerInv` follows
the one event that can be under way from the thread that posts it to its end: before
`serviceMain()` has posted the start-up nobody has posted anything (`EarlyInv`); until it
is over the manager sends nothing but interrogations (`StartInv`); afterwards the
dispatcher has the only event, if there is one, and waits for that one (`ControlInv`); the
end of the event loop leaves none behind (`EndInv`); and the reported status is that of
the event under way or of the last operation (`StatusInv`).

`SensorStartProofs` proves `TypeOK`, `Announcement` and `CapturesWithAddress` for every
set of hosts, of any number of interfaces and addresses, and any number of changes. The
interface, its address and its mask are one entry of the host as it was seen, so that
what is announced and what is listed are computed from the same pair (`ClientInv`,
`SegmentInv`), whatever the host looks like by then. A sensor that captures is on a way
that an empty name and an interface without an address do not take (`OpenInv`). Which entry is chosen rests on
`Device` finding the first one: a set of positions has a least element.

`HttpClientProofs` proves that `send()` reads every response as it was meant
(`ResponseIsFaithful`) and makes every request as it was meant (`RequestIsFaithful`), for
all URLs, forms, responses, sizes of the buffer, of an `int` and of the memory that
`HttpAssumption` admits, and for every way to cut the two streams into segments. What is
said of a response is said of one that the code understands (`Understood`), of a URL if
no query follows its host directly: for others both are false. The types are proved by an
invariant of their own (`TypeInv`), for every response.

- *The response.* `Render` puts a response together; the invariant `HttpInv` says that
  what is left of it behind some place is in `rd` and `net`, one behind the other, up to a
  part that is lost (`Stream`), and that the parser's variables belong to that place: it
  is before the line that follows the headers read so far (`HeadersInv`), behind as much
  of the body as was read (`PlainInv`), or before, in or behind the data of some chunk
  (`ChunkInv`). `WireLayout` says which token is at which place of a response, so that the
  next `find` of a line end finds the one of the line at hand (`FindLine`,
  `FindEmptyLine`) and no byte of a body. `Recv` and `PeerCloses` move the cut and nothing
  else; each parsing step moves the place by what it takes off. A response that waits
  with nothing to come is past everything that tells its length, and has none
  (`WaitsForMore`).
- *The request.* `UrlIsParsed` takes a URL apart, one delimiter after the other: the parts
  in front of it do not have it (`FindSplit`). `FormIsDecoded` follows the walk of
  `urlEncode` over a text: in UTF-8 each step begins at the first byte of a character and
  goes over the whole of it, so that no byte is left out (`WholeCharacter`); and each
  token it writes is read as the data it stands for (`PieceIs`), never as a separator.
  `RequestInv` says that what the server has and what is left are the request.

`PacketDispatchProofs` proves `ReportsFollowCapture` and `DecodedAsSent` for all captures
that `DispatchAssumption` admits: packets with any number of frames of any length, cut at
any byte, with headers of any size from 20 bytes on. The assumption says what Modbus, TCP
and Ethernet say of what comes in (`IsFrame`, `IsPacket`), that a shortest Ethernet frame
has at most 60 bytes and that the snapshot holds as many.

- *The dispatch.* Neither property is inductive, because a report says nothing of the
  payload it was made of. `DispatchInv` adds that each report is about a Modbus packet
  that was taken, and is what decoding its payload gives (`ReportsRight`); that the
  reports are in the order of the packets (`ReportsInOrder`); and that each Modbus packet
  has one (`AllReported`). A pass without a packet repeats the last one, which keeps the
  order. `ReportsFollowCapture` follows from it, and of `DecodedAsSent` what remains is
  about `Decode`. `DispatchInv` also holds on the configuration of the run `packets`.
- *The decoder.* The stream is described by what is on the wire after each of its frames
  (`WireAfter`). A segment that begins with a frame ends within some frame or with one
  (`Carries`). From a rest that begins with a whole frame a call takes off that frame and
  leaves the next one at the front (`FrameTaken`); a rest that is cut off it leaves alone
  (`FrameLeft`). So the calls are known one by one, and a recursion has only one solution
  (`SameRecursion`): what `Decode` finds is the records of the frames in front of the cut,
  and they are emitted only if nothing is left (`SegmentDecoded`).
- *The records.* The address the decoder knows is that of the last frame it took for a
  request, which among whole frames only an answer with three registers can be
  (`Mistaken`, `KnownAddress`, `AddressKnown`). Each kind of frame gets a reply that fits
  (`ReplyFits`, `FrameAnalyzed`). Padding is at most six bytes, and six zeros are one
  empty record (`PaddingDecoded`).

Three things about the data are proved without the library's induction: what
`FlattenSeq` puts together, that the walk of `urlEncode` ends, and what the calls of
`processModbusPacket` come to. They are inductions over a set of naturals, for which
`NaturalsReached` is enough: the set that has 0 and the successor of each member has them
all.

Model-checked only: the liveness properties, because the proof system has no proof rules
for fairness. Every other property of a passing run is stated by a theorem.
`KeepsPromise` is proved for clients that write whole lines and false for others.

## 5. What the code does not do

- *Resume does not resume.* `Sniffer::stopLoop` sets `m_stop` and nothing resets it.
  `setPause(false)` starts the thread, which leaves `run()` at its first look. The
  service logs that it is resumed and captures nothing. Note that `LateBound` and
  `CaptureEnds` rest on the same fact: with a reset in `setPause(false)` the bound would
  be one late packet for each stop or pause.
- *stop() returns true too early.* `terminate` is answered before the event loop ends;
  the process still runs and listens, and `isRunning()` still connects.
- *The cache outlives its connection.* An unfinished line stays under the address of the
  deleted socket and spoils the first command of the next connection at that address.
- *Two starts at the same time.* Both ask whether a service is alive and start a daemon
  each. The second one's `setPath()` unlinks the path of the first, which captures on and
  can be neither reached nor stopped; when the second ends, `isRunning()` is false
  (`launch_twice`).

Found by reading, without a run: the startup type is not read back. `install` writes the
key `automaticStartup`, `startupType()` reads the key `startupType`; a missing key is read
as `AutoStartup`, which is what the daemon itself sets.

What the models show besides, and no document of the repository contradicts: a daemon
whose `socket()`, `bind()` or `listen()` fails runs on without a control channel
(`qtunixserversocket.cpp:68-81`); it can be neither stopped nor found, and the next start
puts a second one beside it (`OneDaemon` counts those that claim the path). On Windows
the `RUNNING` that `serviceMain` read before a control can arrive after that control's
`STOP_PENDING` or `PAUSED` (`qtservice_win.cpp:659-661`, `overtaken`). The manager then
shows a service as running that is paused or about to stop; it may admit a control after
`quit()`, whose event no loop handles, so that the dispatcher waits until the process
ends; and a pause admitted in this way can write its state over the `SERVICE_STOPPED` of
the main thread before that is read, though a comment takes it for granted that the
stopped state is reported (`qtservice_win.cpp:607`). A
pause is answered `true` although its wait expired and a packet is still in the works
(`PauseHolds` has this case), and the process can abort in `~QThread`
(`AbortNeedsTwoExpiries` says when). An answer with three registers has a PDU of eight
bytes and is taken for a request (`RegistersAsSent` holds for four or more), and a query,
whose PDU has five, is never decoded, so that the address that labels an answer is never
that of its query (`LabelsOfSegment`). A segment that ends within a frame loses the
complete frames before it (`WholeFramesOrNothing`). An acknowledgment without data that
is padded to the shortest Ethernet frame is reported with an empty record of length -1
(`PaddingIsEmpty`), and a packet may be reported twice when no other follows
(`ReportsFollowCapture`). A response that is cut short is returned without an error
(`ResponsePrefix`), and one without a length is waited for until the server closes
(`ReturnsAfterClose`). A `Content-Length` or `Transfer-Encoding` in lower case is not
known; a chunk of 2^31 bytes or more makes `send()` throw or spin (`Moderate`,
`Understood`); a length beyond the memory makes it throw even if the response is chunked
and a comment says that the length is then ignored (`httprequest.h:610`, `HeaderThrows`).
The host of a URL whose query follows it directly is that host with the query
(`UrlParsed`). With a mask shorter than 24 bits the network that is announced with
`/24` need not be the one that is listed (`AnnouncedIsListed`).

## 6. The plan

All modules of the plan are written, and every safety property of the runs is proved, the
refinements included. What is left is beyond this prover: the liveness properties, which
stay with TLC.

## 7. Not modelled

- The logger (`logger.cpp`): it writes lines to a file and keeps no state that others read.
- The ARP sender (`arp.h`): its thread is commented out in the constructor of `Sniffer`.
- The rest of `networktools.h`: queries of the operating system (host name, open ports,
  installed software) that nothing calls.
- On Windows `install`, `uninstall`, `start` and the queries of the configuration: each is
  one call of the service control manager, and the code keeps no state of its own.
- `logMessage`, the texts of `exec()` and of the reports, and the name of the socket file.
- The examples of the service library: they are not part of the daemon.
- Memory: the copies that `processIpPacket` and `processModbusPacket` never free.
