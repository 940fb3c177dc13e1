--------------------------- MODULE ServiceLaunch ---------------------------
(***************************************************************************)
(* How the daemon comes to run and to an end on Unix: QtServiceBase::exec()  *)
(* of the program called with or without an option, QtServiceController::     *)
(* start(), and QtServiceBasePrivate::run() of the detached process.  All of  *)
(* them meet at the installed file and at the path of the control socket,      *)
(* which each daemon unlinks, binds and unlinks again.                        *)
(*                                                                            *)
(* What is said over a connection is ServiceSocket; here a daemon that serves *)
(* answers a command with "true", and a connection of any other breaks.       *)
(***************************************************************************)
EXTENDS Naturals, FiniteSets

CONSTANTS
  Calls,        \* calls of the program, and of the controller's start()
  Options,      \* what they ask for
  Daemons,      \* the detached processes that can be started
  NoDaemon      \* no process; a path without a file

ASSUME LaunchAssumption ==
  /\ NoDaemon \notin Daemons
  /\ Options \subseteq {"none", "install", "uninstall", "version", "exec", "terminate",
                        "command", "help", "start"}

VARIABLES
  installed, \* the service's group in QSettings has the path of the program
  path,      \* whose socket the path of the control socket names
  dpc,       \* where each daemon is
  option,    \* what each call asks for, as long as it matters to what it does next;
             \* "command" is a pause, a resume or a command
  cpc,       \* where each call is
  conn,      \* whom the call is connected to
  answered,  \* the answer "true" is on the way to the call
  ret,       \* what the call printed of isRunning()
  overlap,   \* history: a daemon was started while another one claimed the path
  hasty      \* history: a call began before the effects of those before it were over

callVars == <<option, cpc, conn, answered, ret>>
history == <<overlap, hasty>>
vars == <<installed, path, dpc, callVars, history>>

-----------------------------------------------------------------------------
Alive(d) == dpc[d] \notin {"none", "exited", "dead"}
Listening(d) == dpc[d] \in {"serve", "quitting"}

\* It has the socket or is on its way to it; one that got none runs, but not so.
Claims(d) == Alive(d) /\ dpc[d] # "refused"

Reachable == path # NoDaemon /\ Listening(path)

\* Nothing that was begun goes on: a daemon serves, or there is none.
Settled ==
  /\ \A c \in Calls : cpc[c] \in {"idle", "standalone", "done"}
  /\ \A d \in Daemons : dpc[d] \in {"none", "serve", "deaf", "refused", "exited", "dead"}

Init ==
  /\ installed = FALSE
  /\ path = NoDaemon
  /\ dpc = [d \in Daemons |-> "none"]
  /\ option = [c \in Calls |-> "none"]
  /\ cpc = [c \in Calls |-> "idle"]
  /\ conn = [c \in Calls |-> NoDaemon]
  /\ answered = [c \in Calls |-> FALSE]
  /\ ret = [c \in Calls |-> "nothing"]
  /\ overlap = FALSE
  /\ hasty = FALSE

-----------------------------------------------------------------------------
(* A call of the program: exec().                                            *)

\* A call that only has to print, or is over, is like any other: its option matters no
\* more.
Matters(to) == to \notin {"status", "standalone", "uninstalling", "done"}

Goes(c, from, to) ==
  /\ cpc[c] = from
  /\ cpc' = [cpc EXCEPT ![c] = to]
  /\ option' = [option EXCEPT ![c] = IF Matters(to) THEN @ ELSE "none"]

\* Which way exec() or start() takes: the option, and for an installation and a
\* start whether the service is installed.
FirstStep(o) ==
  CASE o \in {"install", "none"} /\ ~installed -> "installing"
    [] o = "none" /\ installed -> "asking"
    [] o \in {"terminate", "command"} -> "asking"
    [] o = "start" /\ installed -> "looking"
    [] o = "version" -> "status"
    [] o = "exec" -> "standalone"
    [] o = "uninstall" /\ installed -> "uninstalling"
    [] OTHER -> "done"

Begin(c) ==
  /\ cpc[c] = "idle"
  /\ \E o \in Options :
       /\ option' = [option EXCEPT ![c] = IF Matters(FirstStep(o)) THEN o ELSE "none"]
       /\ cpc' = [cpc EXCEPT ![c] = FirstStep(o)]
  /\ hasty' = (hasty \/ ~Settled)
  /\ UNCHANGED <<installed, path, dpc, conn, answered, ret, overlap>>

\* QSettings may not be writable; a start is given up then.
Install(c) ==
  /\ \/ /\ installed' = TRUE
        /\ Goes(c, "installing", IF option[c] = "install" THEN "done" ELSE "asking")
     \/ /\ Goes(c, "installing", "done")
        /\ UNCHANGED installed
  /\ UNCHANGED <<path, dpc, conn, answered, ret, history>>

Uninstall(c) ==
  /\ Goes(c, "uninstalling", "done")
  /\ installed' \in {installed, FALSE}
  /\ UNCHANGED <<path, dpc, conn, answered, ret, history>>

\* QtServiceController::start(): isRunning() ...
ControllerStart(c) ==
  /\ Goes(c, "looking", IF Reachable THEN "done" ELSE "detaching")
  /\ UNCHANGED <<installed, path, dpc, conn, answered, ret, history>>

\* ... then a detached process, which may not come, that is called as a program without
\* options; the call goes on as that process.
Detach(c) ==
  /\ \E to \in {FirstStep("none"), "done"} : Goes(c, "detaching", to)
  /\ UNCHANGED <<installed, path, dpc, conn, answered, ret, history>>

\* sendCmd(): connects and writes "alive" or a command ...
Connect(c) ==
  /\ Reachable
  /\ Goes(c, "asking", "waiting")
  /\ conn' = [conn EXCEPT ![c] = path]
  /\ UNCHANGED <<installed, path, dpc, answered, ret, history>>

\* sendCmd() returned: a command is over, a start goes on, to start a daemon or not.
Refused(c) == IF option[c] \in {"terminate", "command"} THEN "done" ELSE "spawning"
Granted(c) == IF option[c] \in {"terminate", "command"} THEN "done" ELSE "status"

ConnectFails(c) ==
  /\ ~Reachable
  /\ Goes(c, "asking", Refused(c))
  /\ UNCHANGED <<installed, path, dpc, conn, answered, ret, history>>

\* Wrong: the socket stays open.
HangUpNever(c, to) ==
  /\ Goes(c, "waiting", to)
  /\ answered' = [answered EXCEPT ![c] = FALSE]
  /\ UNCHANGED <<installed, path, dpc, conn, ret, history>>

\* sendCmd() leaves the wait and closes its socket.
HangUp(c, to) ==
  /\ Goes(c, "waiting", to)
  /\ conn' = [conn EXCEPT ![c] = NoDaemon]
  /\ answered' = [answered EXCEPT ![c] = FALSE]
  /\ UNCHANGED <<installed, path, dpc, ret, history>>

\* Wrong: the answer is not the one that was looked for.
ReadAnswerMissed(c) ==
  /\ answered[c]
  /\ HangUp(c, Refused(c))

\* ... and waits for an answer, without a limit, or for the end of the connection.
ReadAnswer(c) ==
  /\ answered[c]
  /\ HangUp(c, Granted(c))

ReadEnd(c) ==
  /\ cpc[c] = "waiting"
  /\ ~answered[c]
  /\ ~Listening(conn[c])
  /\ HangUp(c, Refused(c))

\* Processes that do not exist yet are all alike: any of them will do.
Unborn == {d \in Daemons : dpc[d] = "none"}

\* QtServiceBasePrivate::start(): startDetached(), which may fail, unnoticed.
Spawn(c) ==
  /\ Goes(c, "spawning", "status")
  /\ \/ /\ Unborn # {}
        /\ dpc' = [dpc EXCEPT ![CHOOSE d \in Unborn : TRUE] = "spawned"]
        /\ overlap' = (overlap \/ \E e \in Daemons : Claims(e))
     \/ UNCHANGED <<dpc, overlap>>
  /\ UNCHANGED <<installed, path, conn, answered, ret, hasty>>

\* Wrong: reports whether the call is still connected.
StatusOfConnection(c) ==
  /\ Goes(c, "status", "done")
  /\ ret' = [ret EXCEPT ![c] = IF conn[c] # NoDaemon THEN "running" ELSE "not running"]
  /\ UNCHANGED <<installed, path, dpc, conn, answered, history>>

\* The last line of a start and that of "version": isRunning().
Status(c) ==
  /\ Goes(c, "status", "done")
  /\ ret' = [ret EXCEPT ![c] = IF Reachable THEN "running" ELSE "not running"]
  /\ UNCHANGED <<installed, path, dpc, conn, answered, history>>

\* exec with the option "exec" runs the service without a control socket; the
\* program ends some time, or never.
StandaloneEnds(c) ==
  /\ Goes(c, "standalone", "done")
  /\ UNCHANGED <<installed, path, dpc, conn, answered, ret, history>>

-----------------------------------------------------------------------------
(* The detached process: run(true).                                          *)

DaemonGoes(d, from, to) ==
  /\ dpc[d] = from
  /\ dpc' = [dpc EXCEPT ![d] = to]
  /\ UNCHANGED <<installed, callVars, history>>

\* Wrong: the path is left as it is.
UnlinkNothing(d) ==
  /\ DaemonGoes(d, "spawned", "unlinked")
  /\ UNCHANGED path

\* Wrong: waits for the path to be free.
UnlinkWaits(d) ==
  /\ path = NoDaemon
  /\ DaemonGoes(d, "spawned", "unlinked")
  /\ UNCHANGED path

\* setPath(): whatever is at the path goes ...
Unlink(d) ==
  /\ DaemonGoes(d, "spawned", "unlinked")
  /\ path' = NoDaemon

\* ... bind() collides with another daemon that has bound it since, and nobody looks.
Bind(d) ==
  IF path = NoDaemon
  THEN DaemonGoes(d, "unlinked", "bound") /\ path' = d
  ELSE DaemonGoes(d, "unlinked", "deaf") /\ UNCHANGED path

Listen(d) ==
  /\ DaemonGoes(d, "bound", "serve")
  /\ UNCHANGED path

\* socket(), bind() or listen() fails for a reason of its own, and nobody looks: the
\* daemon runs without a socket.  What is at the path by then stays.
SetPathFails(d) ==
  /\ \E from \in {"spawned", "unlinked", "bound"} : DaemonGoes(d, from, "refused")
  /\ UNCHANGED path

\* Wrong: "alive" is no command.
AnswerTerminate(d, c) ==
  /\ Listening(d)
  /\ conn[c] = d
  /\ cpc[c] = "waiting"
  /\ ~answered[c]
  /\ option[c] = "terminate"
  /\ answered' = [answered EXCEPT ![c] = TRUE]
  /\ dpc' = [dpc EXCEPT ![d] = "quitting"]
  /\ UNCHANGED <<installed, path, option, cpc, conn, ret, history>>

\* A command of a call; "terminate" is answered before the event loop ends.
Answer(d, c) ==
  /\ Listening(d)
  /\ conn[c] = d
  /\ cpc[c] = "waiting"
  /\ ~answered[c]
  /\ answered' = [answered EXCEPT ![c] = TRUE]
  /\ dpc' = IF option[c] = "terminate" THEN [dpc EXCEPT ![d] = "quitting"] ELSE dpc
  /\ UNCHANGED <<installed, path, option, cpc, conn, ret, history>>

\* sysCleanup(), close(): the listening socket, then whatever is at the path.
Close(d) ==
  /\ DaemonGoes(d, "quitting", "closed")
  /\ UNCHANGED path

ClosePath(d) ==
  /\ DaemonGoes(d, "closed", "exited")
  /\ path' = NoDaemon

\* The process is killed, crashes, or exits from within start(): no cleanup.
Crash(d) ==
  /\ Alive(d)
  /\ DaemonGoes(d, dpc[d], "dead")
  /\ UNCHANGED path

-----------------------------------------------------------------------------
CallStep(c) ==
  \/ Install(c) \/ Uninstall(c) \/ ControllerStart(c) \/ Detach(c) \/ Connect(c)
  \/ ConnectFails(c) \/ ReadAnswer(c) \/ ReadEnd(c) \/ Spawn(c) \/ Status(c)

\* What the process does by itself once it is started or told to stop.
Proceeds(d) == Unlink(d) \/ Bind(d) \/ Listen(d) \/ Close(d) \/ ClosePath(d)
Serves(d) == \E c \in Calls : Answer(d, c)

Idle ==
  /\ Settled
  /\ \A c \in Calls : cpc[c] # "idle"
  /\ UNCHANGED vars

Next ==
  \/ \E c \in Calls : Begin(c) \/ CallStep(c) \/ StandaloneEnds(c)
  \/ \E d \in Daemons : Proceeds(d) \/ SetPathFails(d) \/ Serves(d) \/ Crash(d)
  \/ Idle

\* Every process that can go on does, and a daemon that has connections to look at
\* looks at one; each has one command only.
Fairness ==
  /\ \A c \in Calls : WF_vars(CallStep(c))
  /\ \A d \in Daemons : WF_vars(Proceeds(d)) /\ WF_vars(Serves(d))

Spec == Init /\ [][Next]_vars /\ Fairness

-----------------------------------------------------------------------------
(* Properties.                                                               *)

\* The type invariant: every variable is in its range (qtservice.cpp:778-893).
TypeOK ==
  /\ path \in Daemons \cup {NoDaemon}
  /\ dpc \in [Daemons -> {"none", "spawned", "unlinked", "bound", "refused", "deaf", "serve",
                          "quitting", "closed", "exited", "dead"}]
  /\ option \in [Calls -> Options \cup {"none"}]
  /\ cpc \in [Calls -> {"idle", "installing", "uninstalling", "looking", "detaching", "asking",
                        "waiting", "spawning", "status", "standalone", "done"}]
  /\ conn \in [Calls -> Daemons \cup {NoDaemon}]
  /\ answered \in [Calls -> BOOLEAN]
  /\ ret \in [Calls -> {"nothing", "running", "not running"}]
  /\ {overlap, hasty} \subseteq BOOLEAN
  /\ \A c \in Calls : (cpc[c] = "waiting") = (conn[c] # NoDaemon)

\* A daemon that serves where no controller finds it, or whose bind() collided, has met
\* another one: it was started while one claimed the path, or one was started while it
\* did.  One whose socket failed for another reason takes the path from nobody
\* (qtunixserversocket.cpp:73, 89).
OrphanNeedsOverlap ==
  (\E d \in Daemons : dpc[d] \in {"serve", "deaf"} /\ path # d) => overlap

\* A daemon that ended in order leaves no file behind; one that died does, and the
\* next one removes it (qtunixserversocket.cpp:85-92).
NoFileOfExited == path # NoDaemon => dpc[path] # "exited"

\* Whose the path of the socket is (qtunixserversocket.cpp:64-92).
PathOwned == OrphanNeedsOverlap /\ NoFileOfExited

\* Started one after the other, at most one daemon claims the path: one that can answer
\* is asked, and its answer counts though it ends meanwhile.  Beside it there may be
\* those whose socket has failed: nobody can ask them (qtservice_unix.cpp:407-417).
OneDaemon == ~hasty => Cardinality({d \in Daemons : Claims(d)}) <= 1

\* isRunning() is false only while no daemon serves (qtservice.cpp:260).
RunningIsReported ==
  [][\A c \in Calls :
       ret[c] # ret'[c] /\ ret'[c] = "not running" => \A d \in Daemons : dpc[d] # "serve"]_vars

\* It is so as long as every call waits for the effects of those before it, whatever
\* has died in between (qtservice_unix.cpp:259-265).
CarefulIsReported ==
  [][\A c \in Calls :
       ret[c] # ret'[c] /\ ret'[c] = "not running" /\ ~hasty =>
         \A d \in Daemons : dpc[d] # "serve"]_vars

\* Started one after the other, a daemon comes to serve, though the one before it died
\* and left its file, unless it dies as well or its own socket fails
\* (qtunixserversocket.cpp:68-81).
StartedServes ==
  \A d \in Daemons : dpc[d] = "spawned" ~> dpc[d] \in {"serve", "dead", "refused"} \/ hasty

\* Every call ends, whatever the daemons do, except for the service that is run as
\* a program of its own (qtservice_unix.cpp:101).
CallsReturn ==
  \A c \in Calls : cpc[c] # "idle" ~> cpc[c] \in {"standalone", "done"}
=============================================================================
