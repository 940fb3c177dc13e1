------------------------- MODULE ServiceLaunchProofs -------------------------
(***************************************************************************)
(* Proofs about ServiceLaunch, for any number of calls and daemons.        *)
(* PathInv says whose the path is as long as no two daemons have met,       *)
(* CarefulInv that they do not meet if every call waits for the effects of  *)
(* those before it.                                                         *)
(***************************************************************************)
EXTENDS ServiceLaunch, FiniteSetTheorems, TLAPS

Busy(c) == cpc[c] \notin {"idle", "standalone", "done"}

\* Whoever has met no other claimant of the path is the only one
\* (qtservice_unix.cpp:407-417).
AloneInv == \A d, e \in Daemons : ~overlap /\ Claims(d) /\ Claims(e) => d = e

\* ... and owns the path from its bind() to its end (qtunixserversocket.cpp:64-92).
OwnerInv ==
  \A d \in Daemons : ~overlap =>
    /\ dpc[d] # "deaf"
    /\ dpc[d] = "unlinked" => path = NoDaemon
    /\ dpc[d] \in {"bound", "serve", "quitting", "closed"} => path = d

PathInv == NoFileOfExited /\ AloneInv /\ OwnerInv

\* Of calls that wait for each other one is busy at a time ...
BusyInv == \A b, c \in Calls : ~hasty /\ Busy(b) /\ Busy(c) => b = c

\* ... until it has an answer any daemon serves, and when it starts one there is
\* none (qtservice_unix.cpp:407-417).
ServedInv ==
  \A c \in Calls : \A d \in Daemons :
    ~hasty /\ Claims(d) =>
      /\ cpc[c] # "spawning"
      /\ cpc[c] \in {"installing", "uninstalling", "looking", "detaching", "asking"} =>
           dpc[d] = "serve"
      /\ cpc[c] = "waiting" /\ ~answered[c] => dpc[d] = "serve" /\ conn[c] = d

CarefulInv == (~hasty => ~overlap) /\ BusyInv /\ ServedInv

LInv == TypeOK /\ PathInv /\ CarefulInv

-----------------------------------------------------------------------------
\* Nothing has been started and nothing asked for.
LEMMA InitLInv == Init => LInv
<1> SUFFICES ASSUME Init PROVE LInv
  OBVIOUS
<1> USE DEF Init
<1>1. TypeOK
  BY DEF TypeOK
<1>2. PathInv
  BY DEF PathInv, NoFileOfExited, AloneInv, OwnerInv, Alive, Claims
<1>3. CarefulInv
  BY DEF CarefulInv, BusyInv, ServedInv, Busy, Alive, Claims
<1> QED
  BY <1>1, <1>2, <1>3 DEF LInv

\* The first step of a call leads to a place of the program.
LEMMA FirstStepPlace ==
  ASSUME NEW o
  PROVE  FirstStep(o) \in {"installing", "asking", "looking", "status", "standalone",
                           "uninstalling", "done"}
BY DEF FirstStep

\* A call begins: in haste, or when everything has settled, so that no other is busy
\* and a daemon that is there serves.
LEMMA BeginStep ==
  ASSUME LInv, NEW c \in Calls, Begin(c)
  PROVE  LInv'
<1> USE DEF LInv, PathInv, CarefulInv, Begin
<1> PICK o \in Options :
      /\ option' = [option EXCEPT ![c] = IF Matters(FirstStep(o)) THEN o ELSE "none"]
      /\ cpc' = [cpc EXCEPT ![c] = FirstStep(o)]
  OBVIOUS
<1>a. hasty' \in BOOLEAN
  OBVIOUS
<1>b. ~hasty' => Settled /\ ~hasty
  OBVIOUS
<1>1. TypeOK'
  <2>1. option' \in [Calls -> Options \cup {"none"}]
    BY DEF TypeOK
  <2> QED
    BY <1>a, <2>1, FirstStepPlace DEF TypeOK
<1>2. NoFileOfExited' /\ (~hasty => ~overlap)'
  BY DEF NoFileOfExited, TypeOK
<1>3. AloneInv'
  BY DEF AloneInv, TypeOK, Alive, Claims
<1>4. OwnerInv'
  BY DEF OwnerInv, AloneInv, TypeOK, Alive, Claims
<1>5. BusyInv'
  <2> SUFFICES ASSUME ~hasty', NEW a \in Calls, NEW b \in Calls, Busy(a)', Busy(b)'
               PROVE  a = b
    BY DEF BusyInv
  <2>1. ~ Busy(a) /\ ~ Busy(b)
    BY <1>b DEF Settled, Busy
  <2>2. (a # c => cpc'[a] = cpc[a]) /\ (b # c => cpc'[b] = cpc[b])
    BY DEF TypeOK
  <2> QED
    BY <2>1, <2>2 DEF Busy
<1>6. ServedInv'
  <2> SUFFICES ASSUME NEW b \in Calls, NEW d \in Daemons, ~hasty', Claims(d)'
               PROVE  (/\ cpc[b] # "spawning"
                       /\ cpc[b] \in {"installing", "uninstalling", "looking", "detaching",
                                      "asking"} =>
                            dpc[d] = "serve"
                       /\ cpc[b] = "waiting" /\ ~answered[b] => dpc[d] = "serve" /\ conn[b] = d)'
    BY DEF ServedInv
  <2>1. dpc[d] = "serve"
    BY <1>b DEF Settled, Alive, Claims, CarefulInv, OwnerInv
  <2>2. ~ Busy(b)
    BY <1>b DEF Settled, Busy
  <2> QED
    BY <2>1, <2>2, FirstStepPlace DEF Busy, TypeOK
<1> QED
  BY <1>1, <1>2, <1>3, <1>4, <1>5, <1>6

\* The path of the program is saved, or cannot be.
LEMMA InstallStep ==
  ASSUME LInv, NEW c \in Calls, Install(c)
  PROVE  LInv'
<1> USE DEF LInv, PathInv, CarefulInv, Install, Goes, history
<1>1. TypeOK'
  BY ZenonT(40) DEF TypeOK
<1>2. NoFileOfExited' /\ (~hasty => ~overlap)'
  BY DEF NoFileOfExited, TypeOK
<1>3. AloneInv'
  BY DEF AloneInv, TypeOK, Alive, Claims
<1>4. OwnerInv'
  BY DEF OwnerInv, AloneInv, TypeOK, Alive, Claims
<1>5. BusyInv'
  <2>1. \A b \in Calls : Busy(b)' => Busy(b)
    BY DEF TypeOK, Busy
  <2> QED
    BY <2>1 DEF BusyInv
<1>6. ServedInv'
  <2> SUFFICES ASSUME NEW b \in Calls, NEW d \in Daemons, ~hasty', Claims(d)'
               PROVE  (/\ cpc[b] # "spawning"
                       /\ cpc[b] \in {"installing", "uninstalling", "looking", "detaching",
                                      "asking"} =>
                            dpc[d] = "serve"
                       /\ cpc[b] = "waiting" /\ ~answered[b] => dpc[d] = "serve" /\ conn[b] = d)'
    BY DEF ServedInv
  <2>1. ~hasty /\ Claims(d) /\ cpc[c] = "installing"
    BY DEF Alive, Claims
  <2>2. dpc[d] = "serve"
    BY <2>1 DEF ServedInv
  <2>3. cpc'[c] \in {"done", "asking"} /\ (b # c => cpc'[b] = cpc[b])
    BY DEF TypeOK
  <2>4. b # c => ~ Busy(b)
    BY <2>1 DEF BusyInv, Busy
  <2> QED
    BY <2>2, <2>3, <2>4 DEF Busy
<1> QED
  BY <1>1, <1>2, <1>3, <1>4, <1>5, <1>6

\* The settings are removed, or cannot be.
LEMMA UninstallStep ==
  ASSUME LInv, NEW c \in Calls, Uninstall(c)
  PROVE  LInv'
<1> USE DEF LInv, PathInv, CarefulInv, Uninstall, Goes, history
<1>1. TypeOK'
  BY DEF TypeOK
<1>2. NoFileOfExited' /\ (~hasty => ~overlap)'
  BY DEF NoFileOfExited, TypeOK
<1>3. AloneInv'
  BY DEF AloneInv, TypeOK, Alive, Claims
<1>4. OwnerInv'
  BY DEF OwnerInv, AloneInv, TypeOK, Alive, Claims
<1>5. BusyInv'
  <2>1. \A b \in Calls : Busy(b)' => Busy(b)
    BY DEF TypeOK, Busy
  <2> QED
    BY <2>1 DEF BusyInv
<1>6. ServedInv'
  BY ZenonT(40) DEF ServedInv, BusyInv, OwnerInv, TypeOK, Alive, Claims, Busy
<1> QED
  BY <1>1, <1>2, <1>3, <1>4, <1>5, <1>6

\* The controller's start() gives up, or goes on as a program.
LEMMA ControllerStartStep ==
  ASSUME LInv, NEW c \in Calls, ControllerStart(c)
  PROVE  LInv'
<1> USE DEF LInv, PathInv, CarefulInv, ControllerStart, Goes, history
<1>1. TypeOK'
  BY DEF TypeOK
<1>2. NoFileOfExited' /\ (~hasty => ~overlap)'
  BY DEF NoFileOfExited, TypeOK
<1>3. AloneInv'
  BY DEF AloneInv, TypeOK, Alive, Claims
<1>4. OwnerInv'
  BY DEF OwnerInv, AloneInv, TypeOK, Alive, Claims
<1>5. BusyInv'
  BY DEF BusyInv, TypeOK, Busy
<1>6. ServedInv'
  BY ZenonT(40) DEF ServedInv, BusyInv, OwnerInv, TypeOK, Alive, Claims, Busy
<1> QED
  BY <1>1, <1>2, <1>3, <1>4, <1>5, <1>6

\* The process that was to start the daemon begins, or does not come.
LEMMA DetachStep ==
  ASSUME LInv, NEW c \in Calls, Detach(c)
  PROVE  LInv'
<1> USE DEF LInv, PathInv, CarefulInv, history
<1> PICK to \in {"installing", "asking", "done"} :
      /\ cpc[c] = "detaching"
      /\ cpc' = [cpc EXCEPT ![c] = to]
      /\ option' = [option EXCEPT ![c] = IF Matters(to) THEN @ ELSE "none"]
      /\ UNCHANGED <<installed, path, dpc, conn, answered, ret, history>>
  BY DEF Detach, Goes, FirstStep
<1>1. TypeOK'
  <2>1. option' \in [Calls -> Options \cup {"none"}]
    BY DEF TypeOK
  <2> QED
    BY <2>1 DEF TypeOK
<1>2. NoFileOfExited' /\ (~hasty => ~overlap)'
  BY DEF NoFileOfExited, TypeOK
<1>3. AloneInv'
  BY DEF AloneInv, TypeOK, Alive, Claims
<1>4. OwnerInv'
  BY DEF OwnerInv, AloneInv, TypeOK, Alive, Claims
<1>5. BusyInv'
  BY DEF BusyInv, TypeOK, Busy
<1>6. ServedInv'
  BY DEF ServedInv, TypeOK, Claims, Alive
<1> QED
  BY <1>1, <1>2, <1>3, <1>4, <1>5, <1>6

\* A call connects to the daemon that owns the path.
LEMMA ConnectStep ==
  ASSUME LInv, NEW c \in Calls, Connect(c)
  PROVE  LInv'
<1> USE DEF LInv, PathInv, CarefulInv, Connect, Goes, history
<1>1. TypeOK'
  BY DEF TypeOK, Reachable, Listening
<1>2. NoFileOfExited' /\ (~hasty => ~overlap)'
  BY DEF NoFileOfExited, TypeOK
<1>3. AloneInv'
  BY DEF AloneInv, TypeOK, Alive, Claims
<1>4. OwnerInv'
  BY DEF OwnerInv, AloneInv, TypeOK, Alive, Claims
<1>5. BusyInv'
  BY DEF BusyInv, TypeOK, Busy
<1>6. ServedInv'
  <2> SUFFICES ASSUME NEW b \in Calls, NEW d \in Daemons, ~hasty', Claims(d)'
               PROVE  (/\ cpc[b] # "spawning"
                       /\ cpc[b] \in {"installing", "uninstalling", "looking", "detaching",
                                      "asking"} =>
                            dpc[d] = "serve"
                       /\ cpc[b] = "waiting" /\ ~answered[b] => dpc[d] = "serve" /\ conn[b] = d)'
    BY DEF ServedInv
  <2>1. ~hasty /\ Claims(d) /\ cpc[c] = "asking"
    BY DEF Alive, Claims
  <2>2. dpc[d] = "serve" /\ path = d
    BY <2>1 DEF ServedInv, OwnerInv
  <2>3. b # c => ~ Busy(b)
    BY <2>1 DEF BusyInv, Busy
  <2> QED
    BY <2>2, <2>3 DEF Busy, TypeOK
<1> QED
  BY <1>1, <1>2, <1>3, <1>4, <1>5, <1>6

\* Nobody listens at the path: a careful call has no daemon to miss.
LEMMA ConnectFailsStep ==
  ASSUME LInv, NEW c \in Calls, ConnectFails(c)
  PROVE  LInv'
<1> USE DEF LInv, PathInv, CarefulInv, ConnectFails, Goes, history, Refused
<1>1. TypeOK'
  BY DEF TypeOK
<1>2. NoFileOfExited' /\ (~hasty => ~overlap)'
  BY DEF NoFileOfExited, TypeOK
<1>3. AloneInv'
  BY DEF AloneInv, TypeOK, Alive, Claims
<1>4. OwnerInv'
  BY DEF OwnerInv, AloneInv, TypeOK, Alive, Claims
<1>5. BusyInv'
  BY DEF BusyInv, TypeOK, Busy
<1>6. ServedInv'
  <2> SUFFICES ASSUME NEW b \in Calls, NEW d \in Daemons, ~hasty', Claims(d)'
               PROVE  (/\ cpc[b] # "spawning"
                       /\ cpc[b] \in {"installing", "uninstalling", "looking", "detaching",
                                      "asking"} =>
                            dpc[d] = "serve"
                       /\ cpc[b] = "waiting" /\ ~answered[b] => dpc[d] = "serve" /\ conn[b] = d)'
    BY DEF ServedInv
  <2>1. ~hasty /\ Claims(d) /\ cpc[c] = "asking"
    BY DEF Alive, Claims
  <2>2. dpc[d] = "serve" /\ path = d
    BY <2>1 DEF ServedInv, OwnerInv
  <2>3. path # NoDaemon
    BY <2>2, LaunchAssumption
  <2> QED
    BY <2>2, <2>3 DEF Reachable, Listening
<1> QED
  BY <1>1, <1>2, <1>3, <1>4, <1>5, <1>6

\* The answer ends the wait.
LEMMA ReadAnswerStep ==
  ASSUME LInv, NEW c \in Calls, ReadAnswer(c)
  PROVE  LInv'
<1> USE DEF LInv, PathInv, CarefulInv, ReadAnswer, Goes, history, HangUp, Granted, Refused
<1>1. TypeOK'
  BY DEF TypeOK
<1>2. NoFileOfExited' /\ (~hasty => ~overlap)'
  BY DEF NoFileOfExited, TypeOK
<1>3. AloneInv'
  BY DEF AloneInv, TypeOK, Alive, Claims
<1>4. OwnerInv'
  BY DEF OwnerInv, AloneInv, TypeOK, Alive, Claims
<1>5. BusyInv'
  BY ZenonT(40) DEF BusyInv, TypeOK, Busy
<1>6. ServedInv'
  BY ZenonT(40) DEF ServedInv, BusyInv, OwnerInv, TypeOK, Alive, Claims, Busy
<1> QED
  BY <1>1, <1>2, <1>3, <1>4, <1>5, <1>6

\* The connection ended without an answer: a careful call has seen its daemon die.
LEMMA ReadEndStep ==
  ASSUME LInv, NEW c \in Calls, ReadEnd(c)
  PROVE  LInv'
<1> USE DEF LInv, PathInv, CarefulInv, ReadEnd, Goes, history, HangUp, Granted, Refused
<1>1. TypeOK'
  BY DEF TypeOK
<1>2. NoFileOfExited' /\ (~hasty => ~overlap)'
  BY DEF NoFileOfExited, TypeOK
<1>3. AloneInv'
  BY DEF AloneInv, TypeOK, Alive, Claims
<1>4. OwnerInv'
  BY DEF OwnerInv, AloneInv, TypeOK, Alive, Claims
<1>5. BusyInv'
  BY ZenonT(40) DEF BusyInv, TypeOK, Busy
<1>6. ServedInv'
  <2> SUFFICES ASSUME NEW b \in Calls, NEW d \in Daemons, ~hasty', Claims(d)'
               PROVE  FALSE
    BY DEF ServedInv
  <2>1. ~hasty /\ Claims(d) /\ cpc[c] = "waiting" /\ ~answered[c] /\ ~Listening(conn[c])
    BY DEF Claims, Alive
  <2> QED
    BY <2>1 DEF ServedInv, Listening
<1> QED
  BY <1>1, <1>2, <1>3, <1>4, <1>5, <1>6

\* A daemon is started; a careful call starts the only one.
LEMMA SpawnStep ==
  ASSUME LInv, NEW c \in Calls, Spawn(c)
  PROVE  LInv'
<1> USE DEF LInv, PathInv, CarefulInv, Spawn, Goes, history
<1>1. TypeOK'
  BY DEF TypeOK
<1>2. NoFileOfExited' /\ (~hasty => ~overlap)'
  BY ZenonT(40) DEF NoFileOfExited, TypeOK, ServedInv, Alive, Claims
<1>a. \/ UNCHANGED <<dpc, overlap>>
     \/ \E d \in Unborn : /\ dpc' = [dpc EXCEPT ![d] = "spawned"]
                          /\ overlap' = (overlap \/ \E e \in Daemons : Claims(e))
  OBVIOUS
<1>3. AloneInv'
  <2>1. CASE UNCHANGED <<dpc, overlap>>
    BY <2>1 DEF AloneInv, Alive, Claims
  <2>2. ASSUME NEW d \in Unborn, dpc' = [dpc EXCEPT ![d] = "spawned"],
               overlap' = (overlap \/ \E e \in Daemons : Claims(e))
        PROVE  AloneInv'
    <3>1. ~overlap' => \A e \in Daemons : ~ Claims(e)
      BY <2>2
    <3>2. \A e \in Daemons : e # d => Claims(e)' = Claims(e)
      BY <2>2 DEF Alive, Claims, TypeOK
    <3> QED
      BY <3>1, <3>2 DEF AloneInv
  <2> QED
    BY <1>a, <2>1, <2>2
<1>4. OwnerInv'
  <2>1. CASE UNCHANGED <<dpc, overlap>>
    BY <2>1 DEF OwnerInv
  <2>2. ASSUME NEW d \in Unborn, dpc' = [dpc EXCEPT ![d] = "spawned"],
               overlap' = (overlap \/ \E e \in Daemons : Claims(e))
        PROVE  OwnerInv'
    <3>1. ~overlap' => ~overlap
      BY <2>2
    <3>2. \A e \in Daemons : dpc'[e] = dpc[e] \/ dpc'[e] = "spawned"
      BY <2>2 DEF TypeOK
    <3> QED
      BY <3>1, <3>2 DEF OwnerInv
  <2> QED
    BY <1>a, <2>1, <2>2
<1>5. BusyInv'
  BY DEF BusyInv, TypeOK, Busy
<1>6. ServedInv'
  <2> SUFFICES ASSUME NEW b \in Calls, NEW d \in Daemons, ~hasty', Claims(d)'
               PROVE  (/\ cpc[b] # "spawning"
                       /\ cpc[b] \in {"installing", "uninstalling", "looking", "detaching",
                                      "asking"} =>
                            dpc[d] = "serve"
                       /\ cpc[b] = "waiting" /\ ~answered[b] => dpc[d] = "serve" /\ conn[b] = d)'
    BY DEF ServedInv
  <2>1. ~hasty /\ cpc[c] = "spawning"
    OBVIOUS
  <2>2. \A a \in Calls : a # c => ~ Busy(a)
    BY <2>1 DEF BusyInv, Busy
  <2>3. cpc'[c] = "status" /\ (b # c => cpc'[b] = cpc[b])
    BY DEF TypeOK
  <2> QED
    BY <2>2, <2>3 DEF Busy
<1> QED
  BY <1>1, <1>2, <1>3, <1>4, <1>5, <1>6

\* isRunning() is printed.
LEMMA StatusStep ==
  ASSUME LInv, NEW c \in Calls, Status(c)
  PROVE  LInv'
<1> USE DEF LInv, PathInv, CarefulInv, Status, Goes, history
<1>1. TypeOK'
  BY DEF TypeOK
<1>2. NoFileOfExited' /\ (~hasty => ~overlap)'
  BY DEF NoFileOfExited, TypeOK
<1>3. AloneInv'
  BY DEF AloneInv, TypeOK, Alive, Claims
<1>4. OwnerInv'
  BY DEF OwnerInv, AloneInv, TypeOK, Alive, Claims
<1>5. BusyInv'
  <2>1. \A b \in Calls : Busy(b)' => Busy(b)
    BY DEF TypeOK, Busy
  <2> QED
    BY <2>1 DEF BusyInv
<1>6. ServedInv'
  BY ZenonT(40) DEF ServedInv, BusyInv, OwnerInv, TypeOK, Alive, Claims, Busy
<1> QED
  BY <1>1, <1>2, <1>3, <1>4, <1>5, <1>6

\* The service that ran as a program of its own ends.
LEMMA StandaloneEndsStep ==
  ASSUME LInv, NEW c \in Calls, StandaloneEnds(c)
  PROVE  LInv'
<1> USE DEF LInv, PathInv, CarefulInv, StandaloneEnds, Goes, history
<1>1. TypeOK'
  BY DEF TypeOK
<1>2. NoFileOfExited' /\ (~hasty => ~overlap)'
  BY DEF NoFileOfExited, TypeOK
<1>3. AloneInv'
  BY DEF AloneInv, TypeOK, Alive, Claims
<1>4. OwnerInv'
  BY DEF OwnerInv, AloneInv, TypeOK, Alive, Claims
<1>5. BusyInv'
  <2>1. \A b \in Calls : Busy(b)' => Busy(b)
    BY DEF TypeOK, Busy
  <2> QED
    BY <2>1 DEF BusyInv
<1>6. ServedInv'
  BY ZenonT(40) DEF ServedInv, BusyInv, OwnerInv, TypeOK, Alive, Claims, Busy
<1> QED
  BY <1>1, <1>2, <1>3, <1>4, <1>5, <1>6

\* Whatever is at the path goes; a daemon that is alone owned it if anyone did.
LEMMA UnlinkStep ==
  ASSUME LInv, NEW d \in Daemons, Unlink(d)
  PROVE  LInv'
<1> USE DEF LInv, PathInv, CarefulInv, Unlink, DaemonGoes, callVars, history
<1>1. TypeOK'
  BY DEF TypeOK
<1>2. NoFileOfExited' /\ (~hasty => ~overlap)'
  BY DEF NoFileOfExited, TypeOK
<1>3. AloneInv'
  BY DEF AloneInv, TypeOK, Alive, Claims
<1>4. OwnerInv'
  BY DEF OwnerInv, AloneInv, TypeOK, Alive, Claims
<1>5. BusyInv'
  BY DEF BusyInv, TypeOK, Busy
<1>6. ServedInv'
  BY ZenonT(40) DEF ServedInv, BusyInv, OwnerInv, TypeOK, Alive, Claims, Busy
<1> QED
  BY <1>1, <1>2, <1>3, <1>4, <1>5, <1>6

\* A daemon that is alone finds the path free.
LEMMA BindStep ==
  ASSUME LInv, NEW d \in Daemons, Bind(d)
  PROVE  LInv'
<1> USE DEF LInv, PathInv, CarefulInv, Bind, DaemonGoes, callVars, history
<1>1. TypeOK'
  BY ZenonT(40) DEF TypeOK
<1>2. NoFileOfExited' /\ (~hasty => ~overlap)'
  <2>1. NoFileOfExited'
    BY ZenonT(40) DEF NoFileOfExited, TypeOK
  <2> QED
    BY <2>1
<1>3. AloneInv'
  BY ZenonT(40) DEF AloneInv, TypeOK, Alive, Claims
<1>4. OwnerInv'
  BY ZenonT(40) DEF OwnerInv, AloneInv, TypeOK, Alive, Claims
<1>5. BusyInv'
  BY DEF BusyInv, TypeOK, Busy
<1>6. ServedInv'
  <2> SUFFICES ASSUME NEW b \in Calls, NEW f \in Daemons, ~hasty', Claims(f)'
               PROVE  (/\ cpc[b] # "spawning"
                       /\ cpc[b] \in {"installing", "uninstalling", "looking", "detaching",
                                      "asking"} =>
                            dpc[f] = "serve"
                       /\ cpc[b] = "waiting" /\ ~answered[b] => dpc[f] = "serve" /\ conn[b] = f)'
    BY DEF ServedInv
  <2>1. dpc[d] = "unlinked" /\ Claims(d) /\ Claims(f)
    BY DEF Alive, Claims, TypeOK
  <2>2. f = d
    BY <2>1 DEF AloneInv
  <2> QED
    BY <2>1, <2>2 DEF ServedInv, TypeOK
<1> QED
  BY <1>1, <1>2, <1>3, <1>4, <1>5, <1>6

\* The daemon that is bound listens.
LEMMA ListenStep ==
  ASSUME LInv, NEW d \in Daemons, Listen(d)
  PROVE  LInv'
<1> USE DEF LInv, PathInv, CarefulInv, Listen, DaemonGoes, callVars, history
<1>1. TypeOK'
  BY DEF TypeOK
<1>2. NoFileOfExited' /\ (~hasty => ~overlap)'
  BY DEF NoFileOfExited, TypeOK
<1>3. AloneInv'
  BY DEF AloneInv, TypeOK, Alive, Claims
<1>4. OwnerInv'
  BY DEF OwnerInv, AloneInv, TypeOK, Alive, Claims
<1>5. BusyInv'
  BY DEF BusyInv, TypeOK, Busy
<1>6. ServedInv'
  BY DEF ServedInv, BusyInv, OwnerInv, TypeOK, Alive, Claims, Busy
<1> QED
  BY <1>1, <1>2, <1>3, <1>4, <1>5, <1>6

\* A daemon without a socket no longer claims the path.
LEMMA SetPathFailsStep ==
  ASSUME LInv, NEW d \in Daemons, SetPathFails(d)
  PROVE  LInv'
<1> USE DEF LInv, PathInv, CarefulInv, callVars, history
<1>0. /\ dpc[d] \in {"spawned", "unlinked", "bound"}
      /\ dpc' = [dpc EXCEPT ![d] = "refused"]
      /\ UNCHANGED <<installed, path, callVars, history>>
  BY DEF SetPathFails, DaemonGoes
<1> USE <1>0
<1>1. TypeOK'
  BY DEF TypeOK
<1>2. NoFileOfExited' /\ (~hasty => ~overlap)'
  BY DEF NoFileOfExited, TypeOK
<1>3. AloneInv'
  <2>1. \A e \in Daemons : Claims(e)' => Claims(e)
    BY DEF Alive, Claims, TypeOK
  <2> QED
    BY <2>1 DEF AloneInv
<1>4. OwnerInv'
  BY DEF OwnerInv, AloneInv, TypeOK, Alive, Claims
<1>5. BusyInv'
  BY DEF BusyInv, TypeOK, Busy
<1>6. ServedInv'
  BY DEF ServedInv, BusyInv, OwnerInv, TypeOK, Alive, Claims, Busy
<1> QED
  BY <1>1, <1>2, <1>3, <1>4, <1>5, <1>6

\* A daemon that was stopped closes its socket.
LEMMA CloseStep ==
  ASSUME LInv, NEW d \in Daemons, Close(d)
  PROVE  LInv'
<1> USE DEF LInv, PathInv, CarefulInv, Close, DaemonGoes, callVars, history
<1>1. TypeOK'
  BY DEF TypeOK
<1>2. NoFileOfExited' /\ (~hasty => ~overlap)'
  BY DEF NoFileOfExited, TypeOK
<1>3. AloneInv'
  BY DEF AloneInv, TypeOK, Alive, Claims
<1>4. OwnerInv'
  BY DEF OwnerInv, AloneInv, TypeOK, Alive, Claims
<1>5. BusyInv'
  BY DEF BusyInv, TypeOK, Busy
<1>6. ServedInv'
  BY ZenonT(40) DEF ServedInv, BusyInv, OwnerInv, TypeOK, Alive, Claims, Busy
<1> QED
  BY <1>1, <1>2, <1>3, <1>4, <1>5, <1>6

\* It removes what is at the path: its own file, if it is alone.
LEMMA ClosePathStep ==
  ASSUME LInv, NEW d \in Daemons, ClosePath(d)
  PROVE  LInv'
<1> USE DEF LInv, PathInv, CarefulInv, ClosePath, DaemonGoes, callVars, history
<1>1. TypeOK'
  BY DEF TypeOK
<1>2. NoFileOfExited' /\ (~hasty => ~overlap)'
  BY DEF NoFileOfExited, TypeOK
<1>3. AloneInv'
  BY ZenonT(40) DEF AloneInv, TypeOK, Alive, Claims
<1>4. OwnerInv'
  BY DEF OwnerInv, AloneInv, TypeOK, Alive, Claims
<1>5. BusyInv'
  BY DEF BusyInv, TypeOK, Busy
<1>6. ServedInv'
  BY DEF ServedInv, BusyInv, OwnerInv, TypeOK, Alive, Claims, Busy
<1> QED
  BY <1>1, <1>2, <1>3, <1>4, <1>5, <1>6

\* A daemon dies and leaves its file.
LEMMA CrashStep ==
  ASSUME LInv, NEW d \in Daemons, Crash(d)
  PROVE  LInv'
<1> USE DEF LInv, PathInv, CarefulInv, Crash, DaemonGoes, callVars, history
<1>1. TypeOK'
  BY DEF TypeOK
<1>2. NoFileOfExited' /\ (~hasty => ~overlap)'
  BY DEF NoFileOfExited, TypeOK
<1>3. AloneInv'
  <2>1. \A e \in Daemons : Claims(e)' => Claims(e)
    BY DEF Alive, Claims, TypeOK
  <2> QED
    BY <2>1 DEF AloneInv
<1>4. OwnerInv'
  BY DEF OwnerInv, AloneInv, TypeOK, Alive, Claims
<1>5. BusyInv'
  BY DEF BusyInv, TypeOK, Busy
<1>6. ServedInv'
  BY ZenonT(40) DEF ServedInv, BusyInv, OwnerInv, TypeOK, Alive, Claims, Busy
<1> QED
  BY <1>1, <1>2, <1>3, <1>4, <1>5, <1>6

\* A daemon answers a call, and ends its loop if that call stops it.
LEMMA AnswerStep ==
  ASSUME LInv, NEW d \in Daemons, NEW c \in Calls, Answer(d, c)
  PROVE  LInv'
<1> USE DEF LInv, PathInv, CarefulInv, Answer, Listening, history
<1>1. TypeOK'
  BY DEF TypeOK
<1>2. NoFileOfExited' /\ (~hasty => ~overlap)'
  BY DEF NoFileOfExited, TypeOK
<1>3. AloneInv'
  BY ZenonT(40) DEF AloneInv, TypeOK, Alive, Claims
<1>4. OwnerInv'
  BY DEF OwnerInv, AloneInv, TypeOK, Alive, Claims
<1>5. BusyInv'
  BY DEF BusyInv, TypeOK, Busy
<1>6. ServedInv'
  BY ZenonT(40) DEF ServedInv, BusyInv, OwnerInv, TypeOK, Alive, Claims, Busy
<1> QED
  BY <1>1, <1>2, <1>3, <1>4, <1>5, <1>6

\* Every step of the system keeps the invariant.
LEMMA NextLInv == LInv /\ [Next]_vars => LInv'
<1> SUFFICES ASSUME LInv, [Next]_vars PROVE LInv'
  OBVIOUS
<1>1. ASSUME NEW c \in Calls, Begin(c) \/ CallStep(c) \/ StandaloneEnds(c) PROVE LInv'
  BY <1>1, BeginStep, InstallStep, UninstallStep, ControllerStartStep, DetachStep,
     ConnectStep, ConnectFailsStep, ReadAnswerStep, ReadEndStep, SpawnStep, StatusStep,
     StandaloneEndsStep DEF CallStep
<1>2. ASSUME NEW d \in Daemons, Proceeds(d) \/ SetPathFails(d) \/ Crash(d)
      PROVE  LInv'
  BY <1>2, SetPathFailsStep, UnlinkStep, BindStep, ListenStep, CloseStep, ClosePathStep, CrashStep DEF Proceeds
<1>3. ASSUME NEW d \in Daemons, Serves(d) PROVE LInv'
  BY <1>3, AnswerStep DEF Serves
<1>4. CASE UNCHANGED vars
  <2> USE <1>4 DEF vars, callVars, history, LInv
  <2>1. TypeOK'
    BY DEF TypeOK
  <2>2. PathInv'
    BY DEF PathInv, NoFileOfExited, AloneInv, OwnerInv, Alive, Claims
  <2>3. CarefulInv'
    BY DEF CarefulInv, BusyInv, ServedInv, Alive, Claims, Busy
  <2> QED
    BY <2>1, <2>2, <2>3
<1>5. CASE Idle
  BY <1>4, <1>5 DEF Idle
<1> QED
  BY <1>1, <1>2, <1>3, <1>4, <1>5 DEF Next

\* The invariant holds in every behaviour, for any calls and daemons.
THEOREM LaunchInvariance == Spec => []LInv
BY InitLInv, NextLInv, PTL DEF Spec

\* Type correctness of calls, daemons and connections (qtservice.cpp:778-893).
THEOREM LaunchTypeCorrect == Spec => []TypeOK
<1>1. LInv => TypeOK
  BY DEF LInv
<1> QED
  BY <1>1, LaunchInvariance, PTL

\* A daemon that has its socket loses the path only to another one that claimed it at the
\* same time, and a daemon that ended in order leaves no file (qtunixserversocket.cpp:64-92).
THEOREM DaemonOwnsPath == Spec => []PathOwned
<1>1. LInv => PathOwned
  BY DEF LInv, PathInv, OwnerInv, PathOwned, OrphanNeedsOverlap
<1> QED
  BY <1>1, LaunchInvariance, PTL

\* Calls that wait for the effects of those before them never start a second daemon
\* beside one that claims the path (qtservice_unix.cpp:407-417).
THEOREM CarefulStartsOne == Spec => []OneDaemon
<1>1. ASSUME LInv PROVE OneDaemon
  <2> SUFFICES ASSUME ~hasty PROVE Cardinality({d \in Daemons : Claims(d)}) <= 1
    BY DEF OneDaemon
  <2> DEFINE Living == {d \in Daemons : Claims(d)}
  <2>1. \A d, e \in Living : d = e
    BY <1>1 DEF LInv, CarefulInv, PathInv, AloneInv
  <2>2. CASE Living = {}
    BY <2>2, FS_EmptySet
  <2>3. CASE Living # {}
    <3>1. PICK d \in Living : TRUE
      BY <2>3
    <3>2. Living = {d}
      BY <2>1, <3>1
    <3>3. Cardinality({d}) = 1
      BY FS_Singleton
    <3> QED
      BY <3>2, <3>3
  <2> QED
    BY <2>2, <2>3
<1> QED
  BY <1>1, LaunchInvariance, PTL

\* A careful call is told that no service is running only when none serves
\* (qtservice_unix.cpp:259-265).
THEOREM CarefulIsTold == Spec => CarefulIsReported
<1>1. LInv /\ [Next]_vars =>
        [\A c \in Calls :
           ret[c] # ret'[c] /\ ret'[c] = "not running" /\ ~hasty =>
             \A d \in Daemons : dpc[d] # "serve"]_vars
  <2> SUFFICES ASSUME LInv, Next, NEW c \in Calls, ret[c] # ret'[c],
                      ret'[c] = "not running", ~hasty, NEW d \in Daemons, dpc[d] = "serve"
               PROVE  FALSE
    OBVIOUS
  <2>1. PICK b \in Calls : Status(b)
    BY DEF Next, Begin, CallStep, Install, Uninstall, ControllerStart, Detach, Connect,
       ConnectFails, ReadAnswer, ReadEnd, HangUp, Spawn, SetPathFails, StandaloneEnds, Proceeds, Serves, Crash, Unlink,
       Bind, Listen, Answer, Close, ClosePath, DaemonGoes, callVars, Idle, vars
  <2>2. ~Reachable
    BY <2>1 DEF Status, LInv, TypeOK
  <2>3. path = d /\ path # NoDaemon
    BY LaunchAssumption DEF LInv, CarefulInv, PathInv, OwnerInv
  <2> QED
    BY <2>2, <2>3 DEF Reachable, Listening
<1> QED
  BY <1>1, LaunchInvariance, PTL DEF Spec, CarefulIsReported
=============================================================================
