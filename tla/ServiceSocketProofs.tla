------------------------- MODULE ServiceSocketProofs -------------------------
(***************************************************************************)
(* Proofs about ServiceSocket, for all clients, addresses, flags and         *)
(* requests: its types, whatever the peers write; and that each controller   *)
(* gets its own answer, if the peers write whole lines.                      *)
(***************************************************************************)
EXTENDS ServiceSocket, WellFoundedInduction, SequenceTheorems, TLAPS

\* A set of natural numbers that is not empty has a least element.
LEMMA LeastElement ==
  ASSUME NEW T, T \subseteq Nat, T # {}
  PROVE  \E x \in T : \A y \in T : x <= y
<1>1. PICK x \in T : \A y \in T : ~ (<<y, x>> \in OpToRel(<, Nat))
  BY NatLessThanWellFounded, WFMin
<1>2. \A y \in T : ~ (y < x)
  BY <1>1 DEF OpToRel
<1> QED
  BY <1>2

\* getCommand() finds the first line end, inside the input.
LEMMA LineEndFirst ==
  ASSUME NEW s \in Seq(Tokens), LineEnds(s) # {}
  PROVE  /\ LineEnd(s) \in 1..Len(s)
         /\ s[LineEnd(s)].word = "CRLF"
         /\ \A i \in 1..(LineEnd(s) - 1) : s[i].word # "CRLF"
<1>1. LineEnds(s) \subseteq 1..Len(s)
  BY DEF LineEnds
<1>2. \E i \in LineEnds(s) : \A j \in LineEnds(s) : i <= j
  BY <1>1, LeastElement
<1>3. LineEnd(s) \in LineEnds(s) /\ \A j \in LineEnds(s) : LineEnd(s) <= j
  BY <1>2 DEF LineEnd
<1>4. LineEnd(s) \in 1..Len(s) /\ s[LineEnd(s)].word = "CRLF"
  BY <1>1, <1>3 DEF LineEnds
<1>5. ASSUME NEW i \in 1..(LineEnd(s) - 1), s[i].word = "CRLF" PROVE FALSE
  <2>1. i \in LineEnds(s)
    BY <1>4, <1>5 DEF LineEnds
  <2> QED
    BY <2>1, <1>3, <1>4
<1> QED
  BY <1>4, <1>5

\* The line that is taken and the input that is left are input again.
LEMMA LineType ==
  ASSUME NEW s \in Seq(Tokens)
  PROVE  Line(s) \in Seq(Tokens) /\ Rest(s) \in Seq(Tokens)
<1>1. CASE LineEnds(s) = {}
  BY <1>1 DEF Line, Rest
<1>2. CASE LineEnds(s) # {}
  <2>1. LineEnd(s) \in 1..Len(s)
    BY <1>2, LineEndFirst
  <2>2. SubSeq(s, 1, LineEnd(s) - 1) \in Seq(Tokens)
    BY <2>1, SubSeqProperties
  <2>3. SubSeq(s, LineEnd(s) + 1, Len(s)) \in Seq(Tokens)
    BY <2>1, SubSeqProperties
  <2> QED
    BY <2>2, <2>3, <1>2 DEF Line, Rest
<1> QED
  BY <1>1, <1>2

\* While a slot runs, it runs for a socket that exists.
SlotInv == srv \in {"slot", "called"} => at \in Addrs /\ conn[at] \in Clients

\* A controller that has connected knows its command.
CommandInv == \A c \in Controllers : cpc[c] # "idle" => cmd[c] \in Words

SInv == TypeOK /\ SlotInv /\ CommandInv

\* The initial state.
LEMMA InitSInv == Init => SInv
<1> SUFFICES ASSUME Init PROVE SInv
  OBVIOUS
<1>1. /\ <<>> \in Seq(Clients) /\ Len(<<>>) <= Backlog
      /\ <<>> \in Seq(Tokens)
      /\ <<>> \in Seq(BOOLEAN)
  BY SocketAssumption, EmptySeq
<1>2. TypeOK
  BY <1>1 DEF Init, TypeOK
<1>3. SlotInv /\ CommandInv
  BY DEF Init, SlotInv, CommandInv, Clients
<1> QED
  BY <1>2, <1>3 DEF SInv

\* The steps of run(): nothing is read, nothing is answered.
LEMMA RunStep ==
  ASSUME SInv, SetPath \/ StartService \/ Started \/ LoopEnd \/ Cleanup
  PROVE  SInv'
<1> USE DEF SInv, SetPath, StartService, Started, LoopEnd, Cleanup, At, clientVars, streamVars
<1>1. pending' \in Seq(Clients) /\ Len(pending') <= Backlog
  <2>1. <<>> \in Seq(Clients) /\ Len(<<>>) <= Backlog
    BY SocketAssumption, EmptySeq
  <2> QED
    BY <2>1 DEF TypeOK
<1>2. conn' \in [Addrs -> Clients \cup {NoClient}]
  BY DEF TypeOK
<1>3. TypeOK'
  BY <1>1, <1>2 DEF TypeOK, Operations
<1>4. SlotInv' /\ CommandInv'
  BY DEF SlotInv, CommandInv
<1> QED
  BY <1>3, <1>4

\* A connection leaves the queue for an address, or leaves its address.
LEMMA ConnectionStep ==
  ASSUME SInv, NEW a \in Addrs, Accept(a) \/ SlotClosed(a)
  PROVE  SInv'
<1> USE DEF SInv, At, clientVars, streamVars
<1>1. CASE Accept(a)
  <2> USE <1>1 DEF Accept
  <2>1. /\ pending' \in Seq(Clients)
        /\ Len(pending') <= Backlog
        /\ Head(pending) \in Clients
    BY SocketAssumption, HeadTailProperties DEF TypeOK
  <2>2. TypeOK'
    BY <2>1 DEF TypeOK
  <2>3. SlotInv' /\ CommandInv'
    BY DEF SlotInv, CommandInv
  <2> QED
    BY <2>2, <2>3
<1>2. CASE SlotClosed(a)
  <2> USE <1>2 DEF SlotClosed
  <2>1. TypeOK'
    BY DEF TypeOK
  <2>2. SlotInv' /\ CommandInv'
    BY DEF SlotInv, CommandInv
  <2> QED
    BY <2>1, <2>2
<1> QED
  BY <1>1, <1>2

\* The slot begins for a socket that serves a client.
LEMMA SlotReadyStep ==
  ASSUME SInv, NEW a \in Addrs, SlotReady(a)
  PROVE  SInv'
<1> USE DEF SInv, SlotReady, At, clientVars
<1>1. conn[a] \in Clients /\ wire[conn[a]] \in Seq(Tokens) /\ cache[a] \in Seq(Tokens)
  BY DEF TypeOK
<1>2. cache[a] \o wire[conn[a]] \in Seq(Tokens)
  BY <1>1, ConcatProperties
<1>3. <<>> \in Seq(Tokens)
  BY EmptySeq
<1>4. TypeOK'
  BY <1>2, <1>3 DEF TypeOK
<1>5. SlotInv' /\ CommandInv'
  BY <1>1 DEF SlotInv, CommandInv, TypeOK
<1> QED
  BY <1>4, <1>5

\* The slot takes a line, or ends.
LEMMA SlotStep ==
  ASSUME SInv, CallOperation \/ AnswerCalled \/ AnswerSimple \/ AnswerRefused \/ SlotEnd
  PROVE  SInv'
<1> USE DEF SInv
<1>1. at \in Addrs /\ conn[at] \in Clients /\ cache[at] \in Seq(Tokens)
  BY DEF SlotInv, TypeOK, CallOperation, AnswerCalled, AnswerSimple, AnswerRefused, SlotEnd, At
<1>2. Rest(cache[at]) \in Seq(Tokens) /\ Line(cache[at]) \in Seq(Tokens)
  BY <1>1, LineType
<1>3. \A line \in Seq(Tokens) : IsObeyed(line) => line[1] \in Tokens /\ line[1].from \in Clients
  <2> SUFFICES ASSUME NEW line \in Seq(Tokens), IsObeyed(line)
               PROVE  line[1] \in Tokens /\ line[1].from \in Clients
    OBVIOUS
  <2>1. 1 \in 1..Len(line)
    BY DEF IsObeyed
  <2>2. line[1] \in Tokens
    BY <2>1, ElementOfSeq
  <2> QED
    BY <2>2 DEF Tokens
<1>4. \A v \in BOOLEAN : Append(reply[conn[at]], v) \in Seq(BOOLEAN)
  BY <1>1, AppendProperties DEF TypeOK
<1>5. SlotInv' /\ CommandInv'
  BY DEF SlotInv, CommandInv, CallOperation, AnswerCalled, AnswerSimple, AnswerRefused, SlotEnd,
         At, clientVars
<1>6. CASE CallOperation
  <2>1. OperationOf(Line(cache[at])[1].word) \in Operations
    BY <1>6 DEF CallOperation, OperationOf, Operations, IsObeyed, Obeyed
  <2>2. executed' \in [Clients -> Nat]
    BY <1>2, <1>3, <1>6 DEF CallOperation, Count, TypeOK
  <2> QED
    BY <1>2, <1>3, <1>5, <1>6, <2>1, <2>2
       DEF CallOperation, TypeOK, At, clientVars, streamVars
<1>7. CASE AnswerCalled
  BY <1>4, <1>5, <1>7 DEF AnswerCalled, Answer, TypeOK, At, clientVars
<1>8. CASE AnswerSimple
  <2>1. executed' \in [Clients -> Nat]
    BY <1>2, <1>3, <1>8 DEF AnswerSimple, Count, TypeOK
  <2> QED
    BY <1>2, <1>4, <1>5, <1>8, <2>1 DEF AnswerSimple, Answer, TypeOK, At, clientVars
<1>9. CASE AnswerRefused
  BY <1>2, <1>4, <1>5, <1>9 DEF AnswerRefused, Answer, TypeOK, At, clientVars
<1>10. CASE SlotEnd
  BY <1>2, <1>5, <1>10 DEF SlotEnd, TypeOK, At, clientVars, streamVars
<1> QED
  BY <1>6, <1>7, <1>8, <1>9, <1>10

\* A client connects: the queue grows by one, up to its limit.
LEMMA ConnectsStep ==
  ASSUME SInv, NEW c \in Clients, Connects(c),
         cmd' \in [Clients -> Words \cup {"none"}],
         \A d \in Controllers : IF d = c THEN cmd'[d] \in Words ELSE cmd'[d] = cmd[d]
  PROVE  SInv'
<1> USE DEF SInv, Connects, streamVars
<1>1. Append(pending, c) \in Seq(Clients) /\ Len(Append(pending, c)) = Len(pending) + 1
  BY AppendProperties DEF TypeOK
<1>2. Len(pending) \in Nat
  BY LenProperties DEF TypeOK
<1>3. Len(pending') <= Backlog
  BY <1>1, <1>2, SocketAssumption
<1>4. cpc' \in [Clients -> {"idle", "connected", "sent", "closed"}]
  BY DEF TypeOK
<1>5. TypeOK'
  BY <1>1, <1>3, <1>4 DEF TypeOK
<1>6. SlotInv' /\ CommandInv'
  BY DEF SlotInv, CommandInv, TypeOK, Clients
<1> QED
  BY <1>5, <1>6

\* What a client writes is input: words and line ends with its name on them.
LEMMA WriteStep ==
  ASSUME SInv, NEW c \in Clients, NEW input \in Seq(Tokens),
         cpc[c] = "connected",
         cpc' = [cpc EXCEPT ![c] = "sent"],
         wire' = [wire EXCEPT ![c] = input],
         UNCHANGED <<process, call, serverVars, cmd, reply, ret, executed>>
  PROVE  SInv'
<1> USE DEF SInv, serverVars
<1>1. TypeOK'
  BY DEF TypeOK
<1>2. SlotInv' /\ CommandInv'
  BY DEF SlotInv, CommandInv, TypeOK
<1> QED
  BY <1>1, <1>2

\* A client closes its connection.
LEMMA CloseStep ==
  ASSUME SInv, NEW c \in Clients,
         cpc' = [cpc EXCEPT ![c] = "closed"],
         cmd' \in [Clients -> Words \cup {"none"}],
         \A d \in Controllers : IF d = c THEN cmd'[d] \in Words ELSE cmd'[d] = cmd[d],
         ret' \in [Clients -> {"none", "true", "false"}],
         UNCHANGED <<process, call, serverVars, streamVars, executed>>
  PROVE  SInv'
<1> USE DEF SInv, serverVars, streamVars
<1>1. TypeOK'
  BY ZenonT(40) DEF TypeOK
<1>2. SlotInv' /\ CommandInv'
  BY DEF SlotInv, CommandInv, TypeOK
<1> QED
  BY <1>1, <1>2

\* Every step of a controller.
LEMMA ControllerStep ==
  ASSUME SInv, NEW c \in Controllers,
         (\E w \in Requests : Connect(c, w) \/ ConnectFails(c, w)) \/ Controller(c)
  PROVE  SInv'
<1>1. c \in Clients /\ cmd \in [Clients -> Words \cup {"none"}]
  BY DEF Clients, SInv, TypeOK
<1>2. ASSUME NEW w \in Requests, Connect(c, w) PROVE SInv'
  <2>1. /\ cmd' \in [Clients -> Words \cup {"none"}]
        /\ \A d \in Controllers : IF d = c THEN cmd'[d] \in Words ELSE cmd'[d] = cmd[d]
    BY <1>1, <1>2, SocketAssumption DEF Connect, Clients
  <2> QED
    BY <1>1, <1>2, <2>1, ConnectsStep DEF Connect
<1>3. ASSUME NEW w \in Requests, ConnectFails(c, w) PROVE SInv'
  <2>1. /\ cmd' \in [Clients -> Words \cup {"none"}]
        /\ \A d \in Controllers : IF d = c THEN cmd'[d] \in Words ELSE cmd'[d] = cmd[d]
        /\ ret' \in [Clients -> {"none", "true", "false"}]
    BY <1>1, <1>3, SocketAssumption DEF ConnectFails, Returns, Clients, SInv, TypeOK
  <2> QED
    BY <1>1, <1>3, <2>1, CloseStep DEF ConnectFails, Returns
<1>4. CASE Send(c)
  <2> DEFINE word == [from |-> c, word |-> cmd[c]]
             end == [from |-> c, word |-> "CRLF"]
  <2>1. cmd[c] \in Words
    BY <1>4 DEF Send, SInv, CommandInv
  <2>2. word \in Tokens /\ end \in Tokens
    BY <1>1, <2>1 DEF Tokens
  <2>3. << word, end >> \in Seq(Tokens)
    BY <2>2
  <2> QED
    BY <1>1, <1>4, <2>3, WriteStep DEF Send
<1>5. CASE Read(c) \/ ReadEof(c)
  <2>1. /\ cpc' = [cpc EXCEPT ![c] = "closed"]
        /\ cmd' = cmd
        /\ \E value \in {"true", "false"} : ret' = [ret EXCEPT ![c] = value]
        /\ UNCHANGED <<process, call, serverVars, streamVars, executed>>
    BY <1>5 DEF Read, ReadEof, Returns
  <2>2. ret' \in [Clients -> {"none", "true", "false"}]
    BY <2>1 DEF SInv, TypeOK
  <2>3. cmd[c] \in Words
    BY <1>5 DEF Read, ReadEof, SInv, CommandInv
  <2> QED
    BY <1>1, <2>1, <2>2, <2>3, CloseStep
<1> QED
  BY <1>2, <1>3, <1>4, <1>5 DEF Controller

\* Every step of a peer.
LEMMA PeerStep ==
  ASSUME SInv, NEW p \in Peers,
         PeerConnect(p) \/ (\E line \in PeerWrites : PeerWrite(p, line)) \/ PeerClose(p)
  PROVE  SInv'
<1>1. p \in Clients /\ p \notin Controllers /\ cmd \in [Clients -> Words \cup {"none"}]
  BY SocketAssumption DEF Clients, SInv, TypeOK
<1>2. CASE PeerConnect(p)
  BY <1>1, <1>2, ConnectsStep DEF PeerConnect
<1>3. ASSUME NEW line \in PeerWrites, PeerWrite(p, line) PROVE SInv'
  <2> DEFINE input == [i \in DOMAIN line |-> [from |-> p, word |-> line[i]]]
  <2>1. line \in Seq(Words \cup {"CRLF"})
    BY SocketAssumption
  <2>2. Len(line) \in Nat /\ DOMAIN line = 1..Len(line)
    BY <2>1, LenProperties
  <2>3. \A i \in 1..Len(line) : line[i] \in Words \cup {"CRLF"}
    BY <2>1, ElementOfSeq
  <2>4. input \in [1..Len(line) -> Tokens]
    BY <1>1, <2>2, <2>3 DEF Tokens
  <2>5. input \in Seq(Tokens)
    BY <2>2, <2>4, IsASeq
  <2> QED
    BY <1>1, <1>3, <2>5, WriteStep DEF PeerWrite
<1>4. CASE PeerClose(p)
  <2>1. ret' \in [Clients -> {"none", "true", "false"}]
    BY <1>4 DEF PeerClose, SInv, TypeOK
  <2> QED
    BY <1>1, <1>4, <2>1, CloseStep DEF PeerClose
<1> QED
  BY <1>2, <1>3, <1>4

\* The operations only return, end the process or die.
LEMMA ServiceStep ==
  ASSUME SInv, Service \/ ServiceDies
  PROVE  SInv'
<1>1. /\ UNCHANGED othersThanService
      /\ process' \in {"up", "exited", "failed", "aborted", "crashed"}
      /\ call' \in Operations \cup {"none"}
  BY DEF Service, ServiceReturns, ServiceEnds, ServiceDies, SInv, TypeOK
<1> USE <1>1 DEF othersThanService, serverVars, clientVars, streamVars, SInv
<1>2. TypeOK'
  BY DEF TypeOK
<1>3. SlotInv' /\ CommandInv'
  BY DEF SlotInv, CommandInv
<1> QED
  BY <1>2, <1>3

\* The invariant is inductive.
LEMMA NextSInv == SInv /\ [Next]_vars => SInv'
<1> SUFFICES ASSUME SInv, [Next]_vars PROVE SInv'
  OBVIOUS
<1>1. CASE Server
  BY <1>1, RunStep, ConnectionStep, SlotReadyStep, SlotStep DEF Server
<1>2. CASE Users
  BY <1>2, ControllerStep, PeerStep DEF Users
<1>3. CASE Service \/ ServiceDies
  BY <1>3, ServiceStep
<1>4. CASE UNCHANGED vars
  BY <1>4 DEF vars, serverVars, clientVars, streamVars, SInv, TypeOK, SlotInv, CommandInv
<1> QED
  BY <1>1, <1>2, <1>3, <1>4 DEF Next, Quiescent

\* Every reachable state satisfies the invariant.
THEOREM SocketInvariance == Spec => []SInv
BY InitSInv, NextSInv, PTL DEF Spec

\* Type correctness of the channel, whatever its peers write: the parser takes whole
\* tokens, the queue keeps its limit, and a slot runs for a socket that exists
\* (qtservice_unix.cpp:272-378).
THEOREM SocketTypeCorrect == Spec => []TypeOK
<1>1. SInv => TypeOK
  BY DEF SInv
<1> QED
  BY <1>1, SocketInvariance, PTL

-----------------------------------------------------------------------------
(* The answers.  If a peer leaves a line unfinished, the cache hands it to the next  *)
(* connection at its address, and the theorems below fail.                           *)

\* Each line has a word, and the last line has its end.
WholeLine(line) ==
  \A i \in DOMAIN line :
    /\ line[i] = "CRLF" => i # 1 /\ line[i - 1] # "CRLF"
    /\ i = Len(line) => line[i] = "CRLF"

LinesAreWhole == \A line \in PeerWrites : WholeLine(line)

\* The same of input that has been written.
Whole(s) ==
  \A i \in 1..Len(s) :
    /\ s[i].word = "CRLF" => i # 1 /\ s[i - 1].word # "CRLF"
    /\ i = Len(s) => s[i].word = "CRLF"

WrittenBy(s, c) == \A i \in 1..Len(s) : s[i].from = c

\* On their way to the service there are whole lines of the one who wrote them ...
WireInv == \A c \in Clients : Whole(wire[c]) /\ WrittenBy(wire[c], c)

\* ... and so are there in the cache, for the socket whose slot runs.
CacheInv ==
  \A a \in Addrs :
    /\ Whole(cache[a]) /\ WrittenBy(cache[a], conn[a])
    /\ cache[a] # <<>> => a = at /\ srv \in {"slot", "called"}

-----------------------------------------------------------------------------
(* The life of a controller's command.                                       *)

Command(c) == << [from |-> c, word |-> cmd[c]], [from |-> c, word |-> "CRLF"] >>

Served(c) == srv \in {"slot", "called"} /\ conn[at] = c

Fresh(c) == wire[c] = <<>> /\ reply[c] = <<>> /\ executed[c] = 0 /\ ~Served(c)

Waiting(c) == wire[c] = Command(c) /\ reply[c] = <<>> /\ executed[c] = 0 /\ ~Served(c)

InSlot(c) ==
  /\ wire[c] = <<>> /\ reply[c] = <<>> /\ executed[c] = 0
  /\ srv = "slot" /\ conn[at] = c /\ cache[at] = Command(c)

InCall(c) ==
  /\ wire[c] = <<>> /\ reply[c] = <<>> /\ executed[c] = 1
  /\ srv = "called" /\ conn[at] = c /\ cache[at] = <<>>
  /\ doing = [from |-> c, word |-> cmd[c]] /\ Obeyed(cmd[c])

Answered(c) ==
  /\ wire[c] = <<>> /\ reply[c] = (IF Obeyed(cmd[c]) THEN <<TRUE>> ELSE <<FALSE>>)
  /\ executed[c] = IF Obeyed(cmd[c]) THEN 1 ELSE 0
  /\ Served(c) => srv = "slot" /\ cache[at] = <<>>

\* The answer a controller returns is that of the service, unless it died first.
Life(c) ==
  /\ cpc[c] \in {"idle", "connected"} => Fresh(c) /\ ret[c] = "none"
  /\ cpc[c] = "sent" => ret[c] = "none" /\ (Waiting(c) \/ InSlot(c) \/ InCall(c) \/ Answered(c))
  /\ cpc[c] = "closed" =>
       \/ ret[c] = "false" /\ Fresh(c)
       \/ ret[c] = (IF Obeyed(cmd[c]) THEN "true" ELSE "false") /\ Answered(c)
       \/ ret[c] = "false" /\ Waiting(c) /\ srv = "destroying"
       \/ ret[c] = "false" /\ process # "up" /\ (Waiting(c) \/ InSlot(c) \/ InCall(c))

LifeInv == \A c \in Controllers : Life(c)

\* The service does not forget a connection before its end.
LinkInv ==
  \A c \in Controllers :
    (process = "up" /\ cpc[c] \in {"connected", "sent"} /\ srv # "destroying") =>
      (\E i \in 1..Len(pending) : pending[i] = c) \/ (\E a \in Addrs : conn[a] = c)

AInv == SInv /\ WireInv /\ CacheInv /\ LifeInv /\ LinkInv

-----------------------------------------------------------------------------
(* Lines.                                                                    *)

\* Whole lines have a line end, the first line is not empty, and what follows it are
\* whole lines again, by the same writer.
LEMMA WholeLines ==
  ASSUME NEW s \in Seq(Tokens), Whole(s), s # <<>>
  PROVE  /\ Line(s) # <<>>
         /\ Whole(Rest(s))
         /\ \A c : WrittenBy(s, c) => WrittenBy(Rest(s), c) /\ WrittenBy(Line(s), c)
<1> DEFINE n == Len(s)
           k == LineEnd(s)
<1>1. n \in Nat /\ n > 0 /\ DOMAIN s = 1..n
  BY EmptySeq, LenProperties
<1>2. LineEnds(s) # {}
  <2>1. n \in 1..n
    BY <1>1
  <2>2. s[n].word = "CRLF"
    BY <2>1 DEF Whole
  <2> QED BY <1>1, <2>1, <2>2 DEF LineEnds
<1>3. k \in 1..n /\ s[k].word = "CRLF"
  BY <1>2, LineEndFirst
<1>4. k > 1
  BY <1>3 DEF Whole
<1>5. Line(s) = SubSeq(s, 1, k - 1) /\ Rest(s) = SubSeq(s, k + 1, n)
  BY <1>2 DEF Line, Rest
<1>6. Len(Line(s)) = k - 1 /\ \A i \in 1..(k - 1) : Line(s)[i] = s[i]
  BY <1>1, <1>3, <1>4, <1>5, SubSeqProperties
<1>7. Len(Rest(s)) = n - k /\ \A i \in 1..(n - k) : Rest(s)[i] = s[k + i]
  BY <1>1, <1>3, <1>5, SubSeqProperties
<1>8. Line(s) # <<>>
  BY <1>1, <1>3, <1>4, <1>6, EmptySeq
<1>9. Whole(Rest(s))
  <2> SUFFICES ASSUME NEW i \in 1..(n - k)
               PROVE  /\ Rest(s)[i].word = "CRLF" => i # 1 /\ Rest(s)[i - 1].word # "CRLF"
                      /\ i = n - k => Rest(s)[i].word = "CRLF"
    BY <1>7 DEF Whole
  <2>1. /\ k \in Nat /\ k > 1 /\ i \in Nat /\ i > 0
        /\ k + i \in 1..n /\ k + i # 1
        /\ Rest(s)[i] = s[k + i]
    BY <1>1, <1>3, <1>4, <1>7
  <2>2. /\ s[k + i].word = "CRLF" => s[k + i - 1].word # "CRLF"
        /\ k + i = n => s[k + i].word = "CRLF"
    <3>1. \A j \in 1..n : /\ s[j].word = "CRLF" => s[j - 1].word # "CRLF"
                          /\ j = n => s[j].word = "CRLF"
      BY DEF Whole
    <3> QED BY <2>1, <3>1
  <2>3. i # 1 => Rest(s)[i - 1] = s[k + i - 1]
    <3> SUFFICES ASSUME i # 1
                 PROVE  Rest(s)[i - 1] = s[k + i - 1]
      OBVIOUS
    <3>1. i - 1 \in 1..(n - k) /\ k + (i - 1) = k + i - 1
      BY <1>1, <2>1
    <3> QED BY <1>7, <3>1
  <2>4. i = 1 => s[k + i].word # "CRLF"
    <3>1. i = 1 => k + i - 1 = k
      BY <2>1
    <3> QED BY <1>3, <2>2, <3>1
  <2>5. i = n - k => k + i = n
    BY <1>1, <2>1
  <2> QED BY <2>1, <2>2, <2>3, <2>4, <2>5
<1>10. ASSUME NEW c, WrittenBy(s, c)
       PROVE  WrittenBy(Rest(s), c) /\ WrittenBy(Line(s), c)
  <2>1. \A i \in 1..(n - k) : k + i \in 1..n
    BY <1>1, <1>3
  <2>2. \A i \in 1..(k - 1) : i \in 1..n
    BY <1>1, <1>3
  <2>3. WrittenBy(Rest(s), c)
    BY <1>7, <1>10, <2>1 DEF WrittenBy
  <2>4. WrittenBy(Line(s), c)
    BY <1>6, <1>10, <2>2 DEF WrittenBy
  <2> QED BY <2>3, <2>4
<1> QED BY <1>8, <1>9, <1>10

\* Nothing has no line.
LEMMA NoLine == Line(<<>>) = <<>> /\ Rest(<<>>) = <<>>
<1>1. LineEnds(<<>>) = {}
  BY DEF LineEnds
<1> QED BY <1>1 DEF Line, Rest

\* A controller writes one whole line, and it is one word.
LEMMA CommandLine ==
  ASSUME NEW c \in Clients, cmd[c] \in Words
  PROVE  /\ Command(c) \in Seq(Tokens) /\ Command(c) # <<>>
         /\ Whole(Command(c)) /\ WrittenBy(Command(c), c)
         /\ Line(Command(c)) = << [from |-> c, word |-> cmd[c]] >>
         /\ Rest(Command(c)) = <<>>
<1> DEFINE s == Command(c)
           one == [from |-> c, word |-> cmd[c]]
           two == [from |-> c, word |-> "CRLF"]
<1>1. one \in Tokens /\ two \in Tokens /\ cmd[c] # "CRLF"
  BY DEF Tokens, Words
<1>2. s = <<one, two>> /\ s \in Seq(Tokens) /\ Len(s) = 2 /\ s[1] = one /\ s[2] = two
  BY <1>1 DEF Command
<1>3. Whole(s) /\ WrittenBy(s, c)
  BY <1>1, <1>2 DEF Whole, WrittenBy
<1>4. LineEnds(s) = {2}
  BY <1>1, <1>2 DEF LineEnds
<1>5. LineEnd(s) = 2
  BY <1>4 DEF LineEnd
<1>6. Line(s) = SubSeq(s, 1, 1) /\ Rest(s) = SubSeq(s, 3, 2)
  <2>1. 2 - 1 = 1 /\ 2 + 1 = 3 /\ LineEnds(s) # {}
    BY <1>4
  <2> QED BY <1>2, <1>5, <2>1 DEF Line, Rest
<1>7. SubSeq(s, 3, 2) = <<>>
  BY <1>2
<1>8. SubSeq(s, 1, 1) = <<one>>
  <2>1. SubSeq(s, 1, 1) \in Seq(Tokens) /\ Len(SubSeq(s, 1, 1)) = 1 /\ SubSeq(s, 1, 1)[1] = s[1]
    <3>1. \A i \in 1..1 : s[i] \in Tokens
      BY <1>1, <1>2
    <3> QED BY <3>1, SubSeqProperties
  <2>2. <<one>> \in Seq(Tokens) /\ Len(<<one>>) = 1 /\ <<one>>[1] = one
    BY <1>1
  <2>3. \A i \in 1..1 : SubSeq(s, 1, 1)[i] = <<one>>[i]
    BY <1>2, <2>1, <2>2
  <2> QED BY <2>1, <2>2, <2>3, SeqEqual
<1> QED BY <1>2, <1>3, <1>6, <1>7, <1>8

-----------------------------------------------------------------------------
(* Whole lines on the way and in the cache.                                  *)

\* Nothing is whole, and written by anybody.
LEMMA EmptyWhole == Whole(<<>>) /\ \A c : WrittenBy(<<>>, c)
BY EmptySeq DEF Whole, WrittenBy

\* What a peer writes when its lines are whole.
LEMMA PeerInput ==
  ASSUME LinesAreWhole, NEW p \in Peers, NEW line \in PeerWrites
  PROVE  LET input == [i \in DOMAIN line |-> [from |-> p, word |-> line[i]]]
         IN  Whole(input) /\ WrittenBy(input, p)
<1> DEFINE input == [i \in DOMAIN line |-> [from |-> p, word |-> line[i]]]
<1>1. line \in Seq(Words \cup {"CRLF"}) /\ WholeLine(line)
  BY SocketAssumption DEF LinesAreWhole
<1>2. Len(line) \in Nat /\ DOMAIN line = 1..Len(line)
  BY <1>1, LenProperties
<1>3. \A i \in 1..Len(line) : line[i] \in Words \cup {"CRLF"}
  BY <1>1, ElementOfSeq
<1>4. input \in Seq(Tokens)
  <2>1. p \in Clients
    BY DEF Clients
  <2>2. input \in [1..Len(line) -> Tokens]
    BY <1>2, <1>3, <2>1 DEF Tokens
  <2> QED BY <1>2, <2>2, IsASeq
<1>5. Len(input) = Len(line)
  BY <1>2, <1>4, LenProperties
<1>6. \A i \in 1..Len(line) : input[i] = [from |-> p, word |-> line[i]]
  BY <1>2
<1>7. WrittenBy(input, p)
  BY <1>5, <1>6 DEF WrittenBy
<1>8. Whole(input)
  <2> SUFFICES ASSUME NEW i \in 1..Len(line)
               PROVE  /\ input[i].word = "CRLF" => i # 1 /\ input[i - 1].word # "CRLF"
                      /\ i = Len(line) => input[i].word = "CRLF"
    BY <1>5, ZenonT(40) DEF Whole
  <2>1. /\ line[i] = "CRLF" => i # 1 /\ line[i - 1] # "CRLF"
        /\ i = Len(line) => line[i] = "CRLF"
    BY <1>1, <1>2 DEF WholeLine
  <2>2. i # 1 => i - 1 \in 1..Len(line)
    BY <1>2
  <2> QED BY <1>6, <2>1, <2>2, SMTT(30)
<1> QED BY <1>7, <1>8

\* The clients' writes.
LEMMA WireStep ==
  ASSUME LinesAreWhole, AInv, [Next]_vars
  PROVE  WireInv'
<1> USE DEF AInv, SInv, TypeOK
<1> SUFFICES ASSUME NEW c \in Clients
             PROVE  Whole(wire'[c]) /\ WrittenBy(wire'[c], c)
  BY DEF WireInv, Whole, WrittenBy
<1>0. Whole(wire[c]) /\ WrittenBy(wire[c], c)
  BY DEF WireInv
<1>1. ASSUME NEW a \in Addrs, SlotReady(a)
      PROVE  Whole(wire'[c]) /\ WrittenBy(wire'[c], c)
  BY <1>0, <1>1, EmptyWhole DEF SlotReady
<1>2. ASSUME NEW d \in Controllers, Send(d)
      PROVE  Whole(wire'[c]) /\ WrittenBy(wire'[c], c)
  <2>1. d \in Clients /\ cmd[d] \in Words
    BY <1>2 DEF Send, CommandInv, Clients
  <2>2. wire' = [wire EXCEPT ![d] = Command(d)]
    BY <1>2 DEF Send, Command
  <2>3. Whole(Command(d)) /\ WrittenBy(Command(d), d)
    BY <2>1, CommandLine
  <2> QED BY <1>0, <2>1, <2>2, <2>3
<1>3. ASSUME NEW p \in Peers, NEW line \in PeerWrites, PeerWrite(p, line)
      PROVE  Whole(wire'[c]) /\ WrittenBy(wire'[c], c)
  <2> DEFINE input == [i \in DOMAIN line |-> [from |-> p, word |-> line[i]]]
  <2>1. wire' = [wire EXCEPT ![p] = input] /\ p \in Clients
    BY <1>3 DEF PeerWrite, Clients
  <2>2. Whole(input) /\ WrittenBy(input, p)
    BY PeerInput
  <2> HIDE DEF input
  <2> QED BY <1>0, <2>1, <2>2
<1>4. \/ UNCHANGED wire
      \/ \E a \in Addrs : SlotReady(a)
      \/ \E d \in Controllers : Send(d)
      \/ \E p \in Peers : \E line \in PeerWrites : PeerWrite(p, line)
  BY DEF Next, Server, SetPath, StartService, Started, Accept, SlotClosed, CallOperation, AnswerCalled,
     AnswerSimple, AnswerRefused, SlotEnd, LoopEnd, Cleanup, Users, Connect, Connects, ConnectFails,
     Returns, Controller, Read, ReadEof, PeerConnect, PeerClose, Service, ServiceReturns, ServiceEnds,
     ServiceDies, othersThanService, Quiescent, vars, streamVars
<1> QED BY <1>0, <1>1, <1>2, <1>3, <1>4

\* The cache: a slot begins with it empty, takes whole lines from it and leaves it empty.
LEMMA CacheStep ==
  ASSUME AInv, [Next]_vars
  PROVE  CacheInv'
<1> USE DEF AInv, SInv
<1> SUFFICES ASSUME NEW a \in Addrs
             PROVE  /\ Whole(cache'[a]) /\ WrittenBy(cache'[a], conn'[a])
                    /\ cache'[a] # <<>> => a = at' /\ srv' \in {"slot", "called"}
  BY DEF CacheInv, Whole, WrittenBy
<1> DEFINE Goal == /\ Whole(cache'[a]) /\ WrittenBy(cache'[a], conn'[a])
                   /\ cache'[a] # <<>> => a = at' /\ srv' \in {"slot", "called"}
<1>0. /\ cache[a] \in Seq(Tokens)
      /\ Whole(cache[a]) /\ WrittenBy(cache[a], conn[a])
      /\ cache[a] # <<>> => a = at /\ srv \in {"slot", "called"}
  BY DEF CacheInv, TypeOK
<1>1. ASSUME srv \notin {"slot", "called"}, UNCHANGED cache
      PROVE  Goal
  BY <1>0, <1>1, EmptyWhole
<1>2. ASSUME UNCHANGED <<cache, conn, at, srv>>
      PROVE  Goal
  BY <1>0, <1>2
<1>3. ASSUME NEW b \in Addrs, SlotReady(b)
      PROVE  Goal
  <2>1. srv = "loop" /\ at' = b /\ srv' = "slot" /\ conn' = conn /\ conn[b] \in Clients
    BY <1>3 DEF SlotReady, At, TypeOK
  <2>2. cache[a] = <<>>
    BY <1>0, <2>1
  <2>3. a # b => cache'[a] = <<>>
    BY <1>3, <2>2 DEF SlotReady, TypeOK
  <2>4. a = b => cache'[a] = wire[conn[a]]
    <3>1. a = b => cache'[a] = <<>> \o wire[conn[a]] /\ wire[conn[a]] \in Seq(Tokens)
      BY <1>3, <2>1, <2>2 DEF SlotReady, TypeOK
    <3> QED BY <3>1, ConcatEmptySeq
  <2>5. Whole(wire[conn[b]]) /\ WrittenBy(wire[conn[b]], conn[b])
    BY <2>1 DEF WireInv
  <2> QED BY <2>1, <2>3, <2>4, <2>5, EmptyWhole
<1>4. ASSUME srv = "slot", cache' = [cache EXCEPT ![at] = Rest(@)], UNCHANGED conn,
             srv' = "loop" => Line(cache[at]) = <<>>,
             srv' = "loop" \/ (srv' \in {"slot", "called"} /\ at' = at)
      PROVE  Goal
  <2>1. at \in Addrs /\ cache[at] \in Seq(Tokens)
    BY <1>4 DEF SlotInv, TypeOK
  <2>2. CASE a # at
    <3>1. cache[a] = <<>> /\ cache'[a] = cache[a]
      BY <1>0, <1>4, <2>2 DEF TypeOK
    <3> QED BY <3>1, EmptyWhole
  <2>3. CASE a = at
    <3>1. cache'[a] = Rest(cache[a])
      BY <1>4, <2>1, <2>3 DEF TypeOK
    <3>2. CASE cache[a] = <<>>
      BY <3>1, <3>2, NoLine, EmptyWhole
    <3>3. CASE cache[a] # <<>>
      <4>1. Line(cache[a]) # <<>> /\ Whole(Rest(cache[a])) /\ WrittenBy(Rest(cache[a]), conn[a])
        BY <1>0, <3>3, WholeLines
      <4> QED BY <1>4, <2>3, <3>1, <4>1
    <3> QED BY <3>2, <3>3
  <2> QED BY <2>2, <2>3
<1>5. CASE Server
  <2>1. CASE SetPath \/ StartService \/ Started \/ LoopEnd \/ Cleanup
    BY <1>1, <2>1 DEF SetPath, StartService, Started, LoopEnd, Cleanup, At
  <2>2. CASE \E b \in Addrs : Accept(b) \/ SlotClosed(b)
    BY <1>1, <2>2 DEF Accept, SlotClosed, At
  <2>3. CASE AnswerCalled
    <3>1. /\ srv = "called" /\ srv' = "slot" /\ UNCHANGED <<cache, conn, at>>
      BY <2>3 DEF AnswerCalled, At
    <3> QED BY <1>0, <3>1
  <2>4. CASE CallOperation \/ AnswerSimple \/ AnswerRefused \/ SlotEnd
    <3>1. /\ srv = "slot" /\ cache' = [cache EXCEPT ![at] = Rest(@)] /\ UNCHANGED conn
          /\ srv' = "loop" => Line(cache[at]) = <<>>
          /\ srv' = "loop" \/ (srv' \in {"slot", "called"} /\ at' = at)
      BY <2>4 DEF CallOperation, AnswerSimple, AnswerRefused, SlotEnd, At
    <3> QED BY <1>4, <3>1
  <2> QED BY <1>3, <1>5, <2>1, <2>2, <2>3, <2>4 DEF Server
<1>6. CASE ~Server
  <2>1. UNCHANGED <<cache, conn, at, srv>>
    BY <1>6 DEF Next, Users, Connect, Connects, ConnectFails, Returns, Controller, Send, Read, ReadEof,
       PeerConnect, PeerWrite, PeerClose, Service, ServiceReturns, ServiceEnds, ServiceDies,
       othersThanService, Quiescent, vars, serverVars
  <2> QED BY <1>2, <2>1
<1> QED BY <1>5, <1>6

-----------------------------------------------------------------------------
(* The life of one controller, step by step.                                 *)

\* Its own state, and what it shares with the service.
Own(c) == <<cpc[c], cmd[c], ret[c], wire[c], reply[c], executed[c]>>

\* A step of the service while it does not serve the controller.
LEMMA LifeAway ==
  ASSUME NEW c \in Controllers, Life(c), ~Served(c), ~Served(c)', UNCHANGED Own(c),
         UNCHANGED process, srv # "destroying"
  PROVE  Life(c)'
BY DEF Life, Own, Fresh, Waiting, InSlot, InCall, Answered, Served, Command, Obeyed

\* A step of somebody else.
LEMMA LifeStays ==
  ASSUME NEW c \in Controllers, Life(c), UNCHANGED Own(c),
         UNCHANGED <<srv, conn, cache, at, doing>>, process # "up" => process' # "up"
  PROVE  Life(c)'
BY DEF Life, Own, Fresh, Waiting, InSlot, InCall, Answered, Served, Command, Obeyed

\* While the service lives it serves a controller only from the reading of its command
\* to the answer.
LEMMA ServedLife ==
  ASSUME SInv, NEW c \in Controllers, Life(c), process = "up", Served(c)
  PROVE  /\ c \in Clients /\ c = conn[at] /\ at \in Addrs
         /\ srv = "slot" => \/ InSlot(c) /\ cpc[c] = "sent" /\ ret[c] = "none"
                            \/ Answered(c) /\ cache[at] = <<>> /\ cpc[c] \in {"sent", "closed"}
         /\ srv = "called" => InCall(c) /\ cpc[c] = "sent" /\ ret[c] = "none"
<1>1. c \in Clients /\ c = conn[at] /\ at \in Addrs
  BY DEF SInv, SlotInv, Served, Clients
<1>2. cpc[c] \in {"sent", "closed"}
  BY <1>1 DEF SInv, TypeOK, Life, Fresh
<1> QED
  BY <1>1, <1>2 DEF Life, Fresh, Waiting, InSlot, InCall, Answered, Served

\* The slot takes a line of its own client only.
LEMMA SlotLine ==
  ASSUME SInv, CacheInv, srv = "slot", Line(cache[at]) # <<>>
  PROVE  /\ conn[at] \in Clients
         /\ Line(cache[at]) \in Seq(Tokens)
         /\ IsObeyed(Line(cache[at])) => /\ Line(cache[at])[1] \in Tokens
                                         /\ Line(cache[at])[1].from = conn[at]
<1>1. at \in Addrs /\ conn[at] \in Clients /\ cache[at] \in Seq(Tokens)
  BY DEF SInv, SlotInv, TypeOK
<1>2. Whole(cache[at]) /\ WrittenBy(cache[at], conn[at]) /\ cache[at] # <<>>
  BY <1>1, NoLine DEF CacheInv
<1>3. WrittenBy(Line(cache[at]), conn[at]) /\ Line(cache[at]) \in Seq(Tokens)
  BY <1>1, <1>2, WholeLines, LineType
<1>4. IsObeyed(Line(cache[at])) => 1 \in 1..Len(Line(cache[at]))
  BY DEF IsObeyed
<1>5. IsObeyed(Line(cache[at])) => Line(cache[at])[1] \in Tokens
  BY <1>3, <1>4, ElementOfSeq
<1> QED BY <1>1, <1>3, <1>4, <1>5 DEF WrittenBy

\* A line that the slot takes from a controller is the word of its command, and it is
\* the last one.
LEMMA SlotWord ==
  ASSUME SInv, NEW c \in Controllers, Life(c), process = "up", c = conn[at],
         srv = "slot", Line(cache[at]) # <<>>
  PROVE  /\ InSlot(c) /\ cpc[c] = "sent" /\ ret[c] = "none" /\ cmd[c] \in Words
         /\ Line(cache[at]) = << [from |-> c, word |-> cmd[c]] >> /\ Rest(cache[at]) = <<>>
         /\ IsObeyed(Line(cache[at])) <=> Obeyed(cmd[c])
<1>1. Served(c)
  BY DEF Served
<1>2. InSlot(c) /\ cpc[c] = "sent" /\ ret[c] = "none" /\ c \in Clients
  BY <1>1, ServedLife, NoLine
<1>3. cmd[c] \in Words
  BY <1>2 DEF SInv, CommandInv
<1>4. cache[at] = Command(c)
  BY <1>2 DEF InSlot
<1>5. Line(cache[at]) = << [from |-> c, word |-> cmd[c]] >> /\ Rest(cache[at]) = <<>>
  BY <1>2, <1>3, <1>4, CommandLine
<1>6. Len(Line(cache[at])) = 1 /\ Line(cache[at])[1].word = cmd[c]
  BY <1>5
<1> QED BY <1>2, <1>3, <1>5, <1>6 DEF IsObeyed

\* A step of the slot leaves the other controllers alone.
LEMMA SlotOthers ==
  ASSUME SInv, CacheInv, CallOperation \/ AnswerCalled \/ AnswerSimple \/ AnswerRefused \/ SlotEnd,
         NEW c \in Controllers, Life(c), c # conn[at]
  PROVE  Life(c)'
<1>0. c \in Clients
  BY DEF Clients
<1>1. process' = process /\ process = "up" /\ conn' = conn /\ srv \in {"slot", "called"}
      /\ srv' \in {"loop", "slot", "called"} /\ (srv' \in {"slot", "called"} => at' = at)
  BY DEF CallOperation, AnswerCalled, AnswerSimple, AnswerRefused, SlotEnd, At
<1>2. ~Served(c) /\ ~Served(c)'
  BY <1>1 DEF Served
<1>3. executed'[c] = executed[c]
  <2>1. CASE CallOperation \/ AnswerSimple
    <3>1. srv = "slot" /\ IsObeyed(Line(cache[at]))
      BY <2>1 DEF CallOperation, AnswerSimple, At
    <3>2. Line(cache[at]) # <<>>
      BY <3>1, EmptySeq DEF IsObeyed
    <3>3. Line(cache[at])[1].from = conn[at]
      BY <3>1, <3>2, SlotLine
    <3> QED BY <1>0, <2>1, <3>3 DEF CallOperation, AnswerSimple, Count, SInv, TypeOK
  <2>2. CASE AnswerCalled \/ AnswerRefused \/ SlotEnd
    BY <2>2 DEF AnswerCalled, AnswerRefused, SlotEnd
  <2> QED BY <2>1, <2>2
<1>4. reply'[c] = reply[c]
  <2>1. reply' = reply \/ \E value \in BOOLEAN : Answer(value)
    BY DEF CallOperation, AnswerCalled, AnswerSimple, AnswerRefused, SlotEnd, streamVars
  <2> QED BY <1>0, <2>1 DEF Answer, SInv, TypeOK
<1>5. UNCHANGED <<cpc, cmd, ret, wire>>
  BY DEF CallOperation, AnswerCalled, AnswerSimple, AnswerRefused, SlotEnd, clientVars, streamVars
<1> QED BY <1>1, <1>2, <1>3, <1>4, <1>5, LifeAway DEF Own

\* The slot and the controller it serves.
LEMMA SlotServed ==
  ASSUME SInv, CacheInv, CallOperation \/ AnswerCalled \/ AnswerSimple \/ AnswerRefused \/ SlotEnd,
         NEW c \in Controllers, Life(c), c = conn[at]
  PROVE  Life(c)'
<1> USE DEF SInv, TypeOK
<1>1. process' = process /\ process = "up" /\ conn' = conn /\ UNCHANGED <<cpc, cmd, ret, wire>>
  BY DEF CallOperation, AnswerCalled, AnswerSimple, AnswerRefused, SlotEnd, At, clientVars, streamVars
<1>2. Served(c)
  BY DEF CallOperation, AnswerCalled, AnswerSimple, AnswerRefused, SlotEnd, At, Served
<1>3. c \in Clients /\ at \in Addrs
  BY <1>1, <1>2, ServedLife
<1>4. ASSUME Line(cache[at]) # <<>>, srv = "slot"
      PROVE  /\ InSlot(c) /\ cpc[c] = "sent" /\ ret[c] = "none" /\ cmd[c] \in Words
             /\ Line(cache[at]) = << [from |-> c, word |-> cmd[c]] >> /\ Rest(cache[at]) = <<>>
             /\ IsObeyed(Line(cache[at])) <=> Obeyed(cmd[c])
  BY <1>1, <1>4, SlotWord
<1>5. CASE CallOperation
  <2>1. srv = "slot" /\ IsObeyed(Line(cache[at]))
    BY <1>5 DEF CallOperation, At
  <2>2. Line(cache[at]) # <<>>
    BY <2>1, EmptySeq DEF IsObeyed
  <2>3. Line(cache[at])[1].from = c /\ Obeyed(cmd[c])
    BY <1>4, <2>1, <2>2
  <2>4. executed'[c] = 1
    BY <1>3, <1>4, <1>5, <2>1, <2>2, <2>3 DEF CallOperation, Count, InSlot
  <2>5. /\ srv' = "called" /\ at' = at /\ cache'[at] = <<>> /\ UNCHANGED reply
        /\ doing' = [from |-> c, word |-> cmd[c]]
    BY <1>3, <1>4, <1>5, <2>1, <2>2 DEF CallOperation, streamVars
  <2>6. InCall(c)'
    BY <1>1, <1>4, <2>1, <2>2, <2>3, <2>4, <2>5 DEF InCall, InSlot, Obeyed
  <2> QED BY <1>1, <1>4, <2>1, <2>2, <2>6 DEF Life
<1>6. CASE AnswerCalled
  <2>1. srv = "called" /\ srv' = "slot" /\ UNCHANGED <<at, cache, executed>>
    BY <1>6 DEF AnswerCalled, At
  <2>2. InCall(c) /\ cpc[c] = "sent" /\ ret[c] = "none"
    BY <1>1, <1>2, <2>1, ServedLife
  <2>3. reply'[c] = <<TRUE>>
    <3>1. reply'[c] = Append(<<>>, TRUE)
      BY <1>3, <1>6, <2>2 DEF AnswerCalled, Answer, InCall
    <3> QED BY <3>1
  <2>4. Answered(c)'
    BY <1>1, <2>1, <2>2, <2>3 DEF Answered, InCall, Served, Obeyed
  <2> QED BY <1>1, <2>2, <2>4 DEF Life
<1>7. CASE AnswerSimple
  <2>1. srv = "slot" /\ srv' = "slot" /\ IsObeyed(Line(cache[at])) /\ at' = at
    BY <1>7 DEF AnswerSimple, At
  <2>2. Line(cache[at]) # <<>>
    BY <2>1, EmptySeq DEF IsObeyed
  <2>3. Line(cache[at])[1].from = c /\ Obeyed(cmd[c])
    BY <1>4, <2>1, <2>2
  <2>4. executed'[c] = 1
    BY <1>3, <1>4, <1>7, <2>1, <2>2, <2>3 DEF AnswerSimple, Count, InSlot
  <2>5. cache'[at] = <<>>
    BY <1>3, <1>4, <1>7, <2>1, <2>2 DEF AnswerSimple
  <2>6. reply'[c] = <<TRUE>>
    <3>1. reply'[c] = Append(<<>>, TRUE)
      BY <1>3, <1>4, <1>7, <2>1, <2>2 DEF AnswerSimple, Answer, InSlot
    <3> QED BY <3>1
  <2>7. Answered(c)'
    BY <1>1, <1>4, <2>1, <2>2, <2>3, <2>4, <2>5, <2>6 DEF Answered, InSlot, Served, Obeyed
  <2> QED BY <1>1, <1>4, <2>1, <2>2, <2>7 DEF Life
<1>8. CASE AnswerRefused
  <2>1. /\ srv = "slot" /\ srv' = "slot" /\ ~IsObeyed(Line(cache[at])) /\ at' = at
        /\ Line(cache[at]) # <<>> /\ UNCHANGED executed
    BY <1>8 DEF AnswerRefused, At
  <2>2. ~Obeyed(cmd[c])
    BY <1>4, <2>1
  <2>3. cache'[at] = <<>>
    BY <1>3, <1>4, <1>8, <2>1 DEF AnswerRefused
  <2>4. reply'[c] = <<FALSE>>
    <3>1. reply'[c] = Append(<<>>, FALSE)
      BY <1>3, <1>4, <1>8, <2>1 DEF AnswerRefused, Answer, InSlot
    <3> QED BY <3>1
  <2>5. Answered(c)'
    BY <1>1, <1>4, <2>1, <2>2, <2>3, <2>4 DEF Answered, InSlot, Served, Obeyed
  <2> QED BY <1>1, <1>4, <2>1, <2>5 DEF Life
<1>9. CASE SlotEnd
  <2>1. srv = "slot" /\ srv' = "loop" /\ Line(cache[at]) = <<>> /\ UNCHANGED <<executed, reply>>
    BY <1>9 DEF SlotEnd, At, streamVars
  <2>2. ~InSlot(c)
    <3>1. InSlot(c) => cmd[c] \in Words
      BY <1>1, <1>2, <2>1, ServedLife, NoLine, EmptySeq DEF CommandInv, InSlot
    <3>2. InSlot(c) => Line(cache[at]) = << [from |-> c, word |-> cmd[c]] >>
      BY <1>3, <3>1, CommandLine DEF InSlot
    <3> QED BY <2>1, <3>2
  <2>3. Answered(c) /\ cpc[c] \in {"sent", "closed"}
    BY <1>1, <1>2, <2>1, <2>2, ServedLife
  <2>4. Answered(c)' /\ ~Served(c)'
    BY <1>1, <2>1, <2>3 DEF Answered, Served, Obeyed
  <2>5. cpc[c] = "closed" => ret[c] = IF Obeyed(cmd[c]) THEN "true" ELSE "false"
    BY <1>1, <1>2, <2>1, <2>3 DEF Life, Fresh, Waiting, InSlot, InCall
  <2> QED BY <1>1, <2>3, <2>4, <2>5 DEF Life, Obeyed
<1> QED BY <1>5, <1>6, <1>7, <1>8, <1>9

\* The event loop reads a controller's command when its cache is empty.
LEMMA ReadyLife ==
  ASSUME SInv, CacheInv, NEW a \in Addrs, SlotReady(a), NEW c \in Controllers, Life(c)
  PROVE  Life(c)'
<1> USE DEF SInv, TypeOK
<1>1. /\ process = "up" /\ srv = "loop" /\ srv' = "slot" /\ at' = a /\ conn[a] \in Clients
      /\ UNCHANGED <<process, conn, cpc, cmd, ret, reply, executed>>
  BY DEF SlotReady, At, clientVars
<1>2. c \in Clients /\ ~Served(c)
  BY <1>1 DEF Clients, Served
<1>3. CASE conn[a] # c
  <2>1. wire'[c] = wire[c]
    BY <1>2, <1>3 DEF SlotReady
  <2>2. ~Served(c)'
    BY <1>1, <1>3 DEF Served
  <2> QED BY <1>1, <1>2, <2>1, <2>2, LifeAway DEF Own
<1>4. CASE conn[a] = c
  <2>1. wire[c] # <<>> /\ wire'[c] = <<>>
    BY <1>2, <1>4 DEF SlotReady
  <2>2. cpc[c] = "sent" /\ ret[c] = "none" /\ Waiting(c)
    BY <1>1, <1>2, <2>1 DEF Life, Fresh, Waiting, InSlot, InCall, Answered
  <2>3. cache'[a] = <<>> \o wire[c] /\ wire[c] \in Seq(Tokens)
    BY <1>1, <1>2, <1>4 DEF SlotReady, CacheInv
  <2>4. cache'[a] = Command(c)
    BY <2>2, <2>3, ConcatEmptySeq DEF Waiting
  <2>5. InSlot(c)'
    BY <1>1, <1>4, <2>1, <2>2, <2>4 DEF InSlot, Waiting, Command
  <2> QED BY <1>1, <2>2, <2>5 DEF Life
<1> QED BY <1>3, <1>4

\* A controller's own steps.
LEMMA ControllerLife ==
  ASSUME SInv, LinkInv, NEW c \in Controllers, Life(c),
         (\E w \in Requests : Connect(c, w) \/ ConnectFails(c, w)) \/ Controller(c)
  PROVE  Life(c)'
<1> USE DEF SInv, TypeOK
<1>1. c \in Clients
  BY DEF Clients
<1>2. UNCHANGED <<process, srv, conn, cache, at, doing>>
  BY DEF Connect, Connects, ConnectFails, Returns, Controller, Send, Read, ReadEof, serverVars
<1>3. Served(c)' <=> Served(c)
  BY <1>2 DEF Served
<1>4. ASSUME NEW w \in Requests, Connect(c, w)
      PROVE  Life(c)'
  <2>1. cpc[c] = "idle" /\ cpc'[c] = "connected" /\ UNCHANGED <<wire, reply, ret, executed>>
    BY <1>1, <1>4 DEF Connect, Connects, streamVars
  <2> QED BY <1>3, <2>1 DEF Life, Fresh
<1>5. ASSUME NEW w \in Requests, ConnectFails(c, w)
      PROVE  Life(c)'
  <2>1. /\ cpc[c] = "idle" /\ cpc'[c] = "closed" /\ ret'[c] = "false"
        /\ UNCHANGED <<wire, reply, executed>>
    BY <1>1, <1>5 DEF ConnectFails, Returns, streamVars
  <2> QED BY <1>3, <2>1 DEF Life, Fresh
<1>6. CASE Send(c)
  <2>1. /\ cpc[c] = "connected" /\ cpc'[c] = "sent" /\ wire'[c] = Command(c)
        /\ UNCHANGED <<cmd, reply, ret, executed>>
    BY <1>1, <1>6 DEF Send, Command
  <2>2. Waiting(c)'
    BY <1>3, <2>1 DEF Life, Fresh, Waiting, Command
  <2> QED BY <2>1, <2>2 DEF Life
<1>7. CASE Read(c)
  <2>1. /\ cpc[c] = "sent" /\ cpc'[c] = "closed" /\ reply[c] # <<>>
        /\ ret'[c] = IF reply[c] = <<TRUE>> THEN "true" ELSE "false"
        /\ UNCHANGED <<cmd, wire, reply, executed>>
    BY <1>1, <1>7 DEF Read, Returns, streamVars
  <2>2. Answered(c)
    BY <2>1 DEF Life, Waiting, InSlot, InCall
  <2>3. <<FALSE>> # <<TRUE>>
    OBVIOUS
  <2>4. ret'[c] = IF Obeyed(cmd[c]) THEN "true" ELSE "false"
    BY <2>1, <2>2, <2>3 DEF Answered
  <2>5. Answered(c)'
    BY <1>2, <1>3, <2>1, <2>2 DEF Answered, Obeyed
  <2> QED BY <2>1, <2>4, <2>5 DEF Life, Obeyed
<1>8. CASE ReadEof(c)
  <2>1. /\ cpc[c] = "sent" /\ cpc'[c] = "closed" /\ reply[c] = <<>> /\ ~Linked(c)
        /\ ret'[c] = "false" /\ UNCHANGED <<cmd, wire, reply, executed>>
    BY <1>1, <1>8 DEF ReadEof, Returns, streamVars
  <2>2. ~Answered(c)
    BY <2>1 DEF Answered
  <2>3. Waiting(c) \/ InSlot(c) \/ InCall(c)
    BY <2>1, <2>2 DEF Life
  <2>4. (Waiting(c) => Waiting(c)') /\ (InSlot(c) => InSlot(c)') /\ (InCall(c) => InCall(c)')
    BY <1>2, <1>3, <2>1 DEF Waiting, InSlot, InCall, Command, Obeyed
  <2>5. process = "up" => srv = "destroying"
    <3>1. process = "up" => /\ \A i \in 1..Len(pending) : pending[i] # c
                            /\ \A a \in Addrs : conn[a] # c
      <4>1. DOMAIN pending = 1..Len(pending) /\ DOMAIN conn = Addrs
        BY LenProperties
      <4> QED BY <2>1, <4>1 DEF Linked, Range
    <3> QED BY <2>1, <3>1 DEF LinkInv
  <2>6. process = "up" => Waiting(c) /\ srv' = "destroying"
    BY <1>2, <2>3, <2>5 DEF InSlot, InCall
  <2> QED BY <1>2, <2>1, <2>3, <2>4, <2>6 DEF Life
<1> QED BY <1>4, <1>5, <1>6, <1>7, <1>8 DEF Controller

\* Every step keeps the life of each call in order.
LEMMA LifeStep ==
  ASSUME AInv, [Next]_vars
  PROVE  LifeInv'
<1> USE DEF AInv
<1> SUFFICES ASSUME NEW c \in Controllers
             PROVE  Life(c)'
  BY DEF LifeInv
<1>0. Life(c) /\ c \in Clients
  BY DEF LifeInv, Clients
<1>1. CASE SetPath \/ StartService \/ Started \/ LoopEnd \/ Cleanup \/ \E a \in Addrs : Accept(a) \/ SlotClosed(a)
  <2>1. /\ srv \notin {"slot", "called", "destroying"} /\ srv' \notin {"slot", "called"}
        /\ UNCHANGED <<process, cpc, cmd, ret, wire, reply, executed>>
    BY <1>1 DEF SetPath, StartService, Started, LoopEnd, Cleanup, Accept, SlotClosed, At, clientVars, streamVars
  <2> QED BY <1>0, <2>1, LifeAway DEF Own, Served
<1>2. ASSUME NEW a \in Addrs, SlotReady(a)
      PROVE  Life(c)'
  BY <1>0, <1>2, ReadyLife
<1>3. CASE CallOperation \/ AnswerCalled \/ AnswerSimple \/ AnswerRefused \/ SlotEnd
  BY <1>0, <1>3, SlotOthers, SlotServed
<1>4. ASSUME NEW d \in Controllers,
             (\E w \in Requests : Connect(d, w) \/ ConnectFails(d, w)) \/ Controller(d)
      PROVE  Life(c)'
  <2>1. CASE d = c
    BY <1>0, <1>4, <2>1, ControllerLife
  <2>2. CASE d # c
    <3>1. UNCHANGED Own(c)
      BY <1>0, <1>4, <2>2 DEF Connect, Connects, ConnectFails, Returns, Controller, Send, Read, ReadEof, Own,
         streamVars, SInv, TypeOK
    <3>2. UNCHANGED <<process, srv, conn, cache, at, doing>>
      BY <1>4 DEF Connect, Connects, ConnectFails, Returns, Controller, Send, Read, ReadEof, serverVars
    <3> QED BY <1>0, <3>1, <3>2, LifeStays
  <2> QED BY <2>1, <2>2
<1>5. ASSUME NEW p \in Peers,
             PeerConnect(p) \/ (\E line \in PeerWrites : PeerWrite(p, line)) \/ PeerClose(p)
      PROVE  Life(c)'
  <2>1. p # c
    BY SocketAssumption
  <2>2. UNCHANGED Own(c)
    BY <1>0, <1>5, <2>1 DEF PeerConnect, Connects, PeerWrite, PeerClose, Own, streamVars, SInv, TypeOK
  <2>3. UNCHANGED <<process, srv, conn, cache, at, doing>>
    BY <1>5 DEF PeerConnect, Connects, PeerWrite, PeerClose, serverVars
  <2> QED BY <1>0, <2>2, <2>3, LifeStays
<1>6. CASE Service \/ ServiceDies \/ Quiescent \/ UNCHANGED vars
  <2>1. /\ UNCHANGED <<srv, conn, cache, at, doing, cpc, cmd, ret, wire, reply, executed>>
        /\ process # "up" => process' # "up"
    BY <1>6 DEF Service, ServiceReturns, ServiceEnds, ServiceDies, Quiescent, vars, othersThanService,
       serverVars, clientVars, streamVars
  <2> QED BY <1>0, <2>1, LifeStays DEF Own
<1> QED BY <1>1, <1>2, <1>3, <1>4, <1>5, <1>6 DEF Next, Server, Users

\* A connection waits in the queue, then has an address until the client closes it.
LEMMA LinkStep ==
  ASSUME AInv, [Next]_vars
  PROVE  LinkInv'
<1> USE DEF AInv, SInv, TypeOK
<1> DEFINE Queued(c) == \E i \in 1..Len(pending) : pending[i] = c
           Has(c) == \E a \in Addrs : conn[a] = c
<1> SUFFICES ASSUME NEW c \in Controllers,
                    process' = "up", cpc'[c] \in {"connected", "sent"}, srv' # "destroying"
             PROVE  Queued(c)' \/ Has(c)'
  BY DEF LinkInv
<1>0. c \in Clients /\ pending \in Seq(Clients)
  BY DEF Clients
<1>1. ASSUME NEW d \in Clients, Connects(d)
      PROVE  Queued(c)' \/ Has(c)'
  <2>1. /\ pending' = Append(pending, d) /\ UNCHANGED <<process, srv, conn>>
        /\ Len(pending') = Len(pending) + 1 /\ pending'[Len(pending) + 1] = d
        /\ \A i \in 1..Len(pending) : pending'[i] = pending[i]
        /\ Len(pending) \in Nat
    BY <1>0, <1>1, AppendProperties, LenProperties DEF Connects
  <2>2. CASE d = c
    <3>1. Len(pending) + 1 \in 1..Len(pending')
      BY <2>1
    <3> QED BY <2>1, <2>2, <3>1
  <2>3. CASE d # c
    <3>1. cpc'[c] = cpc[c]
      BY <1>0, <1>1, <2>3 DEF Connects
    <3>2. Queued(c) \/ Has(c)
      BY <2>1, <3>1 DEF LinkInv
    <3>3. Queued(c) => Queued(c)'
      BY <2>1, SMTT(30)
    <3> QED BY <2>1, <3>2, <3>3
  <2> QED BY <2>2, <2>3
<1>2. ASSUME NEW a \in Addrs, Accept(a)
      PROVE  Queued(c)' \/ Has(c)'
  <2>1. /\ pending # <<>> /\ conn[a] = NoClient /\ conn' = [conn EXCEPT ![a] = Head(pending)]
        /\ pending' = Tail(pending) /\ UNCHANGED <<process, srv, cpc>>
    BY <1>2 DEF Accept, At, clientVars
  <2>2. Queued(c) \/ Has(c)
    BY <2>1 DEF LinkInv
  <2>3. /\ Len(pending) \in Nat /\ Len(pending) > 0 /\ Head(pending) = pending[1]
        /\ Len(pending') = Len(pending) - 1
        /\ \A i \in 1..(Len(pending) - 1) : pending'[i] = pending[i + 1]
    BY <1>0, <2>1, EmptySeq, LenProperties, HeadTailProperties
  <2>4. Has(c) => Has(c)'
    BY <1>0, <2>1, SocketAssumption
  <2>5. ASSUME NEW i \in 1..Len(pending), pending[i] = c
        PROVE  Queued(c)' \/ Has(c)'
    <3>1. CASE i = 1
      BY <2>1, <2>3, <2>5, <3>1
    <3>2. CASE i # 1
      <4>1. i - 1 \in 1..(Len(pending) - 1) /\ (i - 1) + 1 = i
        BY <2>3, <3>2
      <4>2. pending'[i - 1] = c
        BY <2>3, <2>5, <4>1
      <4> QED BY <2>3, <4>1, <4>2
    <3> QED BY <3>1, <3>2
  <2> QED BY <2>2, <2>4, <2>5
<1>3. ASSUME NEW a \in Addrs, SlotClosed(a)
      PROVE  Queued(c)' \/ Has(c)'
  <2>1. /\ cpc[conn[a]] = "closed" /\ conn' = [conn EXCEPT ![a] = NoClient]
        /\ UNCHANGED <<process, srv, cpc, pending>>
    BY <1>3 DEF SlotClosed, At, clientVars
  <2>2. Queued(c) \/ Has(c)
    BY <2>1 DEF LinkInv
  <2>3. conn[a] # c
    BY <2>1
  <2> QED BY <2>1, <2>2, <2>3
<1>4. ASSUME UNCHANGED <<pending, conn>>, process = "up", srv # "destroying",
             cpc[c] \in {"connected", "sent"}
      PROVE  Queued(c)' \/ Has(c)'
  BY <1>4 DEF LinkInv
<1>5. \/ /\ UNCHANGED <<pending, conn>> /\ process = "up" /\ srv # "destroying"
         /\ cpc[c] \in {"connected", "sent"}
      \/ \E d \in Clients : Connects(d)
      \/ \E a \in Addrs : Accept(a) \/ SlotClosed(a)
  <2>1. CASE Server
    BY <2>1 DEF Server, SetPath, StartService, Started, SlotReady, CallOperation, AnswerCalled,
       AnswerSimple, AnswerRefused, SlotEnd, LoopEnd, Cleanup, At, clientVars
  <2>2. CASE Service \/ ServiceDies \/ Quiescent \/ UNCHANGED vars
    BY <2>2 DEF Service, ServiceReturns, ServiceEnds, ServiceDies, Quiescent, vars, othersThanService,
       serverVars, clientVars
  <2>3. ASSUME NEW d \in Controllers,
               (\E w \in Requests : Connect(d, w) \/ ConnectFails(d, w)) \/ Controller(d)
        PROVE  \/ \E e \in Clients : Connects(e)
               \/ /\ UNCHANGED <<pending, conn>> /\ process = "up" /\ srv # "destroying"
                  /\ cpc[c] \in {"connected", "sent"}
    <3>1. d \in Clients
      BY DEF Clients
    <3>2. CASE \E w \in Requests : Connect(d, w)
      BY <3>1, <3>2 DEF Connect
    <3>3. CASE (\E w \in Requests : ConnectFails(d, w)) \/ Read(d) \/ ReadEof(d)
      BY <1>0, <3>1, <3>3 DEF ConnectFails, Read, ReadEof, Returns, serverVars
    <3>4. CASE Send(d)
      BY <1>0, <3>1, <3>4 DEF Send, serverVars
    <3> QED BY <2>3, <3>2, <3>3, <3>4 DEF Controller
  <2>4. ASSUME NEW p \in Peers,
               PeerConnect(p) \/ (\E line \in PeerWrites : PeerWrite(p, line)) \/ PeerClose(p)
        PROVE  \/ \E e \in Clients : Connects(e)
               \/ /\ UNCHANGED <<pending, conn>> /\ process = "up" /\ srv # "destroying"
                  /\ cpc[c] \in {"connected", "sent"}
    <3>1. p \in Clients
      BY DEF Clients
    <3>2. CASE PeerConnect(p)
      BY <3>1, <3>2 DEF PeerConnect
    <3>3. CASE (\E line \in PeerWrites : PeerWrite(p, line)) \/ PeerClose(p)
      BY <1>0, <3>1, <3>3 DEF PeerWrite, PeerClose, serverVars
    <3> QED BY <2>4, <3>2, <3>3
  <2> QED BY <2>1, <2>2, <2>3, <2>4 DEF Next, Users
<1> QED BY <1>1, <1>2, <1>3, <1>4, <1>5

-----------------------------------------------------------------------------
(* The theorems.                                                             *)

\* The initial state.
LEMMA InitAInv == Init => AInv
<1> SUFFICES ASSUME Init PROVE AInv
  OBVIOUS
<1>1. SInv
  BY InitSInv
<1>2. WireInv
  BY EmptyWhole DEF Init, WireInv
<1>3. CacheInv
  BY EmptyWhole DEF Init, CacheInv
<1>4. LifeInv
  <2> SUFFICES ASSUME NEW c \in Controllers
               PROVE  Life(c)
    BY DEF LifeInv
  <2>1. c \in Clients
    BY DEF Clients
  <2> QED BY <2>1 DEF Init, Life, Fresh, Served
<1>5. LinkInv
  BY DEF Init, LinkInv, Clients
<1> QED BY <1>1, <1>2, <1>3, <1>4, <1>5 DEF AInv

\* The invariant is inductive.
LEMMA NextAInv ==
  ASSUME LinesAreWhole, AInv, [Next]_vars
  PROVE  AInv'
<1>1. SInv'
  BY NextSInv DEF AInv
<1> QED BY <1>1, WireStep, CacheStep, LifeStep, LinkStep DEF AInv

\* Every reachable state satisfies it, if the peers write whole lines.
LEMMA AnswerInvariance ==
  ASSUME LinesAreWhole
  PROVE  Spec => []AInv
<1>1. AInv /\ [Next]_vars => AInv'
  BY NextAInv
<1> QED BY <1>1, InitAInv, PTL DEF Spec

\* If the peers write whole lines, a slot leaves nothing behind in the cache, whichever
\* sockets come and go at its address (qtservice_unix.cpp:325-360).
THEOREM NothingStaysCached ==
  ASSUME LinesAreWhole
  PROVE  Spec => []CacheDrained
<1>1. AInv => CacheDrained
  BY DEF AInv, CacheInv, CacheDrained
<1> QED BY <1>1, AnswerInvariance, PTL

\* If the peers write whole lines, each controller is answered once, and with what its
\* own command deserves (qtservice_unix.cpp:322-378).
THEOREM AnswerIsOwn ==
  ASSUME LinesAreWhole
  PROVE  Spec => []OwnAnswer
<1>1. AInv => OwnAnswer
  <2> SUFFICES ASSUME AInv, NEW c \in Controllers, reply[c] # <<>>
               PROVE  reply[c] = << Obeyed(cmd[c]) >>
    BY DEF OwnAnswer
  <2>1. Life(c) /\ cpc[c] \in {"idle", "connected", "sent", "closed"}
    BY DEF AInv, LifeInv, SInv, TypeOK, Clients
  <2>2. Answered(c)
    BY <2>1 DEF Life, Fresh, Waiting, InSlot, InCall
  <2>3. Obeyed(cmd[c]) \in BOOLEAN
    BY DEF Obeyed
  <2>4. CASE Obeyed(cmd[c])
    <3>1. Obeyed(cmd[c]) = TRUE
      BY <2>3, <2>4
    <3> QED BY <2>2, <2>4, <3>1 DEF Answered
  <2>5. CASE ~Obeyed(cmd[c])
    <3>1. Obeyed(cmd[c]) = FALSE
      BY <2>3, <2>5
    <3> QED BY <2>2, <2>5, <3>1 DEF Answered
  <2> QED BY <2>4, <2>5
<1> QED BY <1>1, AnswerInvariance, PTL

-----------------------------------------------------------------------------
(* The channel implements RemoteCommand.                                     *)

phases == [c \in Controllers |-> Phase(c)]
servings == [c \in Controllers |-> executed[c]]
lives == process = "up"

\* A step that neither asks, nor serves, nor returns, nor ends the process.
LEMMA PromiseStutter ==
  ASSUME \A c \in Controllers : Phase(c)' = Phase(c) /\ executed'[c] = executed[c],
         lives' <=> lives
  PROVE  phases' = phases /\ servings' = servings /\ lives' = lives
BY DEF phases, servings, lives

\* A step that changes the phase of one controller, and nothing else.
LEMMA PromisePhase ==
  ASSUME NEW c \in Controllers, NEW value, Phase(c)' = value,
         \A d \in Controllers : d # c => Phase(d)' = Phase(d),
         UNCHANGED <<executed, process>>
  PROVE  phases' = [phases EXCEPT ![c] = value] /\ servings' = servings /\ lives' = lives
BY DEF phases, servings, lives

\* A client's own step leaves the phase of the others alone.
LEMMA OtherPhases ==
  ASSUME SInv, NEW c \in Clients, NEW place, NEW value,
         cpc' = [cpc EXCEPT ![c] = place],
         ret' = ret \/ ret' = [ret EXCEPT ![c] = value]
  PROVE  \A d \in Controllers : d # c => Phase(d)' = Phase(d)
BY DEF Phase, SInv, TypeOK, Clients

\* The slot carries out the command of a controller only while it waits, once.
LEMMA PromiseServe ==
  ASSUME AInv, CallOperation \/ AnswerSimple
  PROVE  Promise!Next \/ UNCHANGED <<phases, servings, lives>>
<1> USE DEF AInv, SInv, TypeOK
<1>1. /\ srv = "slot" /\ IsObeyed(Line(cache[at])) /\ process = "up"
      /\ UNCHANGED <<process, cpc, ret>> /\ Count(Line(cache[at])[1])
  BY DEF CallOperation, AnswerSimple, At, clientVars
<1>2. Line(cache[at]) # <<>>
  BY <1>1, EmptySeq DEF IsObeyed
<1>3. conn[at] \in Clients /\ Line(cache[at])[1].from = conn[at]
  BY <1>1, <1>2, SlotLine
<1>4. executed' = [executed EXCEPT ![conn[at]] = @ + 1]
  BY <1>1, <1>3 DEF Count
<1>5. \A d \in Controllers : Phase(d)' = Phase(d)
  BY <1>1 DEF Phase
<1>6. ASSUME NEW c \in Controllers, c = conn[at]
      PROVE  Promise!Serve(c)
  <2>1. Life(c) /\ Served(c)
    BY <1>1, <1>6 DEF LifeInv, Served
  <2>2. cpc[c] = "sent" /\ executed[c] = 0
    BY <1>1, <1>2, <1>6, <2>1, ServedLife, NoLine DEF InSlot
  <2>3. Phase(c) = "asked" /\ phases[c] = "asked" /\ servings[c] = 0
    BY <1>6, <2>2 DEF Phase, phases, servings
  <2>4. servings' = [servings EXCEPT ![c] = 1]
    <3>1. executed'[c] = 1 /\ \A d \in Controllers : d # c => executed'[d] = executed[d]
      BY <1>3, <1>4, <1>6, <2>2 DEF Clients
    <3> QED BY <3>1 DEF servings
  <2>5. phases' = phases
    BY <1>5 DEF phases
  <2> QED
    BY <1>1, <2>3, <2>4, <2>5 DEF Promise!Serve, phases, servings
<1>7. CASE conn[at] \notin Controllers
  <2>1. \A d \in Controllers : executed'[d] = executed[d]
    BY <1>3, <1>4, <1>7 DEF Clients
  <2> QED BY <1>1, <1>5, <2>1, PromiseStutter DEF lives
<1> QED BY <1>6, <1>7 DEF Promise!Next

\* The steps of a controller.
LEMMA PromiseController ==
  ASSUME AInv, NEW c \in Controllers,
         (\E w \in Requests : Connect(c, w) \/ ConnectFails(c, w)) \/ Controller(c)
  PROVE  Promise!Next \/ UNCHANGED <<phases, servings, lives>>
<1> USE DEF AInv, SInv, TypeOK
<1>1. c \in Clients /\ Life(c)
  BY DEF Clients, LifeInv
<1>2. UNCHANGED <<process, executed>> /\ phases[c] = Phase(c) /\ servings[c] = executed[c]
  BY DEF Connect, Connects, ConnectFails, Returns, Controller, Send, Read, ReadEof, phases, servings
<1>3. ASSUME NEW w \in Requests, Connect(c, w)
      PROVE  Promise!Ask(c)
  <2>1. cpc[c] = "idle" /\ cpc' = [cpc EXCEPT ![c] = "connected"] /\ ret' = ret
    BY <1>3 DEF Connect, Connects
  <2>2. Phase(c) = "idle" /\ Phase(c)' = "asked"
    BY <1>1, <2>1 DEF Phase
  <2>3. \A d \in Controllers : d # c => Phase(d)' = Phase(d)
    BY <1>1, <2>1, OtherPhases
  <2>4. phases' = [phases EXCEPT ![c] = "asked"] /\ servings' = servings /\ lives' = lives
    BY <1>2, <2>2, <2>3, PromisePhase
  <2> QED BY <1>2, <2>2, <2>4 DEF Promise!Ask, phases, servings, lives
<1>4. ASSUME NEW w \in Requests, ConnectFails(c, w)
      PROVE  Promise!Refuse(c)
  <2>1. /\ cpc[c] = "idle" /\ cpc' = [cpc EXCEPT ![c] = "closed"]
        /\ ret' = [ret EXCEPT ![c] = "false"]
    BY <1>4 DEF ConnectFails, Returns
  <2>2. Phase(c) = "idle" /\ Phase(c)' = "false"
    BY <1>1, <2>1 DEF Phase
  <2>3. \A d \in Controllers : d # c => Phase(d)' = Phase(d)
    BY <1>1, <2>1, OtherPhases
  <2>4. phases' = [phases EXCEPT ![c] = "false"] /\ servings' = servings /\ lives' = lives
    BY <1>2, <2>2, <2>3, PromisePhase
  <2> QED BY <1>2, <2>2, <2>4 DEF Promise!Refuse, phases, servings, lives
<1>5. CASE Send(c)
  <2>1. cpc[c] = "connected" /\ cpc' = [cpc EXCEPT ![c] = "sent"] /\ ret' = ret
    BY <1>5 DEF Send
  <2>2. Phase(c) = "asked" /\ Phase(c)' = "asked"
    BY <1>1, <2>1 DEF Phase
  <2>3. \A d \in Controllers : d # c => Phase(d)' = Phase(d)
    BY <1>1, <2>1, OtherPhases
  <2> QED BY <1>2, <2>2, <2>3, PromiseStutter DEF lives
<1>6. ASSUME NEW value \in {"true", "false"},
             cpc[c] = "sent", cpc' = [cpc EXCEPT ![c] = "closed"], ret' = [ret EXCEPT ![c] = value],
             value = "true" => executed[c] = 1,
             value = "false" => executed[c] = 0 \/ process # "up"
      PROVE  Promise!ReturnTrue(c) \/ Promise!ReturnFalse(c)
  <2>1. Phase(c) = "asked" /\ Phase(c)' = value
    BY <1>1, <1>6 DEF Phase
  <2>2. \A d \in Controllers : d # c => Phase(d)' = Phase(d)
    BY <1>1, <1>6, OtherPhases
  <2>3. phases' = [phases EXCEPT ![c] = value] /\ servings' = servings /\ lives' = lives
    BY <1>2, <2>1, <2>2, PromisePhase
  <2>4. CASE value = "true"
    BY <1>2, <1>6, <2>1, <2>3, <2>4 DEF Promise!ReturnTrue, phases, servings, lives
  <2>5. CASE value = "false"
    BY <1>2, <1>6, <2>1, <2>3, <2>5 DEF Promise!ReturnFalse, phases, servings, lives
  <2> QED BY <2>4, <2>5
<1>7. CASE Read(c)
  <2>1. /\ cpc[c] = "sent" /\ cpc' = [cpc EXCEPT ![c] = "closed"] /\ reply[c] # <<>>
        /\ ret' = [ret EXCEPT ![c] = IF reply[c] = <<TRUE>> THEN "true" ELSE "false"]
    BY <1>7 DEF Read, Returns
  <2>2. Answered(c)
    BY <1>1, <2>1 DEF Life, Waiting, InSlot, InCall
  <2>3. <<FALSE>> # <<TRUE>>
    OBVIOUS
  <2>4. executed[c] = IF reply[c] = <<TRUE>> THEN 1 ELSE 0
    BY <2>2, <2>3 DEF Answered
  <2> QED BY <1>6, <2>1, <2>4 DEF Promise!Next
<1>8. CASE ReadEof(c)
  <2>1. /\ cpc[c] = "sent" /\ cpc' = [cpc EXCEPT ![c] = "closed"] /\ ret' = [ret EXCEPT ![c] = "false"]
        /\ reply[c] = <<>> /\ ~Linked(c)
    BY <1>8 DEF ReadEof, Returns
  <2>2. Waiting(c) \/ InSlot(c) \/ InCall(c)
    BY <1>1, <2>1 DEF Life, Answered
  <2>3. process = "up" => srv = "destroying"
    <3>1. DOMAIN pending = 1..Len(pending) /\ DOMAIN conn = Addrs
      BY LenProperties
    <3>2. process = "up" => /\ \A i \in 1..Len(pending) : pending[i] # c
                            /\ \A a \in Addrs : conn[a] # c
      BY <2>1, <3>1 DEF Linked, Range
    <3> QED BY <2>1, <3>2 DEF LinkInv
  <2>4. executed[c] = 0 \/ process # "up"
    BY <2>2, <2>3 DEF Waiting, InSlot, InCall
  <2> QED BY <1>6, <2>1, <2>4 DEF Promise!Next
<1> QED BY <1>3, <1>4, <1>5, <1>7, <1>8 DEF Controller, Promise!Next

\* Every step of the channel is one of RemoteCommand, or leaves its state alone.
LEMMA PromiseStep ==
  ASSUME AInv, [Next]_vars
  PROVE  Promise!Next \/ UNCHANGED <<phases, servings, lives>>
<1> USE DEF AInv, SInv, TypeOK
<1>1. ASSUME UNCHANGED <<process, cpc, ret, executed>>
      PROVE  UNCHANGED <<phases, servings, lives>>
  BY <1>1 DEF phases, servings, lives, Phase
<1>2. CASE Server
  <2>1. CASE CallOperation \/ AnswerSimple
    BY <2>1, PromiseServe
  <2>2. CASE ~(CallOperation \/ AnswerSimple)
    BY <1>1, <1>2, <2>2 DEF Server, SetPath, StartService, Started, Accept, SlotReady, SlotClosed,
       AnswerCalled, AnswerRefused, SlotEnd, LoopEnd, Cleanup, At, clientVars
  <2> QED BY <2>1, <2>2
<1>3. ASSUME NEW c \in Controllers,
             (\E w \in Requests : Connect(c, w) \/ ConnectFails(c, w)) \/ Controller(c)
      PROVE  Promise!Next \/ UNCHANGED <<phases, servings, lives>>
  BY <1>3, PromiseController
<1>4. ASSUME NEW p \in Peers,
             PeerConnect(p) \/ (\E line \in PeerWrites : PeerWrite(p, line)) \/ PeerClose(p)
      PROVE  UNCHANGED <<phases, servings, lives>>
  <2>1. /\ \E place : cpc' = [cpc EXCEPT ![p] = place]
        /\ UNCHANGED <<process, ret, executed>>
    BY <1>4 DEF PeerConnect, Connects, PeerWrite, PeerClose
  <2>2. p \in Clients /\ p \notin Controllers
    BY SocketAssumption DEF Clients
  <2>3. \A d \in Controllers : Phase(d)' = Phase(d)
    BY <2>1, <2>2 DEF Phase, Clients
  <2> QED BY <2>1, <2>3, PromiseStutter DEF lives
<1>5. CASE Service \/ ServiceDies
  <2>1. UNCHANGED <<cpc, ret, executed>> /\ (process' = process \/ (process = "up" /\ process' # "up"))
    BY <1>5 DEF Service, ServiceReturns, ServiceEnds, ServiceDies, othersThanService, clientVars
  <2>2. CASE process' = process
    BY <1>1, <2>1, <2>2
  <2>3. CASE process = "up" /\ process' # "up"
    BY <2>1, <2>3 DEF Promise!Next, Promise!Die, phases, servings, lives, Phase
  <2> QED BY <2>1, <2>2, <2>3
<1>6. CASE Quiescent \/ UNCHANGED vars
  BY <1>1, <1>6 DEF Quiescent, vars, clientVars
<1> QED BY <1>2, <1>3, <1>4, <1>5, <1>6 DEF Next, Users

\* If the peers write whole lines, the channel implements RemoteCommand: each request is
\* carried out at most once, "true" means that it was, and "false" that it was not unless
\* the service died (qtservice_unix.cpp:94-108, 322-378).
THEOREM PromiseKept ==
  ASSUME LinesAreWhole
  PROVE  Spec => KeepsPromise
<1>1. Init => Promise!Init
  BY DEF Init, Promise!Init, Phase, Clients
<1>2. AInv /\ [Next]_vars => [Promise!Next]_(Promise!vars)
  BY PromiseStep DEF Promise!vars, phases, servings, lives
<1> QED
  BY <1>1, <1>2, AnswerInvariance, PTL DEF Spec, KeepsPromise, Promise!Spec
=============================================================================
