-------------------------- MODULE PacketDispatch --------------------------
(***************************************************************************)
(* What Sniffer::MonitorPcap does with the packets of its capture handle     *)
(* (sniffer.cpp): IP packets to or from port 502 go to the Modbus decoder,   *)
(* and what it emits is logged.  pcap_next_ex() returns 0 when no packet is  *)
(* there, which is not rejected: packetHeader is then the header of the      *)
(* packet before, and packet a pointer nobody has set.  When the thread      *)
(* takes packets, and until when, is the concern of OtListener.              *)
(*                                                                           *)
(* A packet carries a part of a stream of Modbus frames, as a TCP segment     *)
(* does, and the padding of a short Ethernet frame.                          *)
(***************************************************************************)
EXTENDS ModbusDecoder, SequencesExt, FiniteSetsExt

CONSTANTS
  Captures,   \* what may be captured: sequences of packets, each
              \* [type, sizeIp, sizeTcp, srcPort, dstPort, frames, from, to, padded]
  MaxIdle,    \* passes without a packet
  SnapLen,    \* ETHER_MAX_LEN
  MinLen,     \* ETHER_MIN_LEN without the checksum
  Stray       \* values of bytes beyond what was captured

PORT_MBTCP == 502
EtherHeader == 14
Byte == 0..255
Words == 0..65535

VARIABLES
  coming,   \* the packets still to be captured
  taken,    \* the packets captured so far
  idle,     \* passes without a packet so far
  reports   \* what was logged: [packet, type, modbus]

vars == <<coming, taken, idle, reports>>

-----------------------------------------------------------------------------
(* The frames of the stream and the packets they travel in.                  *)

\* A frame is [id, kind, address, values, pdu].
Adu(frame) ==
  <<frame.id \div 256, frame.id % 256, 0, 0,
    (Len(frame.pdu) + 1) \div 256, (Len(frame.pdu) + 1) % 256, 1>> \o frame.pdu
Stream(frames) == FlattenSeq([i \in DOMAIN frames |-> Adu(frames[i])])

Headers(p) == EtherHeader + p.sizeIp + p.sizeTcp
Segment(p) == SubSeq(Stream(p.frames), p.from, p.to)
Padding(p) ==
  IF p.padded THEN Max({0, MinLen - Headers(p) - Len(Segment(p))}) ELSE 0

\* header->len and header->caplen.
PacketLen(p) == Headers(p) + Len(Segment(p)) + Padding(p)
CapLen(p) == Min({PacketLen(p), SnapLen})

\* What the protocol says of a frame: a query has a PDU of five bytes, an answer and a
\* write have their registers behind a count, an exception has its code.
HasRegisters(f, first) ==
  /\ Len(f.pdu) = first - 1 + 2 * Len(f.values)
  /\ f.pdu[first - 1] = 2 * Len(f.values)
  /\ \A k \in DOMAIN f.values :
       f.values[k] = Signed(Word(f.pdu[first + 2 * (k - 1)], f.pdu[first + 2 * (k - 1) + 1]))
KindFits(f) ==
  \/ f.kind = "query" /\ f.pdu[1] \in {3, 4} /\ Len(f.pdu) = 5
  \/ f.kind = "answer" /\ f.pdu[1] \in {3, 4} /\ f.values # <<>> /\ HasRegisters(f, 3)
  \/ /\ f.kind = "write" /\ f.pdu[1] = 16 /\ HasRegisters(f, 7)
     /\ f.address = Word(f.pdu[2], f.pdu[3])
  \/ /\ f.kind = "other" /\ f.pdu[1] \notin {3, 4}
     /\ f.pdu[1] = 16 => Len(f.pdu) = 5
     /\ f.pdu[1] >= 128 => Len(f.pdu) = 2
IsFrame(f) ==
  /\ f.id \in Words
  /\ f.pdu \in Seq(Byte) /\ f.pdu # <<>> /\ Len(f.pdu) + 1 \in Words
  /\ f.values \in Seq(Int)
  /\ KindFits(f)

IsPacket(p) ==
  /\ p.sizeIp \in Nat /\ p.sizeIp >= 20
  /\ p.sizeTcp \in Nat /\ p.sizeTcp >= 20
  /\ p.frames \in Seq(Range(p.frames)) /\ \A f \in Range(p.frames) : IsFrame(f)
  /\ p.from \in Nat \ {0} /\ p.to \in 0..Len(Stream(p.frames))
  /\ p.padded \in BOOLEAN

ASSUME DispatchAssumption ==
  /\ \A c \in Captures : c \in Seq(Range(c)) /\ \A p \in Range(c) : IsPacket(p)
  /\ MaxIdle \in Nat
  /\ MinLen \in Nat /\ MinLen <= 60
  /\ SnapLen \in Nat /\ SnapLen >= 60
  /\ Stray # {} /\ Stray \subseteq Byte

-----------------------------------------------------------------------------
(* The dissection of one packet.                                             *)

\* The copy of the payload: header->len counts the padding, and what lies beyond
\* caplen was never captured.
PayloadLen(p) == PacketLen(p) - Headers(p)
Payload(p, stray) ==
  LET onWire == Segment(p) \o [i \in 1..Padding(p) |-> 0]
  IN [i \in 1..PayloadLen(p) |-> IF Headers(p) + i <= CapLen(p) THEN onWire[i] ELSE stray]

PacketType(p) ==
  CASE p.srcPort = PORT_MBTCP /\ p.dstPort # PORT_MBTCP -> "Modbus Response Packet"
    [] p.srcPort # PORT_MBTCP /\ p.dstPort = PORT_MBTCP -> "Modbus Query Packet"
    [] OTHER -> ""

\* MonitorPcap and processIpPacket: is the packet one that is reported?  An ARP
\* packet is taken apart and dropped.
IsModbus(p) ==
  /\ CapLen(p) >= EtherHeader
  /\ p.type = "ip"
  /\ p.sizeIp >= 20
  /\ p.sizeTcp >= 20
  /\ PORT_MBTCP \in {p.srcPort, p.dstPort}
  /\ PayloadLen(p) > 0

\* The packet at place n of taken is processed.
ProcessPacket(n) ==
  IF IsModbus(taken'[n])
  THEN \E stray \in Stray :
         reports' = Append(reports, [packet |-> n, type |-> PacketType(taken'[n]),
                                     modbus |-> Decode(Payload(taken'[n], stray), stray)])
  ELSE UNCHANGED reports

Init ==
  /\ coming \in Captures
  /\ taken = <<>>
  /\ idle = 0
  /\ reports = <<>>

\* pcap_next_ex() returns a packet.
MonitorPcap ==
  /\ coming # <<>>
  /\ taken' = Append(taken, Head(coming))
  /\ coming' = Tail(coming)
  /\ ProcessPacket(Len(taken'))
  /\ UNCHANGED idle

\* Wrong: the first packet of the capture is still there.
MonitorPcapFirst ==
  /\ idle < MaxIdle
  /\ idle' = idle + 1
  /\ UNCHANGED <<coming, taken>>
  /\ \/ UNCHANGED reports
     \/ /\ taken # <<>>
        /\ ProcessPacket(1)

\* It returns 0.  The header is that of the last packet, or empty; the pointer is
\* mostly the one of the pass before, in the same place of the stack.  That it may be
\* any other, and the process crash, is CaptureCrash of OtListener.  An error of
\* pcap_next_ex() changes nothing either.
MonitorPcapIdle ==
  /\ idle < MaxIdle
  /\ idle' = idle + 1
  /\ UNCHANGED <<coming, taken>>
  /\ \/ UNCHANGED reports
     \/ /\ taken # <<>>
        /\ ProcessPacket(Len(taken))

Stopped == coming = <<>> /\ idle = MaxIdle /\ UNCHANGED vars

Next == MonitorPcap \/ MonitorPcapIdle \/ Stopped

Spec == Init /\ [][Next]_vars

-----------------------------------------------------------------------------
(* Properties.                                                               *)

\* Where frames of a stream end.
Ends(frames) == {Len(Stream(SubSeq(frames, 1, k))) : k \in 0..Len(frames)}

\* The packet was captured in full, has no padding and begins with a frame.
Clean(p) == p.from = 1 /\ Padding(p) = 0 /\ PacketLen(p) <= SnapLen
Whole(p) == Clean(p) /\ p.to \in Ends(p.frames)
\* The frames of a whole packet.
Carried(p) ==
  SubSeq(p.frames, 1, CHOOSE k \in 0..Len(p.frames) : Len(Stream(SubSeq(p.frames, 1, k))) = p.to)

WholeReports == {r \in Range(reports) : Whole(taken[r.packet])}

\* Whatever the passes without a packet repeat, the reports are those of the Modbus
\* packets in the order of their capture: none is missing, and none is repeated once
\* another one was reported (sniffer.cpp:129-146).
ReportsFollowCapture ==
  /\ \A i, j \in DOMAIN reports : i <= j => reports[i].packet <= reports[j].packet
  /\ {r.packet : r \in Range(reports)} =
       {n \in DOMAIN taken : LET p == taken[n] IN
          /\ p.type = "ip"
          /\ 502 \in {p.srcPort, p.dstPort}
          /\ Len(Segment(p)) + Padding(p) > 0}

\* A segment that begins with a frame is decoded if and only if it ends with one:
\* the frames come out one by one, none is cut in two or joined, and of a segment
\* that ends within a frame the complete ones before it are lost (modbus.cpp:128-163).
WholeFramesOrNothing ==
  \A r \in Range(reports) : LET p == taken[r.packet] IN
    Clean(p) =>
      [i \in DOMAIN r.modbus.data |-> <<r.modbus.data[i].id, r.modbus.data[i].hex>>] =
        IF Whole(p) THEN [i \in DOMAIN Carried(p) |-> <<Carried(p)[i].id, Carried(p)[i].pdu>>]
        ELSE <<>>

\* Whole frames are decoded without undefined behaviour: each register list has the
\* values that were sent, as signed numbers, and every write of two registers or
\* more and every answer of four or more has its list (modbus.cpp:86-115).
RegistersAsSent ==
  \A r \in WholeReports : \A i \in DOMAIN r.modbus.data :
    LET f == Carried(taken[r.packet])[i]
        reply == r.modbus.data[i].reply
    IN /\ reply.kind # "undefined"
       /\ reply.kind = "registers" => [k \in DOMAIN reply.items |-> reply.items[k][2]] = f.values
       /\ f.kind = "write" /\ Len(f.values) >= 2 => reply.kind = "registers"
       /\ f.kind = "answer" /\ Len(f.values) >= 4 => reply.kind = "registers"

\* A written register is labelled with its address.  An answer knows no address: its
\* labels count from zero, or from what an answer of three registers before it in
\* the same segment was mistaken for, never from a query (modbus.cpp:91-97).
LabelsOfSegment ==
  \A r \in WholeReports : \A i \in DOMAIN r.modbus.data :
    LET frames == Carried(taken[r.packet])
        mistaken == {k \in 1..(i - 1) : frames[k].kind = "answer" /\ Len(frames[k].values) = 3}
        reply == r.modbus.data[i].reply
    IN reply.kind = "registers" /\ reply.items # <<>> =>
         reply.items[1][1] =
           CASE frames[i].kind = "write" -> frames[i].address
             [] frames[i].kind = "answer" /\ mistaken = {} -> 0
             [] OTHER -> LET pdu == frames[Max(mistaken)].pdu IN pdu[2] * 256 + pdu[3]

\* The padding of a short packet without data is no frame: at most one empty record
\* comes of it, with the length -1, and no register (sniffer.cpp:189-193).
PaddingIsEmpty ==
  \A r \in Range(reports) : LET p == taken[r.packet] IN
    p.type = "ip" /\ p.to < p.from =>
      /\ Len(r.modbus.data) <= 1
      /\ \A d \in Range(r.modbus.data) : d = [id |-> 0, length |-> -1, hex |-> <<>>, reply |-> NoReply]

\* What is reported of a packet is what it carries (sniffer.cpp:189-218,
\* modbus.cpp:11-163).
DecodedAsSent ==
  /\ WholeFramesOrNothing
  /\ RegistersAsSent
  /\ LabelsOfSegment
  /\ PaddingIsEmpty
=============================================================================
