--------------------------- MODULE ModbusDecoder ---------------------------
(***************************************************************************)
(* The Modbus class (modbus.cpp): takes the ADUs of one TCP segment apart   *)
(* and lists what they hold.  The object is made anew for every segment.    *)
(* A segment and a PDU are sequences of bytes; a byte that is read beyond   *)
(* their end is stray, a parameter: whatever lies behind the memory block.  *)
(* Names of functions and the layout of the text are left out.              *)
(***************************************************************************)
EXTENDS Integers, Sequences

Word(high, low) == high * 256 + low
ByteAt(bytes, i, stray) == IF i \in DOMAIN bytes THEN bytes[i] ELSE stray

\* The cast to qint16.
Signed(word) == IF word < 32768 THEN word ELSE word - 65536

NoReply == [kind |-> "none", function |-> 0, items |-> <<>>]
Undefined == [kind |-> "undefined", function |-> 0, items |-> <<>>]
Reply(kind, function, items) == [kind |-> kind, function |-> function, items |-> items]

\* The registers from place first of the PDU on, each with its label.
Registers(pdu, bytecount, first, label, stray) ==
  [i \in 1..(bytecount \div 2) |->
     LET at == first + 2 * (i - 1)
     IN <<label + i - 1, Signed(Word(ByteAt(pdu, at, stray), ByteAt(pdu, at + 1, stray)))>>]

\* analyzeModbusPacket.  A PDU of eight bytes is taken for a request, whatever it
\* is; with the exception bit, a PDU of five bytes or more reaches the end of the
\* function without a value.
AnalyzeModbusPacket(pdu, lastAddress, stray) ==
  CASE Len(pdu) < 5 -> NoReply
    [] Len(pdu) >= 5 /\ pdu[1] >= 128 -> Undefined
    [] Len(pdu) \in 5..7 /\ pdu[1] < 128 -> NoReply
    [] Len(pdu) >= 8 /\ pdu[1] \in {3, 4} ->
         IF Len(pdu) = 8
         THEN Reply("start", pdu[1], <<<<Word(pdu[2], pdu[3]), Word(pdu[4], pdu[5])>>>>)
         ELSE Reply("registers", pdu[1], Registers(pdu, pdu[2], 3, lastAddress, stray))
    [] Len(pdu) >= 8 /\ pdu[1] = 16 ->
         IF Len(pdu) = 8
         THEN Reply("function", 16, <<>>)
         ELSE Reply("registers", 16, Registers(pdu, pdu[6], 7, Word(pdu[2], pdu[3]), stray))
    [] Len(pdu) >= 8 /\ pdu[1] = 8 ->
         Reply("subfunction", 8, <<<<Word(pdu[2], pdu[3]), Len(pdu)>>>>)
    [] Len(pdu) >= 8 /\ pdu[1] < 128 /\ pdu[1] \notin {3, 4, 8, 16} ->
         Reply("function", pdu[1], <<>>)

\* Wrong: takes an answer of any length for a request.
LastAddressOfAny(pdu, lastAddress) ==
  IF Len(pdu) >= 8 /\ pdu[1] \in {3, 4} THEN Word(pdu[2], pdu[3]) ELSE lastAddress

\* m_lastAddress after the PDU.
LastAddress(pdu, lastAddress) ==
  IF Len(pdu) = 8 /\ pdu[1] \in {3, 4} THEN Word(pdu[2], pdu[3]) ELSE lastAddress

\* The object found no end of an ADU in the segment: nothing is emitted.
Nothing == [emitted |-> FALSE, data |-> <<>>]

\* The length field of the ADU that a packet begins with.
AduLength(packet, stray) == Word(ByteAt(packet, 5, stray), ByteAt(packet, 6, stray))

\* A call of processModbusPacket: packet is what remains of the segment, data and
\* lastAddress are the members of the object.  The result is the call behind it, for
\* the rest; a call whose ADU is cut off, or for which nothing is left, has none.
ProcessModbusPacket(call, stray) ==
  LET packet == call.packet
      length == AduLength(packet, stray)
      pdu == SubSeq(packet, 8, length + 6)
      record == [id |-> Word(packet[1], packet[2]), length |-> length - 1, hex |-> pdu,
                 reply |-> AnalyzeModbusPacket(pdu, call.lastAddress, stray)]
  IN IF packet = <<>> \/ Len(packet) < length + 6 THEN call
     ELSE [packet |-> SubSeq(packet, length + 7, Len(packet)),
           data |-> Append(call.data, record),
           lastAddress |-> LastAddress(pdu, call.lastAddress)]

\* A new object processes the payload of one packet, which is not empty.  No call
\* takes less than a byte off.
Decode(segment, stray) ==
  LET calls[n \in 0..Len(segment)] ==
        IF n = 0 THEN [packet |-> segment, data |-> <<>>, lastAddress |-> 0]
        ELSE ProcessModbusPacket(calls[n - 1], stray)
      last == calls[Len(segment)]
  IN IF last.packet = <<>> THEN [emitted |-> TRUE, data |-> last.data] ELSE Nothing
=============================================================================
