-------------------------- MODULE MCPacketDispatch --------------------------
(***************************************************************************)
(* Values of the constants of PacketDispatch for TLC.                      *)
(***************************************************************************)
EXTENDS PacketDispatch

Bytes(words) == FlattenSeq([i \in DOMAIN words |-> <<words[i] \div 256, words[i] % 256>>])
SignedAll(words) == [i \in DOMAIN words |-> IF words[i] < 32768 THEN words[i] ELSE words[i] - 65536]
Frame(id, kind, address, words, pdu) ==
  [id |-> id, kind |-> kind, address |-> address,
   values |-> SignedAll(words), pdu |-> pdu]

\* The frames of the protocol: queries and answers of both directions.
Query(id, address, count) == Frame(id, "query", address, <<>>, <<3>> \o Bytes(<<address, count>>))
Answer(id, words) == Frame(id, "answer", 0, words, <<3, 2 * Len(words)>> \o Bytes(words))
Write(id, address, words) ==
  Frame(id, "write", address, words,
        <<16>> \o Bytes(<<address, Len(words)>>) \o <<2 * Len(words)>> \o Bytes(words))
Written(id, address, count) == Frame(id, "other", address, <<>>, <<16>> \o Bytes(<<address, count>>))
Exception(id) == Frame(id, "other", 0, <<>>, <<131, 2>>)
Diagnostics(id) == Frame(id, "other", 0, <<>>, <<8>> \o Bytes(<<0, 7, 8, 9>>))
Coils(id) == Frame(id, "other", 0, <<>>, <<15>> \o Bytes(<<1, 12>>) \o <<2, 5, 6>>)

Frames ==
  {Query(300, 7, 4), Answer(1, <<65535>>), Answer(2, <<5, 6, 40000>>),
   Answer(3, <<65535, 32768, 32767, 9>>), Write(4, 260, <<1>>), Write(5, 260, <<2, 65534>>),
   Written(6, 260, 2), Exception(7), Diagnostics(8), Coils(9)}
Streams == {<<f>> : f \in Frames} \cup {<<f, g>> : f, g \in Frames}
           \cup {<<f, Answer(2, <<5, 6, 7>>), g>> : f, g \in {Query(300, 7, 4), Answer(3, <<1, 2, 3, 4>>)}}

Packet(type, sizeIp, sizeTcp, ports, frames, from, to, padded) ==
  [type |-> type, sizeIp |-> sizeIp, sizeTcp |-> sizeTcp, srcPort |-> ports[1],
   dstPort |-> ports[2], frames |-> frames, from |-> from, to |-> to, padded |-> padded]
Toward == <<40000, 502>>
Back == <<502, 40000>>

\* One segment of a stream, cut anywhere at its end, or beginning within a frame.
Segments ==
  UNION {{Packet("ip", 20, 32, Back, s, 1, to, FALSE) : to \in 1..Len(Stream(s))} : s \in Streams}
  \cup UNION {{Packet("ip", 20, 32, Back, <<f>>, from, Len(Stream(<<f>>)), FALSE) :
                 from \in 2..Len(Stream(<<f>>))} : f \in Frames}

\* A long answer exceeds the snapshot length.
Wire ==
  {Packet("ip", 20, 32, Toward, <<Query(300, 7, 4)>>, 1, 12, TRUE),
   Packet("ip", 20, 20, Back, <<Answer(1, <<65535>>)>>, 1, 11, TRUE),
   Packet("ip", 24, 20, Back, <<Answer(3, [k \in 1..55 |-> k]), Exception(7)>>, 1, 128, FALSE),
   Packet("ip", 20, 20, <<502, 502>>, <<Write(4, 260, <<1>>)>>, 1, 15, FALSE),
   Packet("ip", 20, 32, <<80, 40000>>, <<Exception(7)>>, 1, 9, TRUE),
   Packet("arp", 20, 20, Toward, <<>>, 1, 0, TRUE),
   Packet("ip6", 40, 20, Toward, <<Exception(7)>>, 1, 9, FALSE),
   Packet("ip", 20, 20, Toward, <<>>, 1, 0, FALSE)}
  \* Acknowledgements, short ones padded, and the first bytes of a frame.
  \cup {Packet("ip", 20, sizeTcp, Toward, <<Query(300, 7, 4)>>, 1, to, TRUE) :
          sizeTcp \in {20, 24, 32}, to \in {0, 3}}

\* One segment, or up to three packets on the wire.
SomeCaptures == {<<p>> : p \in Segments} \cup [1..3 -> Wire]
=============================================================================
