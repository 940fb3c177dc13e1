---------------------------- MODULE MCHttpClient ----------------------------
(***************************************************************************)
(* Values of the constants of HttpClient for TLC.                          *)
(***************************************************************************)
EXTENDS HttpClient

X == Byte("x")
Y == Byte("y")

\* The request of getVendor: a MAC address in the path, no port, no body.
VendorUrl ==
  [scheme |-> <<"http">>, host |-> <<"h">>, port |-> Absent,
   path |-> <<"/", "aa", ":", "bb">>, query |-> Absent, fragment |-> Absent]

OneUrl == {VendorUrl}
NoForm == {<<>>}

\* URLs with each part present or absent, and delimiters where they mean nothing.
SomeUrls ==
  {u \in [scheme : {Absent, <<"http">>, <<"https">>},
           host : {<<"h">>},
           port : {Absent, <<"8080">>},
           path : {Absent, <<"/">>, <<"/", "p">>, <<"/", "aa", ":", "bb">>,
                   <<"/", "p", ":", "/", "/", "q">>, <<"/", "p", "/", "q">>},
           query : {Absent, <<"x">>, <<"x", "/", "?">>},
           fragment : {Absent, <<"f">>, <<"/", "f", ":", "f">>, <<"f", ":", "/", "/">>}] :
     u.query # Absent => u.fragment \in {Absent, <<"f">>}}
Texts == {<<"plain">>, <<"reserved", "plain">>, <<"lead2", "continuation", "plain">>,
          <<"plain", "lead3", "continuation", "continuation">>,
          <<"lead4", "continuation", "continuation", "continuation", "reserved">>,
          <<"&", "plain">>, <<"=">>, <<"lead2">>, <<"continuation", "plain">>}
SomeForms == {<<>>} \cup {<<<<<<"plain">>, v>>>> : v \in Texts}
             \cup {<<<<n, <<"plain">>>>, <<<<"reserved">>, v>>>> : n \in {<<"&", "plain">>, <<"lead2">>}, v \in Texts}
FormUrls == {u \in SomeUrls : u.scheme = <<"http">> /\ u.port # Absent /\ u.path = Absent /\ u.query = Absent /\ u.fragment = Absent}

\* Bodies whose bytes look like line ends.
Pieces == {<<X, Y>>, <<CR, LF>>, <<LF>>, <<X, CR>>}
ChunkLists == {<<>>} \cup {<<p>> : p \in Pieces} \cup {<<p, q>> : p, q \in Pieces}

Ok == <<"status", 200>>
Other == <<"header", "other">>
Length(n) == <<"Content-Length", n>>
Chunked == <<"Transfer-Encoding", "chunked">>

Message(status, headers, chunks) ==
  [status |-> status, headers |-> headers, chunks |-> chunks]

ChunkedMessages ==
  {Message(Ok, headers, chunks) :
     headers \in {<<Chunked>>, <<Length(1), Chunked>>, <<Chunked, Other>>}, chunks \in ChunkLists}
LengthMessages ==
  {Message(Ok, headers \o <<Length(Len(FlattenSeq(chunks)))>>, chunks) :
     headers \in {<<>>, <<Other>>}, chunks \in ChunkLists}
CloseMessages == {Message(Ok, <<Other>>, chunks) : chunks \in ChunkLists}
OddMessages ==
  {Message(status, headers, <<<<X>>>>) :
     status \in {BadStatus, NoStatus, <<"status", 204>>},
     headers \in {<<>>, <<<<"text Content-Length", 0>>>>, <<<<"Transfer-Encoding", "gzip">>>>, <<Length(1)>>}}

\* Headers spelled in another way.
SpelledMessages ==
  {Message(Ok, headers, <<<<X>>>>) :
     headers \in {<<<<"content-length", 1>>>>, <<<<"transfer-encoding", "chunked">>>>, <<Length(1), <<"transfer-encoding", "chunked">>>>}}

\* Chunks whose size is a negative int and 0 as an int, and a length beyond Room.
Large(n) == [i \in 1..n |-> X]
LargeMessages ==
  {Message(Ok, <<Chunked>>, <<Large(IntMax + 2)>>), Message(Ok, <<Chunked>>, <<Large(2 * (IntMax + 1))>>),
   Message(Ok, <<Length(Room + 1), Chunked>>, <<<<X>>>>), Message(Ok, <<Length(Room + 1)>>, <<Large(Room + 1)>>)}

AllMessages ==
  ChunkedMessages \cup LengthMessages \cup CloseMessages \cup OddMessages
  \cup SpelledMessages \cup LargeMessages
OneMessage == {Message(Ok, <<Length(1)>>, <<<<X>>>>)}

\* Each message for one request, each URL and each form with one message.
SomeExchanges ==
  [url : OneUrl, form : NoForm, msg : AllMessages]
  \cup [url : SomeUrls, form : NoForm, msg : OneMessage]
  \cup [url : FormUrls, form : SomeForms, msg : OneMessage]
=============================================================================
