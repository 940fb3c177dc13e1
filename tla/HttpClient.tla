----------------------------- MODULE HttpClient -----------------------------
(***************************************************************************)
(* http::Request (httprequest.h): the constructor takes a URL apart, send() *)
(* writes one request and reads one response on a connection of its own.    *)
(* The response is parsed as it arrives, by loops over responseData that     *)
(* stop where the next byte is missing and go on with the next recv().  Each *)
(* turn of such a loop is an action here; pc holds its place.                *)
(*                                                                           *)
(* A text (a word of a URL, a status line, a header, a chunk size) is one    *)
(* token; the delimiters, CR, LF and the bytes of a body are tokens as well,  *)
(* so that a segment can end between any two of them.                        *)
(***************************************************************************)
EXTENDS Integers, Sequences, SequencesExt, FiniteSetsExt

CONSTANTS
  Exchanges,    \* [url, form, msg]: the parts a URL is put together from, the parameters
                \* of the request, <<name, value>> each, and the response of the server
  BufferSize,   \* sizeof(tempBuffer): 4096
  IntMax,       \* the largest int: 2^31 - 1
  Room          \* the most bytes reserve() grants; it throws for more

CR == <<"CR">>
LF == <<"LF">>
CRLF == <<CR, LF>>
Byte(b) == <<"byte", b>>
Absent == <<>>

VARIABLES
  parts,      \* the URL, by its parts
  form,       \* the parameters of the request
  msg,        \* the response the server gives
  peer,       \* "open", or "closed" after the end of the server's side
  lost,       \* part of the response never arrives
  net,        \* what recv() has not returned yet
  got,        \* history: what the server received
  pc,         \* the place in send()
  target,     \* scheme, domain, port and path of the Request
  unsent,     \* requestData from sendData on
  rd,         \* responseData
  firstLine, parsedHeaders, contentLengthReceived, contentLength, chunkedResponse,
  expectedChunkSize, removeCrlfAfterChunk,
  response,   \* status, headers, body
  thrown      \* why an exception left send()

server == <<parts, form, msg, peer, lost>>
sender == <<target, unsent, got>>
framing == <<contentLengthReceived, contentLength, chunkedResponse>>
chunk == <<expectedChunkSize, removeCrlfAfterChunk>>
vars == <<server, net, pc, sender, rd, firstLine, parsedHeaders, framing, chunk, response, thrown>>

-----------------------------------------------------------------------------
(* What the properties compare with: a URL and a response, put together.     *)

Resource(u) == u.path \o IF u.query = Absent THEN <<>> ELSE <<"?">> \o u.query
RenderUrl(u) ==
  (IF u.scheme = Absent THEN <<>> ELSE u.scheme \o <<":", "/", "/">>)
  \o u.host \o (IF u.port = Absent THEN <<>> ELSE <<":">> \o u.port)
  \o Resource(u) \o (IF u.fragment = Absent THEN <<>> ELSE <<"#">> \o u.fragment)

\* status and headers are the texts of lines; a chunk is a sequence of bytes.
Lines(texts) == FlattenSeq([i \in DOMAIN texts |-> <<texts[i]>> \o CRLF])
Chunks(m) == FlattenSeq([i \in DOMAIN m.chunks |->
  <<<<"size", Len(m.chunks[i])>>>> \o CRLF \o m.chunks[i] \o CRLF])

\* A server may write the names of headers as it likes.
IsChunked(m) ==
  \E h \in Range(m.headers) : h[1] \in {"Transfer-Encoding", "transfer-encoding"} /\ h[2] = "chunked"
Render(m) ==
  Lines(<<m.status>> \o m.headers) \o CRLF \o
  IF IsChunked(m) THEN Chunks(m) \o <<<<"size", 0>>>> \o CRLF \o CRLF
  ELSE FlattenSeq(m.chunks)

\* A status line with no number, and one with no second word.
BadStatus == <<"text status", 0>>
NoStatus == <<"no status", 0>>

\* stoul() throws if the length is no number, reserve() if it is too large, though the
\* response be chunked; ResponseError is thrown for other encodings.
HeaderThrows(h) ==
  \/ h[1] = "text Content-Length"
  \/ h[1] = "Content-Length" /\ h[2] > Room
  \/ h[1] = "Transfer-Encoding" /\ h[2] # "chunked"

\* What send() throws an exception for.
Refused(m) ==
  \/ m.status = BadStatus
  \/ \E h \in Range(m.headers) : HeaderThrows(h)

\* The end of the response shows in the response: by its chunks or its length.
GivesLength(h) == h[1] \in {"Content-Length", "content-length"}
HasLength(m) == \E h \in Range(m.headers) : GivesLength(h)
SelfDelimited(m) == IsChunked(m) \/ HasLength(m)

\* The tokens of a response.
StatusTexts == {BadStatus, NoStatus} \cup {"status"} \X Nat
LengthNames == {"Content-Length", "content-length", "text Content-Length"}
OtherNames == {"Transfer-Encoding", "transfer-encoding", "header"}
HeaderTexts == (LengthNames \X Nat) \cup (OtherNames \X STRING)
Sizes == {"size"} \X Nat
Bytes == {CR, LF} \cup {"byte"} \X STRING
Tokens == StatusTexts \cup HeaderTexts \cup Sizes \cup Bytes

\* A response of a server: no chunk is empty, and a length it gives is that of its body.
Messages ==
  {m \in [status : StatusTexts, headers : Seq(HeaderTexts), chunks : Seq(Seq(Bytes) \ {<<>>})] :
     HasLength(m) /\ ~IsChunked(m) =>
       \A h \in Range(m.headers) :
         GivesLength(h) => h[2] = Len(FlattenSeq(m.chunks))}

\* The code compares the names of headers as they are, and its chunk sizes are int.
\* It is about these responses that the properties speak.
Moderate(m) == Len(Render(m)) <= IntMax
Understood(m) ==
  /\ Moderate(m)
  /\ \A h \in Range(m.headers) : h[1] \notin {"content-length", "transfer-encoding"}

\* The parts of a URL: a word is none of its delimiters.
Words == STRING \ {":", "/", "?", "#"}
Urls ==
  {u \in [scheme : Seq(Words), host : Seq(Words), port : Seq(Words),
          path : Seq(STRING \ {"?", "#"}), query : Seq(STRING \ {"#"}), fragment : Seq(STRING)] :
     u.path # Absent => u.path[1] = "/"}

\* The names and values of the parameters of a request, by the kinds of their bytes.
ByteKinds == {"plain", "&", "=", "reserved", "lead2", "lead3", "lead4", "continuation"}
Forms == Seq(Seq(ByteKinds) \X Seq(ByteKinds))

ASSUME HttpAssumption ==
  /\ BufferSize \in Nat \ {0} /\ IntMax \in Nat /\ Room \in Nat
  /\ \A x \in Exchanges : x.url \in Urls /\ x.form \in Forms /\ x.msg \in Messages

-----------------------------------------------------------------------------
(* The helpers of the code.                                                  *)

\* std::string::find and std::search: the first place of pattern, 0 for none.
Find(s, pattern) ==
  LET at == {i \in DOMAIN s : IsPrefix(pattern, SubSeq(s, i, Len(s)))}
  IN IF at = {} THEN 0 ELSE Min(at)

Before(s, i) == IF i = 0 THEN s ELSE SubSeq(s, 1, i - 1)
From(s, i) == SubSeq(s, i, Len(s))

\* The constructor of Request: the scheme and the fragment are cut off, then the
\* path, then the port.
SchemeEnd(url) == Find(url, <<":", "/", "/">>)
AfterScheme(url) == IF SchemeEnd(url) = 0 THEN url ELSE From(url, SchemeEnd(url) + 3)

Hierarchy(url) == Before(AfterScheme(url), Find(AfterScheme(url), <<"#">>))

ParseUrl(url) ==
  LET slash == Find(Hierarchy(url), <<"/">>)
      authority == Before(Hierarchy(url), slash)
      colon == Find(authority, <<":">>)
  IN [scheme |-> IF SchemeEnd(url) = 0 THEN <<"http">> ELSE Before(url, SchemeEnd(url)),
      domain |-> Before(authority, colon),
      port |-> IF colon = 0 THEN <<"80">> ELSE From(authority, colon + 1),
      path |-> IF slash = 0 THEN <<"/">> ELSE From(Hierarchy(url), slash)]

\* urlEncode: how many bytes go with the byte at hand, 0 if it is left out.
Width(b) ==
  CASE b \in {"plain", "&", "=", "reserved"} -> 1
    [] b = "lead2" -> 2
    [] b = "lead3" -> 3
    [] b = "lead4" -> 4
    [] b = "continuation" -> 0

\* Wrong: "&" and "=" are none of the bytes to encode.
UrlEncodeRaw(text) ==
  LET from[i \in 1..(Len(text) + 1)] ==
        IF i > Len(text) THEN <<>>
        ELSE LET w == Min({Width(text[i]), Len(text) - i + 1}) IN
          IF w = 0 THEN from[i + 1]
          ELSE [j \in 1..w |-> <<IF text[i] \in {"plain", "&", "="} THEN "byte" ELSE "percent", text[i + j - 1]>>]
               \o from[i + w]
  IN from[1]

\* The encoding of a text, a byte or a whole character at a time.
UrlEncode(text) ==
  LET from[i \in 1..(Len(text) + 1)] ==
        IF i > Len(text) THEN <<>>
        ELSE LET w == Min({Width(text[i]), Len(text) - i + 1}) IN
          IF w = 0 THEN from[i + 1]
          ELSE [j \in 1..w |-> <<IF text[i] = "plain" THEN "byte" ELSE "percent", text[i + j - 1]>>]
               \o from[i + w]
  IN from[1]

FormBody(parameters) ==
  FlattenSeq([i \in DOMAIN parameters |->
    (IF i = 1 THEN <<>> ELSE <<Byte("&")>>)
    \o UrlEncode(parameters[i][1]) \o <<Byte("=")>> \o UrlEncode(parameters[i][2])])

RequestData(to, body) ==
  <<<<"GET", to.path>>>> \o CRLF \o <<<<"Host", to.domain>>>> \o CRLF
  \o <<<<"Content-Length", Len(body)>>>> \o CRLF \o CRLF \o body

-----------------------------------------------------------------------------
\* The Request is constructed, and send() is called.
Init ==
  /\ \E x \in Exchanges : parts = x.url /\ form = x.form /\ msg = x.msg
  /\ peer = "open"
  /\ lost = FALSE
  /\ net = Render(msg)
  /\ got = <<>>
  /\ pc = "open"
  /\ target = ParseUrl(RenderUrl(parts))
  /\ unsent = <<>>
  /\ rd = <<>>
  /\ firstLine = TRUE
  /\ parsedHeaders = FALSE
  /\ contentLengthReceived = FALSE
  /\ contentLength = 0
  /\ chunkedResponse = FALSE
  /\ expectedChunkSize = 0
  /\ removeCrlfAfterChunk = FALSE
  /\ response = [status |-> 0, headers |-> <<>>, body |-> <<>>]
  /\ thrown = "nothing"

Ended == pc \in {"returned", "threw"}

\* An exception leaves send(); the Socket's destructor closes the connection.
Throw(why) ==
  /\ pc' = "threw"
  /\ thrown' = why

\* Checks of the scheme, getaddrinfo(), socket() and connect().
Open ==
  /\ pc = "open"
  /\ \/ /\ target.scheme # <<"http">>
        /\ Throw("scheme")
        /\ UNCHANGED unsent
     \/ /\ target.scheme = <<"http">>
        /\ Throw("system")
        /\ UNCHANGED unsent
     \/ /\ target.scheme = <<"http">>
        /\ unsent' = RequestData(target, FormBody(form))
        /\ pc' = "send"
        /\ UNCHANGED thrown
  /\ UNCHANGED <<server, net, target, got, rd, firstLine, parsedHeaders, framing, chunk, response>>

\* One send(), which may take a part only.
Send ==
  /\ pc = "send"
  /\ \E n \in 1..Len(unsent) :
       /\ got' = got \o Before(unsent, n + 1)
       /\ unsent' = From(unsent, n + 1)
  /\ pc' = IF unsent' = <<>> THEN "recv" ELSE "send"
  /\ UNCHANGED <<server, net, target, rd, firstLine, parsedHeaders, framing, chunk, response, thrown>>

\* send() or recv() fails for another reason than a signal.
SocketFails ==
  /\ pc \in {"send", "recv"}
  /\ Throw("system")
  /\ UNCHANGED <<server, net, sender, rd, firstLine, parsedHeaders, framing, chunk, response>>

-----------------------------------------------------------------------------
(* The loop of recv().                                                       *)

Recv ==
  /\ pc = "recv"
  /\ \E n \in 1..Min({Len(net), BufferSize}) :
       /\ rd' = rd \o Before(net, n + 1)
       /\ net' = From(net, n + 1)
  /\ pc' = IF parsedHeaders THEN "body" ELSE "headers"
  /\ UNCHANGED <<server, sender, firstLine, parsedHeaders, framing, chunk, response, thrown>>

\* Wrong: an end before the end of the headers is no end.
DisconnectedLate ==
  /\ pc = "recv"
  /\ peer = "closed"
  /\ net = <<>>
  /\ parsedHeaders
  /\ pc' = "returned"
  /\ UNCHANGED <<server, net, sender, rd, firstLine, parsedHeaders, framing, chunk, response, thrown>>

\* recv() returns 0: what was read so far is returned.
Disconnected ==
  /\ pc = "recv"
  /\ peer = "closed"
  /\ net = <<>>
  /\ pc' = "returned"
  /\ UNCHANGED <<server, net, sender, rd, firstLine, parsedHeaders, framing, chunk, response, thrown>>

\* The next line of responseData; there is one iff its end was found.
LineEnd == Find(rd, CRLF)
Line == Before(rd, LineEnd)
EraseLine == rd' = From(rd, LineEnd + 2)

HeadersIncomplete ==
  /\ pc = "headers"
  /\ LineEnd = 0
  /\ pc' = "recv"
  /\ UNCHANGED <<server, net, sender, rd, firstLine, parsedHeaders, framing, chunk, response, thrown>>

EndOfHeaders ==
  /\ pc = "headers"
  /\ LineEnd = 1
  /\ EraseLine
  /\ parsedHeaders' = TRUE
  /\ pc' = "body"
  /\ UNCHANGED <<server, net, sender, firstLine, framing, chunk, response, thrown>>

\* The second word of the first line; stoi() throws if it is no number.
StatusLine ==
  /\ pc = "headers"
  /\ LineEnd > 1
  /\ firstLine
  /\ EraseLine
  /\ firstLine' = FALSE
  /\ IF Line[1] = BadStatus
     THEN /\ Throw("parser")
          /\ UNCHANGED response
     ELSE /\ response' = [response EXCEPT !.status = IF Line[1] = NoStatus THEN @ ELSE Line[1][2]]
          /\ UNCHANGED <<pc, thrown>>
  /\ UNCHANGED <<server, net, sender, parsedHeaders, framing, chunk>>

\* Wrong: the last header decides whether the response is chunked.
HeaderLastWins ==
  /\ pc = "headers"
  /\ LineEnd > 1
  /\ ~firstLine
  /\ EraseLine
  /\ response' = [response EXCEPT !.headers = Append(@, Line[1])]
  /\ IF HeaderThrows(Line[1])
     THEN Throw("parser") /\ UNCHANGED framing
     ELSE /\ IF Line[1][1] = "Content-Length"
             THEN contentLengthReceived' = TRUE /\ contentLength' = Line[1][2]
             ELSE UNCHANGED <<contentLengthReceived, contentLength>>
          /\ chunkedResponse' = (Line[1][1] = "Transfer-Encoding")
          /\ UNCHANGED <<pc, thrown>>
  /\ UNCHANGED <<server, net, sender, firstLine, parsedHeaders, chunk>>

Header ==
  /\ pc = "headers"
  /\ LineEnd > 1
  /\ ~firstLine
  /\ EraseLine
  /\ response' = [response EXCEPT !.headers = Append(@, Line[1])]
  /\ IF HeaderThrows(Line[1])
     THEN Throw("parser") /\ UNCHANGED framing
     ELSE /\ IF Line[1][1] = "Content-Length"
             THEN contentLengthReceived' = TRUE /\ contentLength' = Line[1][2]
             ELSE UNCHANGED <<contentLengthReceived, contentLength>>
          /\ chunkedResponse' = (chunkedResponse \/ Line[1][1] = "Transfer-Encoding")
          /\ UNCHANGED <<pc, thrown>>
  /\ UNCHANGED <<server, net, sender, firstLine, parsedHeaders, chunk>>

PlainBody ==
  /\ pc = "body"
  /\ ~chunkedResponse
  /\ response' = [response EXCEPT !.body = @ \o rd]
  /\ rd' = <<>>
  /\ pc' = IF contentLengthReceived /\ Len(response'.body) >= contentLength
           THEN "returned" ELSE "recv"
  /\ UNCHANGED <<server, net, sender, firstLine, parsedHeaders, framing, chunk, thrown>>

\* Wrong: takes all that has arrived for data of the chunk.
ChunkDataAll ==
  /\ pc = "body"
  /\ chunkedResponse
  /\ expectedChunkSize > 0
  /\ response' = [response EXCEPT !.body = @ \o rd]
  /\ rd' = <<>>
  /\ expectedChunkSize' = expectedChunkSize - Len(rd)
  /\ removeCrlfAfterChunk' = (removeCrlfAfterChunk \/ expectedChunkSize' = 0)
  /\ pc' = "recv"
  /\ UNCHANGED <<server, net, sender, firstLine, parsedHeaders, framing, thrown>>

\* static_cast<int>(n), of an int with the values from -(IntMax + 1) to IntMax.
AsInt(n) ==
  LET low == n % (2 * (IntMax + 1)) IN IF low > IntMax THEN low - 2 * (IntMax + 1) ELSE low

\* std::min<int>(expectedChunkSize, responseData.size())
ToWrite == Min({AsInt(expectedChunkSize), AsInt(Len(rd))})

\* Undefined: insert() of a range that ends before it begins takes it for one of more
\* than max_size() bytes and throws.
ChunkThrows ==
  /\ pc = "body"
  /\ chunkedResponse
  /\ expectedChunkSize > 0
  /\ ToWrite < 0
  /\ Throw("parser")
  /\ UNCHANGED <<server, net, sender, rd, firstLine, parsedHeaders, framing, chunk, response>>

\* The loop over chunks: data of the chunk at hand; with toWrite = 0 it spins ...
ChunkData ==
  /\ pc = "body"
  /\ chunkedResponse
  /\ expectedChunkSize > 0
  /\ ToWrite >= 0
  /\ response' = [response EXCEPT !.body = @ \o Before(rd, ToWrite + 1)]
  /\ rd' = From(rd, ToWrite + 1)
  /\ expectedChunkSize' = expectedChunkSize - ToWrite
  /\ removeCrlfAfterChunk' = (removeCrlfAfterChunk \/ expectedChunkSize' = 0)
  /\ pc' = IF rd' = <<>> THEN "recv" ELSE "body"
  /\ UNCHANGED <<server, net, sender, firstLine, parsedHeaders, framing, thrown>>

\* ... then the two bytes after it, whatever they are, and the next size.
AfterChunk == IF removeCrlfAfterChunk THEN From(rd, 3) ELSE rd
SizeEnd == Find(AfterChunk, CRLF)

ChunkIncomplete ==
  /\ pc = "body"
  /\ chunkedResponse
  /\ expectedChunkSize = 0
  /\ IF removeCrlfAfterChunk /\ Len(rd) < 2
     THEN UNCHANGED <<rd, removeCrlfAfterChunk>>
     ELSE /\ SizeEnd = 0
          /\ rd' = AfterChunk
          /\ removeCrlfAfterChunk' = FALSE
  /\ pc' = "recv"
  /\ UNCHANGED <<server, net, sender, firstLine, parsedHeaders, framing, expectedChunkSize, response, thrown>>

\* stoul(line, nullptr, 16) throws if the line does not begin with a number.
ChunkSize ==
  /\ pc = "body"
  /\ chunkedResponse
  /\ expectedChunkSize = 0
  /\ ~removeCrlfAfterChunk \/ Len(rd) >= 2
  /\ SizeEnd > 0
  /\ rd' = From(AfterChunk, SizeEnd + 2)
  /\ removeCrlfAfterChunk' = FALSE
  /\ LET line == Before(AfterChunk, SizeEnd) IN
       IF line = <<>> \/ line[1][1] # "size"
       THEN Throw("parser") /\ UNCHANGED expectedChunkSize
       ELSE /\ expectedChunkSize' = line[1][2]
            /\ pc' = IF line[1][2] = 0 THEN "returned" ELSE "body"
            /\ UNCHANGED thrown
  /\ UNCHANGED <<server, net, sender, firstLine, parsedHeaders, framing, response>>

-----------------------------------------------------------------------------
\* The server closes, orderly or in the middle of its response.
PeerCloses ==
  /\ peer = "open"
  /\ peer' = "closed"
  /\ \E n \in 0..Len(net) : net' = Before(net, n + 1)
  /\ lost' = (net' # net)
  /\ UNCHANGED <<parts, form, msg, pc, sender, rd, firstLine, parsedHeaders, framing, chunk, response, thrown>>

Parse ==
  HeadersIncomplete \/ EndOfHeaders \/ StatusLine \/ Header
  \/ PlainBody \/ ChunkThrows \/ ChunkData \/ ChunkIncomplete \/ ChunkSize

Client == Open \/ Send \/ Recv \/ Disconnected \/ Parse
Finished == Ended /\ UNCHANGED vars

Next == Client \/ SocketFails \/ PeerCloses \/ Finished

\* send() runs on, and what the server has sent arrives.
Spec == Init /\ [][Next]_vars /\ WF_vars(Client)

-----------------------------------------------------------------------------
(* Properties.                                                               *)

\* Every first byte is followed by as many continuation bytes as it announces, and
\* these are the only ones.
Utf8(text) ==
  /\ \A i \in DOMAIN text : \A j \in 1..(Width(text[i]) - 1) :
       i + j <= Len(text) /\ text[i + j] = "continuation"
  /\ \A i \in DOMAIN text : text[i] = "continuation" =>
       \E k \in 1..(i - 1) : i < k + Width(text[k])

\* The type invariant: every variable of send() is in its range (httprequest.h:507-517).
TypeOK ==
  /\ pc \in {"open", "send", "recv", "headers", "body", "returned", "threw"}
  /\ peer \in {"open", "closed"}
  /\ {lost, firstLine, parsedHeaders, chunkedResponse, removeCrlfAfterChunk, contentLengthReceived} \subseteq BOOLEAN
  /\ contentLength \in Nat
  /\ expectedChunkSize \in Nat
  /\ thrown \in {"nothing", "scheme", "system", "parser"}
  /\ (pc = "threw") = (thrown # "nothing")

\* The Request asks for the host, port and path its URL was put together from; a
\* ":" in the path, as in a MAC address, is no port, and "://" in the path is no
\* scheme unless the URL has none of its own. A query directly behind the host is
\* taken for a part of it (httprequest.h:388-433).
UrlParsed ==
  \/ parts.path = Absent /\ parts.query # Absent
  \/ parts.scheme = Absent /\ Find(RenderUrl(parts), <<":", "/", "/">>) > 0
  \/ target = [scheme |-> IF parts.scheme = Absent THEN <<"http">> ELSE parts.scheme,
               domain |-> parts.host,
               port |-> IF parts.port = Absent THEN <<"80">> ELSE parts.port,
               path |-> IF parts.path = Absent THEN <<"/">> ELSE Resource(parts)]

\* How a server takes a form apart: a byte that is not percent-encoded stands for
\* itself only if it is none of the reserved ones, "&" and "=" separate.
Reads(t) ==
  CASE t[1] = "percent" \/ t = Byte("plain") -> <<"data", t[2]>>
    [] t \in {Byte("&"), Byte("=")} -> <<"separator", t[2]>>
    [] OTHER -> <<"wrong", t[2]>>
DataOf(text) == [i \in DOMAIN text |-> <<"data", text[i]>>]

\* Names and values of a form that are UTF-8 come back when the server splits the
\* body at "&" and "=" and decodes it: no byte is lost, an "&" or "=" of theirs is not
\* taken for a separator nor a separator for theirs, and no other byte that must be
\* encoded is sent as it is (httprequest.h:262-308, 435-451).
FormDecodes ==
  (\A i \in DOMAIN form : Utf8(form[i][1]) /\ Utf8(form[i][2])) =>
    [i \in DOMAIN FormBody(form) |-> Reads(FormBody(form)[i])] =
      FlattenSeq([i \in DOMAIN form |->
        (IF i = 1 THEN <<>> ELSE <<<<"separator", "&">>>>)
        \o DataOf(form[i][1]) \o <<<<"separator", "=">>>> \o DataOf(form[i][2])])

\* However send() is split, the server gets the bytes of the request in order, and
\* all of them before the client waits for an answer (httprequest.h:496-505).
RequestInOrder ==
  pc \in {"send", "recv", "headers", "body", "returned"} =>
    got \o unsent = RequestData(target, FormBody(form)) /\ (pc # "send" => unsent = <<>>)

\* However the response is cut into segments, a response that arrived whole is
\* returned as the server meant it; the length that Content-Length gives is ignored if
\* the response is chunked (httprequest.h:520-668).
ResponseWhole ==
  pc = "returned" /\ ~lost =>
    response = [status |-> IF msg.status = NoStatus THEN 0 ELSE msg.status[2],
                headers |-> msg.headers,
                body |-> FlattenSeq(msg.chunks)]

\* A response cut short is returned as well, without an error; what is returned is
\* then a beginning of the response and nothing else (httprequest.h:524).
ResponsePrefix ==
  /\ IsPrefix(response.headers, msg.headers)
  /\ IsPrefix(response.body, FlattenSeq(msg.chunks))
  /\ response.body # <<>> => response.headers = msg.headers

\* The parser never takes a byte of the body for a line or a size: it throws for a
\* header of the server only, one that is malformed or announces more than there is
\* room for (httprequest.h:568, 591-603, 645).
NeverMisframed == thrown = "parser" => Refused(msg)

\* Each pass uses up what has arrived: send() never waits for more when a response
\* with a length or with chunks is there in full (httprequest.h:608-667).
NoIdleWait ==
  pc = "recv" /\ net = <<>> /\ ~lost => ~SelfDelimited(msg)

\* What send() returns, however the stream is cut, if the response is of a size that
\* an int holds and spells its headers as the code does (httprequest.h:520-668).
ResponseFaithful ==
  Understood(msg) => ResponseWhole /\ ResponsePrefix /\ NeverMisframed /\ NoIdleWait

\* What the server is asked, however send() is split (httprequest.h:388-505).
RequestFaithful == UrlParsed /\ FormDecodes /\ RequestInOrder

\* send() ends for a response that tells its own length, though the server keeps the
\* connection open; there is no other limit to the wait (httprequest.h:520-525).
ReturnsIfDelimited == Understood(msg) /\ SelfDelimited(msg) => <>Ended

\* Any other response is waited for until the server closes, and then returned,
\* whatever its headers; only a chunk that no int holds may keep send() for ever.
ReturnsAfterClose == Moderate(msg) /\ peer = "closed" ~> Ended

\* How long send() may take (httprequest.h:520-525).
SendReturns == ReturnsIfDelimited /\ ReturnsAfterClose
=============================================================================
