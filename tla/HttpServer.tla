----------------------------- MODULE HttpServer -----------------------------
(***************************************************************************)
(* The HTTP server (net/http): HttpServer::onMessage, the parser           *)
(* HttpContext over the input Buffer of one connection, and the responses. *)
(* A client sends a sequence of requests; TCP cuts the stream anywhere.    *)
(* Text is a sequence of tokens: words, "SP", ":", "?", "/", "CR", "LF".   *)
(***************************************************************************)
EXTENDS Buffer, Inspector, SequencesExt

CONSTANT Programs        \* a client and a server: the requests that the client
                         \* sends and the httpCallback_ of the server

VARIABLES
  program,               \* the member of Programs; never changes
  arrived,               \* tokens of the stream that readFd has taken
  inputBuffer_,          \* of the connection
  context,               \* HttpContext: state_ and request_
  state_,                \* of the connection: kConnected, or kDisconnecting after shutdown
  out,                   \* the responses sent
  seen,                  \* history: the requests given to httpCallback_
  crossed,               \* history: a piece held the end of a request and more
  failed                 \* history: "setMethod", its assertion; "loop", parseRequest
                         \* never returns

httpVars == <<program, arrived, inputBuffer_, context, state_, out, seen, crossed, failed>>
vars == <<httpVars, inspectorVars>>

Methods == {"GET", "POST", "HEAD", "PUT", "DELETE"}

(***************************************************************************)
(* HttpRequest                                                             *)
(***************************************************************************)
EmptyRequest ==
  [method_ |-> "kInvalid", version_ |-> "kUnknown", path_ |-> <<>>, query_ |-> <<>>,
   headers_ |-> <<>>]

NewContext == [state_ |-> "kExpectRequestLine", request_ |-> EmptyRequest]

(* The place of the first token t in s, Len(s) + 1 when there is none. *)
Find(s, t) ==
  LET S == {i \in DOMAIN s : s[i] = t} \cup {Len(s) + 1}
  IN  CHOOSE i \in S : \A j \in S : i <= j

MethodOf(word) ==
  IF Len(word) = 1 /\ word[1] \in Methods THEN word[1] ELSE "kInvalid"

VersionOf(word) ==
  CASE word = <<"HTTP/1.1">> -> "kHttp11"
    [] word = <<"HTTP/1.0">> -> "kHttp10"
    [] OTHER -> "kUnknown"

TrimSpaces(s) ==
  LET word == {i \in DOMAIN s : s[i] # "SP"}
  IN  IF word = {} THEN <<>> ELSE SubSeq(s, Min(word), Max(word))

(* headers_ is a map: a field given again takes the last value. *)
AddHeader(request, line) ==
  LET colon == Find(line, ":")
      field == SubSeq(line, 1, colon - 1)
      value == TrimSpaces(SubSeq(line, colon + 1, Len(line)))
      rest  == SelectSeq(request.headers_, LAMBDA h : h[1] # field)
  IN  [request EXCEPT !.headers_ = Append(rest, <<field, value>>)]

GetHeader(request, field) ==
  LET S == {i \in DOMAIN request.headers_ : request.headers_[i][1] = field}
  IN  IF S = {} THEN <<>> ELSE request.headers_[CHOOSE i \in S : TRUE][2]

(***************************************************************************)
(* HttpContext                                                             *)
(***************************************************************************)
(* processRequestLine: what it sets stays set when the line is refused. *)
ProcessRequestLine(request, line) ==
  LET space    == Find(line, "SP")
      method   == MethodOf(SubSeq(line, 1, space - 1))
      rest     == SubSeq(line, space + 1, Len(line))
      space2   == Find(rest, "SP")
      question == Find(SubSeq(rest, 1, space2 - 1), "?")
      version  == VersionOf(SubSeq(rest, space2 + 1, Len(rest)))
      withMethod == IF space <= Len(line) THEN [request EXCEPT !.method_ = method] ELSE request
  IN  IF space > Len(line) \/ method = "kInvalid" \/ space2 > Len(rest)
      THEN [ok |-> FALSE, request_ |-> withMethod]
      ELSE [ok |-> version # "kUnknown",
            request_ |-> [withMethod EXCEPT
                            !.path_ = SubSeq(rest, 1, question - 1),
                            !.query_ = IF question < space2
                                       THEN SubSeq(rest, question, space2 - 1) ELSE @,
                            !.version_ = IF version # "kUnknown" THEN version ELSE @]]

(* The assertion of setMethod, which runs when there is a space. *)
SetMethodAsserts(request, line) == Find(line, "SP") <= Len(line) => request.method_ = "kInvalid"

(* parseRequest, from the parser p: ok, failed, buf, state_ and request_. *)
RECURSIVE ParseRequest(_)

(* A line of the header: a field, or the end of the header when it has no colon. *)
ParseHeaderLine(p, line) ==
  LET q == [p EXCEPT !.buf = Retrieve(@, Len(line) + 2)]
  IN  IF Find(line, ":") <= Len(line)
      THEN ParseRequest([q EXCEPT !.request_ = AddHeader(@, line)])
      ELSE [q EXCEPT !.state_ = "kGotAll"]

ParseLine(p, line) ==
  LET r == ProcessRequestLine(p.request_, line)
      q == [p EXCEPT !.request_ = r.request_, !.ok = r.ok,
                     !.failed = IF SetMethodAsserts(p.request_, line)
                                THEN @ ELSE @ \cup {"setMethod"}]
  IN  IF r.ok
      THEN ParseRequest([q EXCEPT !.buf = Retrieve(@, Len(line) + 2),
                                  !.state_ = "kExpectHeaders"])
      ELSE q

ParseRequest(p) ==
  LET crlf == FindCRLF(p.buf)
      line == SubSeq(ToStringPiece(p.buf), 1, crlf)
  IN  CASE p.state_ \notin {"kExpectRequestLine", "kExpectHeaders"} ->
             [p EXCEPT !.failed = @ \cup {"loop"}]
        [] p.state_ = "kExpectRequestLine" /\ crlf # NULL -> ParseLine(p, line)
        [] p.state_ = "kExpectHeaders" /\ crlf # NULL -> ParseHeaderLine(p, line)
        [] OTHER -> p

(* Faulty: the headers of the last request stay. *)
Reset_HeadersStay(c) ==
  [NewContext EXCEPT !.request_.headers_ = c.request_.headers_]

Reset(c) == NewContext

(***************************************************************************)
(* HttpServer                                                              *)
(***************************************************************************)
(* The callback of the server: the default one, the Inspector's, or one of an   *)
(* application that answers every request.                                      *)
HttpCallback(request, resp) ==
  CASE program.callback = "default" ->
         [resp EXCEPT !.statusCode_ = 404, !.closeConnection_ = TRUE]
    [] program.callback = "inspector" -> OnInspectorRequest(request.path_, resp)
    [] OTHER -> [resp EXCEPT !.statusCode_ = 200]

(* Faulty: a body of a kept connection without its length. *)
AppendToBuffer_NoLength(resp) ==
  [code |-> resp.statusCode_, body |-> resp.body_, length |-> FALSE,
   connection |-> IF resp.closeConnection_ THEN "close" ELSE "Keep-Alive"]

AppendToBuffer(resp) ==
  [code |-> resp.statusCode_, body |-> resp.body_,
   length |-> ~resp.closeConnection_,
   connection |-> IF resp.closeConnection_ THEN "close" ELSE "Keep-Alive"]

BadRequest == [code |-> 400, body |-> {}, length |-> FALSE, connection |-> ""]

MustClose(request) ==
  LET connection == GetHeader(request, <<"Connection">>)
  IN  \/ connection = <<"close">>
      \/ request.version_ = "kHttp10" /\ connection # <<"Keep-Alive">>

(* TcpConnection::send drops the data of a connection that is shut down. *)
Send(sent, response) == IF state_ = "kConnected" THEN Append(sent, response) ELSE sent

(* onMessage after parseRequest, with onRequest. *)
OnMessage(p) ==
  LET resp == HttpCallback(p.request_, [statusCode_ |-> 0, body_ |-> {},
                                        closeConnection_ |-> MustClose(p.request_)])
      gotAll == p.state_ = "kGotAll"
      shutdown == ~p.ok \/ (gotAll /\ resp.closeConnection_)
  IN  /\ out' = CASE ~p.ok -> Send(out, BadRequest)
                  [] p.ok /\ gotAll -> Send(out, AppendToBuffer(resp))
                  [] OTHER -> out
      /\ state_' = IF shutdown THEN "kDisconnecting" ELSE state_
      /\ seen' = IF gotAll THEN Append(seen, p.request_) ELSE seen
      /\ context' = LET c == [state_ |-> p.state_, request_ |-> p.request_]
                    IN  IF gotAll THEN Reset(c) ELSE c

(* The stream of a client, as the requests are written. *)
Wire(r) ==
  <<r.method, "SP">> \o r.path \o r.query \o <<"SP", r.version>> \o kCRLF
  \o FlattenSeq([i \in DOMAIN r.headers |->
                   <<r.headers[i][1], ":", "SP", r.headers[i][2]>> \o kCRLF])
  \o kCRLF \o r.body

StreamOf(requests) == FlattenSeq([i \in DOMAIN requests |-> Wire(requests[i])])

(* The tokens of the first n requests. *)
LengthOf(n) == Len(StreamOf(SubSeq(program.requests, 1, n)))

Complete(n) == {i \in DOMAIN program.requests : LengthOf(i) <= n}

(* TcpConnection::handleRead: the next n tokens arrive. *)
HandleRead(n) ==
  LET stream == StreamOf(program.requests)
      piece  == SubSeq(stream, arrived + 1, arrived + n)
      p == ParseRequest([buf |-> ReadFd(inputBuffer_, piece), ok |-> TRUE, failed |-> failed,
                         state_ |-> context.state_, request_ |-> context.request_])
  IN  /\ failed = {}
      /\ n <= ReadFdRoom(inputBuffer_)
      /\ arrived + n <= Len(stream)
      /\ arrived' = arrived + n
      /\ inputBuffer_' = p.buf
      /\ failed' = p.failed
      /\ crossed' = (crossed \/ \E i \in DOMAIN program.requests :
                                  arrived < LengthOf(i) /\ LengthOf(i) < arrived + n)
      /\ OnMessage(p)
      /\ UNCHANGED <<program, inspectorVars>>

Init ==
  /\ program \in Programs
  /\ arrived = 0
  /\ inputBuffer_ = NewBuffer(kInitialSize)
  /\ context = NewContext
  /\ state_ = "kConnected"
  /\ out = <<>>
  /\ seen = <<>>
  /\ crossed = FALSE
  /\ failed = {}
  /\ InspectorInit

Next ==
  \/ \E n \in 1 .. Len(StreamOf(program.requests)) : HandleRead(n)
  \/ /\ program.callback = "inspector"
     /\ \E m \in Modules, c \in Commands : AddCommand(m, c) \/ RemoveCommand(m, c)
     /\ UNCHANGED httpVars

Spec == Init /\ [][Next]_vars

------------------------------------------------------------------------------

(* A request line the parser refuses; a body is read as a request line. *)
Refused(i) ==
  LET r == program.requests[i]
  IN  \/ r.method \notin Methods
      \/ r.version \notin {"HTTP/1.0", "HTTP/1.1"}
      \/ i > 1 /\ program.requests[i - 1].body # <<>>

FirstRefused == Min({i \in DOMAIN program.requests : Refused(i)}
                    \cup {Len(program.requests) + 1})

AsWritten(r) ==
  [method_ |-> r.method, path_ |-> r.path, query_ |-> r.query,
   version_ |-> VersionOf(<<r.version>>),
   headers_ |-> [i \in DOMAIN r.headers |-> <<<<r.headers[i][1]>>, <<r.headers[i][2]>>>>]]

(* The callback is given the requests as the client wrote them, in their order, *)
(* wherever the stream is cut: no header of an earlier request is left over and *)
(* none is lost.                                                                *)
RequestsAsWritten ==
  /\ Len(seen) < FirstRefused
  /\ \A i \in DOMAIN seen : seen[i] = AsWritten(program.requests[i])

ClosesAfter(i) ==
  LET h == program.requests[i].headers
      value == {h[k][2] : k \in {k \in DOMAIN h : h[k][1] = "Connection"}}
  IN  \/ Refused(i) \/ program.callback = "default" \/ "close" \in value
      \/ program.requests[i].version = "HTTP/1.0" /\ "Keep-Alive" \notin value

LastAnswered == Min({i \in DOMAIN program.requests : ClosesAfter(i)}
                    \cup {Len(program.requests)})

(* A client that waits for each response before it sends the next request gets  *)
(* every response, by the read that completes the request; whatever the client  *)
(* does, it is told 400 for the first bad request line only, and nothing        *)
(* follows the response after which the server closes.                          *)
AnsweredAtOnce ==
  /\ ~crossed => Len(out) >= Min({Cardinality(Complete(arrived)), LastAnswered})
  /\ Len(out) <= LastAnswered
  /\ \A i \in DOMAIN out :
       /\ out[i].code = 400 <=> Refused(i)
       /\ ClosesAfter(i) <=> out[i].connection # "Keep-Alive"

(* The client can tell where a response ends: it has a length, or it is the     *)
(* last one and the connection is shut down.                                    *)
EndOfResponseKnown ==
  \A i \in DOMAIN out :
    ~out[i].length => i = Len(out) /\ state_ = "kDisconnecting"

(* parseRequest is never entered in a state in which its loop does not end.     *)
ParseReturns == "loop" \notin failed
=============================================================================
