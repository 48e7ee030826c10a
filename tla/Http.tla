-------------------------------- MODULE Http --------------------------------
(***************************************************************************)
(* One connection of HttpServer (src/muduo/http/httpserver.hpp): the parts *)
(* of HandleRead, ShutDownInLoop and HandleWrite (src/muduo/server.hpp)    *)
(* that OnMessage runs in and calls, HttpContext's state machine, and the  *)
(* loop over the requests in the buffer.  All of it runs in one thread: a  *)
(* step is a piece of a handler, and `calls` is the stack.                 *)
(*                                                                         *)
(* conn->ShutDown() inside OnMessage runs ShutDownInLoop at once, which    *)
(* calls OnMessage again for what the buffer still holds.                  *)
(***************************************************************************)
EXTENDS HttpRoutes

CONSTANTS
  Streams,   \* what a client may send, see HttpExchange
  MaxLine,   \* MaxLine, in texts
  Numbers    \* what std::stoi makes of the values of Content-Length

NL == <<"newline">>

\* The texts of the streams; of requests those whose answers Replies of HttpRoutes has.
Texts == {NL, <<"text">>} \cup ({"request"} \X Methods \X Paths \X STRING)
         \cup ({"header"} \X STRING \X STRING)

\* A line that the server takes is one text and its newline.
ASSUME HttpAssumption ==
  /\ Streams \subseteq Seq(Texts)
  /\ MaxLine \in 1 .. 2
  /\ Numbers \in [DOMAIN Numbers -> Int]

VARIABLES
  stream,    \* what the client sends
  received,  \* how much of it HandleRead has read
  fin,       \* the client has closed its side
  inb,       \* _in_buffer
  unsent,    \* how many of the answers are in _out_buffer
  answers,   \* what MakeResponse has written (history)
  status,    \* Connection::_status
  ctx,       \* the HttpContext: [status, code, line, headers, body]
  calls,     \* who called the OnMessage that runs, and those it was called from
  at,        \* where the innermost OnMessage is
  aborted    \* an exception has ended the process

vars == <<stream, received, fin, inb, unsent, answers, status, ctx, calls, at, aborted>>

FreshContext ==
  [status |-> "RECV_REQ_LINE", code |-> 200, line |-> <<>>,
   headers |-> [n \in {} |-> ""], body |-> <<>>]

Init ==
  /\ stream \in Streams
  /\ received = 0
  /\ fin = FALSE
  /\ inb = <<>>
  /\ unsent = 0
  /\ answers = <<>>
  /\ status = "CONNECTED"
  /\ ctx = FreshContext
  /\ calls = <<>>
  /\ at = "idle"
  /\ aborted = FALSE

-----------------------------------------------------------------------------
(* HttpRequest and the lines. *)

GetHeaders(name) == ctx.headers[name]
HasHeaders(name) == name \in DOMAIN ctx.headers

\* 0 without the header; what std::stoi returns otherwise.
ContentLength == IF HasHeaders("Content-Length") THEN Numbers[GetHeaders("Content-Length")] ELSE 0

\* std::stoi throws std::invalid_argument.
ContentLengthThrows ==
  HasHeaders("Content-Length") /\ GetHeaders("Content-Length") \notin DOMAIN Numbers

IsKeepAlive ==
  IF HasHeaders("Connection") THEN GetHeaders("Connection") = "keep-alive"
  ELSE ctx.line # <<>> /\ ctx.line[1][4] = "HTTP/1.1"

HasLine == \E i \in DOMAIN inb : inb[i] = NL
LineLength == Min({i \in DOMAIN inb : inb[i] = NL})
GetLine == SubSeq(inb, 1, LineLength)
PopLine == SubSeq(inb, LineLength + 1, Len(inb))

\* ParseReqLine finds two spaces, ParseHttpHead finds ": ".
ParseReqLine(line) == line[1][1] = "request"
ParseHttpHead(line) == line[1][1] = "header"

Failed(code) == [ctx EXCEPT !.code = code, !.status = "RECV_REQ_ERROR"]

-----------------------------------------------------------------------------
(* HttpContext::RecvHttpRequest, a step per line: the cases of its switch  *)
(* fall through, and so does `at = "receive"` as long as they return true. *)

\* No newline yet: wait for it, unless the line is too long already.
LineIncomplete ==
  /\ ~HasLine
  /\ ctx' = IF Len(inb) > MaxLine THEN Failed(414) ELSE ctx
  /\ at' = "received"
  /\ UNCHANGED inb

\* Mutant of RecvReqLine: the length of a complete line is not looked at.
RecvReqLineOfAnyLength ==
  /\ at = "receive" /\ ctx.status = "RECV_REQ_LINE"
  /\ \/ LineIncomplete
     \/ /\ HasLine
        /\ inb' = PopLine
        /\ IF ParseReqLine(GetLine)
           THEN /\ ctx' = [ctx EXCEPT !.line = <<GetLine[1]>>, !.status = "RECV_REQ_HEAD"]
                /\ at' = "receive"
           ELSE ctx' = Failed(400) /\ at' = "received"
  /\ UNCHANGED <<stream, received, fin, unsent, answers, status, calls, aborted>>

RecvReqLine ==
  /\ at = "receive" /\ ctx.status = "RECV_REQ_LINE"
  /\ \/ LineIncomplete
     \/ /\ HasLine
        /\ inb' = PopLine
        /\ IF Len(GetLine) > MaxLine THEN ctx' = Failed(414) /\ at' = "received"
           ELSE IF ParseReqLine(GetLine)
           THEN /\ ctx' = [ctx EXCEPT !.line = <<GetLine[1]>>, !.status = "RECV_REQ_HEAD"]
                /\ at' = "receive"
           ELSE ctx' = Failed(400) /\ at' = "received"
  /\ UNCHANGED <<stream, received, fin, unsent, answers, status, calls, aborted>>

\* A turn of RecvReqHead's loop.  A header replaces one of the same name.
RecvReqHead ==
  /\ at = "receive" /\ ctx.status = "RECV_REQ_HEAD"
  /\ \/ LineIncomplete
     \/ /\ HasLine
        /\ inb' = PopLine
        /\ IF Len(GetLine) > MaxLine THEN ctx' = Failed(414) /\ at' = "received"
           ELSE IF GetLine = <<NL>> THEN ctx' = [ctx EXCEPT !.status = "RECV_REQ_BODY"] /\ at' = at
           ELSE IF ParseHttpHead(GetLine)
           THEN /\ ctx' = [ctx EXCEPT !.headers =
                             [n \in DOMAIN @ \cup {GetLine[1][2]} |->
                                IF n = GetLine[1][2] THEN GetLine[1][3] ELSE @[n]]]
                /\ at' = at
           ELSE ctx' = Failed(400) /\ at' = "received"
  /\ UNCHANGED <<stream, received, fin, unsent, answers, status, calls, aborted>>

\* How much of the body is still to come; none if the length is zero or negative.
Needed == ContentLength - Len(ctx.body)

\* Mutant of BodyNow: what an earlier call has read is forgotten.
BodyFromStart == Min({ContentLength, Len(inb)})

\* What is there is taken, up to the length.
BodyNow == Min({Needed, Len(inb)})

RecvHttpBody ==
  /\ at = "receive" /\ ctx.status = "RECV_REQ_BODY"
  /\ IF ContentLengthThrows
     THEN aborted' = TRUE /\ UNCHANGED <<inb, ctx, at>>
     ELSE /\ at' = "received"
          /\ IF ContentLength = 0 \/ Needed <= 0
             THEN ctx' = [ctx EXCEPT !.status = "RECV_REQ_OVER"] /\ UNCHANGED inb
             ELSE /\ ctx' = [ctx EXCEPT !.body = @ \o SubSeq(inb, 1, BodyNow),
                                        !.status = IF Needed <= Len(inb) THEN "RECV_REQ_OVER" ELSE @]
                  /\ inb' = SubSeq(inb, BodyNow + 1, Len(inb))
          /\ UNCHANGED aborted
  /\ UNCHANGED <<stream, received, fin, unsent, answers, status, calls>>

\* default: after an error the context stays as it is.
RecvNothing ==
  /\ at = "receive" /\ ctx.status = "RECV_REQ_ERROR"
  /\ at' = "received"
  /\ UNCHANGED <<stream, received, fin, inb, unsent, answers, status, ctx, calls, aborted>>

-----------------------------------------------------------------------------
(* HttpServer::OnMessage behind RecvHttpRequest. *)

\* MakeResponse and Send; a released connection sends nothing.
MakeResponse(answer) ==
  /\ answers' = Append(answers, answer)
  /\ unsent' = IF status = "DISCONNECTED" THEN unsent ELSE unsent + 1

Refusal ==
  [refused |-> TRUE, to |-> <<>>, answer |-> Error(ctx.code), body |-> <<>>, upTo |-> received]

AnswerOf(r) ==
  [refused |-> FALSE, to |-> ctx.line, answer |-> r, body |-> ctx.body,
   upTo |-> received - Len(inb)]

\* conn->ShutDown(), with something left in the buffer: OnMessage is called again.
\* Otherwise ShutDownInLoop finds the answer in _out_buffer, and OnMessage returns.
ShutDown(rest) ==
  /\ status' = "DISCONNECTING"
  /\ IF rest = <<>> THEN at' = "return" /\ UNCHANGED calls
     ELSE at' = "receive" /\ calls' = Append(calls, "ShutDownInLoop")

HandleError ==
  /\ at = "received" /\ ctx.code >= 400
  /\ MakeResponse(Refusal)
  /\ inb' = <<>>
  /\ ShutDown(<<>>)
  /\ UNCHANGED <<stream, received, fin, ctx, aborted>>

NotOver ==
  /\ at = "received" /\ ctx.code < 400 /\ ctx.status # "RECV_REQ_OVER"
  /\ at' = "return"
  /\ UNCHANGED <<stream, received, fin, inb, unsent, answers, status, ctx, calls, aborted>>

\* Mutant of NextContext: HttpRequest::Reset leaves the headers.
ContextKeepingHeaders == [FreshContext EXCEPT !.headers = ctx.headers]

\* Reset, before ShutDown can call OnMessage again.
NextContext == FreshContext

\* Mutant of NextInBuffer: one request for each call.
OnePerCall == "return"

\* The while loop goes on as long as there are bytes.
NextInBuffer == IF inb = <<>> THEN "return" ELSE "receive"

HandleRequest ==
  /\ at = "received" /\ ctx.code < 400 /\ ctx.status = "RECV_REQ_OVER"
  /\ \E r \in Routed([method |-> ctx.line[1][2], path |-> ctx.line[1][3]]) :
       MakeResponse(AnswerOf(r))
  /\ ctx' = NextContext
  /\ IF ~IsKeepAlive THEN ShutDown(inb)
     ELSE at' = NextInBuffer /\ UNCHANGED <<status, calls>>
  /\ UNCHANGED <<stream, received, fin, inb, aborted>>

-----------------------------------------------------------------------------
(* Connection: what calls OnMessage, and what runs when it has returned. *)

Idle == at = "idle" /\ ~aborted /\ status # "DISCONNECTED"

HandleRead ==
  /\ Idle
  /\ \E n \in 1 .. Len(stream) - received :
       /\ received' = received + n
       /\ inb' = inb \o SubSeq(stream, received + 1, received + n)
  /\ calls' = <<"HandleRead">>
  /\ at' = "receive"
  /\ UNCHANGED <<stream, fin, unsent, answers, status, ctx, aborted>>

\* ShutDownInLoop behind its call of OnMessage.
FlushOrRelease == status' = IF unsent = 0 THEN "DISCONNECTED" ELSE "DISCONNECTING"

\* The client closes its side behind all that it sent.
PeerCloses ==
  /\ Idle /\ ~fin /\ received = Len(stream)
  /\ fin' = TRUE
  /\ UNCHANGED <<stream, received, inb, unsent, answers, status, ctx, calls, at, aborted>>

\* recv() returns 0, again and again: the socket stays readable.
HandleEof ==
  /\ Idle /\ fin
  /\ IF inb = <<>> THEN FlushOrRelease /\ UNCHANGED <<calls, at>>
     ELSE status' = "DISCONNECTING" /\ calls' = <<"ShutDownInLoop">> /\ at' = "receive"
  /\ UNCHANGED <<stream, received, fin, inb, unsent, answers, ctx, aborted>>

\* OnMessage returns: out of HandleRead, or into ShutDownInLoop and, if an OnMessage
\* had called that, into it; it returns at once.
Return ==
  /\ at = "return"
  /\ calls' = Front(calls)
  /\ at' = IF Len(calls) = 1 THEN "idle" ELSE "return"
  /\ IF Last(calls) = "ShutDownInLoop" THEN FlushOrRelease ELSE UNCHANGED status
  /\ UNCHANGED <<stream, received, fin, inb, unsent, answers, ctx, aborted>>

\* Mutant of HandleWrite: the status is not looked at.
HandleWriteStaying ==
  /\ Idle /\ ~fin /\ unsent > 0
  /\ unsent' = 0
  /\ UNCHANGED <<stream, received, fin, inb, answers, status, ctx, calls, at, aborted>>

\* EPOLLOUT, handled when the socket is not readable; the kernel takes all of it.
HandleWrite ==
  /\ Idle /\ ~fin /\ unsent > 0
  /\ unsent' = 0
  /\ status' = IF status = "DISCONNECTING" THEN "DISCONNECTED" ELSE status
  /\ UNCHANGED <<stream, received, fin, inb, answers, ctx, calls, at, aborted>>

RecvHttpRequest == RecvReqLine \/ RecvReqHead \/ RecvHttpBody \/ RecvNothing

OnMessage ==
  ~aborted /\ (RecvHttpRequest \/ HandleError \/ NotOver \/ HandleRequest \/ Return)

Next == HandleRead \/ PeerCloses \/ HandleEof \/ OnMessage \/ HandleWrite

Spec == Init /\ [][Next]_vars

\* The loop's thread runs: it goes on in a handler, and handles a writable socket.
FairSpec == Spec /\ WF_vars(OnMessage) /\ WF_vars(HandleWrite)

-----------------------------------------------------------------------------
(* Properties *)

\* The answers are those to the text of the stream, request by request, whatever
\* pieces HandleRead gets it in, however often OnMessage is called for it, and although
\* the context is kept from call to call and from request to request.
Exchange == INSTANCE HttpExchange WITH closing <- status # "CONNECTED"
ImplementsExchange == Exchange!Spec

\* When OnMessage has returned, nothing that can be answered is left in the buffer: no
\* whole request and no line to refuse, also when the connection is shutting down; and
\* a connection is not released before its answers are sent.  (The client's next byte
\* may never come, so an answer that waits for it would wait for ever.)
NothingLeftUnanswered ==
  /\ at = "idle" /\ ~aborted =>
       /\ Exchange!Complete = {}
       /\ ~Exchange!Refused => Exchange!Refusals = {}
       /\ Exchange!Refused => Exchange!Rest = <<>>
  /\ status = "DISCONNECTED" => unsent = 0

\* A file is served from below the base directory, if the path begins with a slash.  (Of
\* another path BuildFilePath makes a longer name of the base's last one, so that only the
\* directory around the base is left for sure: IsValidPath lets the path go up by as many
\* names as it went down, the longer one included.)  A route answers a path that is its
\* pattern with names put in for the parameters, and an equal pattern goes first; and
\* nobody else is told that there is nothing.  (Route, Dispatcher, IsValidPath)
Instance(pattern, path) ==
  LET names == Split(pattern)  given == Split(path)
  IN  \E value \in [Params -> ToSet(given)] :
        given = [i \in DOMAIN names |->
                   IF names[i] # <<>> /\ names[i][1] \in Params THEN value[names[i][1]]
                   ELSE names[i]]

AnsweredByTheRightHandler ==
  \A i \in {j \in DOMAIN answers : ~answers[j].refused} :
    LET a == answers[i].answer
        method == answers[i].to[1][2]
        path == answers[i].to[1][3]
        table == IF method = "HEAD" THEN Routes["GET"]
                 ELSE IF method \in DOMAIN Routes THEN Routes[method] ELSE <<>>
        base == Tail(Split(Base))
    IN  /\ a.by = "file" => IsPrefix(IF path[1] = Slash THEN base ELSE Front(base), a.what)
        /\ a.by = "route" => /\ a.what \in ToSet(table)
                             /\ a.what = path \/ (path \notin ToSet(table)
                                                   /\ Instance(a.what, path))
        /\ a.code = 404 => \/ IsFileHandler([method |-> method, path |-> path])
                           \/ \A p \in ToSet(table) : p # path /\ ~(HasParam(p) /\ Instance(p, path))

\* A server that has begun to shut down closes: after a refusal, and after an answer to
\* a request that is not kept alive, everything is sent and the connection released.  (If
\* the client has closed its side the socket stays readable, see ReactorHalfClose.cfg.)
ShutDownCompletes ==
  status = "DISCONNECTING" ~> (status = "DISCONNECTED" /\ unsent = 0) \/ fin \/ aborted
=============================================================================
