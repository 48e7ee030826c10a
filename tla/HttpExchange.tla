--------------------------- MODULE HttpExchange ---------------------------
(***************************************************************************)
(* What a client of HttpServer sees on one connection: the bytes it sent   *)
(* are cut into requests by their own text, and the requests are answered  *)
(* in their order.  Where the bytes were cut on the way does not show.     *)
(* A request line or header the server cannot take is refused, and from    *)
(* then on whatever arrives is refused.                                    *)
(*                                                                         *)
(* The stream is a sequence of short texts: <<"request", method, path,     *)
(* version>>, <<"header", name, value>>, <<"newline">>, <<"text">>.  Here  *)
(* a request is described by its whole text, with no parser and no state.  *)
(***************************************************************************)
EXTENDS Integers, Sequences, SequencesExt, FiniteSetsExt

CONSTANTS
  Streams,    \* what a client may send
  MaxLine,    \* a line has at most so many texts, its newline included
  Numbers,    \* the values of Content-Length that std::stoi accepts
  Routed(_),  \* the answers that a request may get
  Error(_)    \* the answer with which the server refuses

NL == <<"newline">>

VARIABLES
  stream,    \* what the client sends
  received,  \* how much of it has reached the server
  answers,   \* the answers given, each with the place in the stream it answers up to
  closing,   \* the server is going to close the connection, or has
  aborted    \* the process has ended

vars == <<stream, received, answers, closing, aborted>>

\* Positions of the first and last text of the lines of s, line by line.
Starts(s) == {1} \cup {i + 1 : i \in {j \in DOMAIN s : s[j] = NL}}
EndOf(s, a) == {b \in a .. Len(s) : s[b] = NL /\ \A i \in a .. b - 1 : s[i] # NL}

Blank(s, a) == EndOf(s, a) = {a}

IsRequestLine(line) == Len(line) = 2 /\ line[1][1] = "request"
IsHeaderLine(line) == Len(line) = 2 /\ line[1][1] = "header"

\* The line of s from a on is complete and the server takes it.
Taken(s, a) ==
  \E b \in EndOf(s, a) :
    LET line == SubSeq(s, a, b)
    IN  /\ Len(line) <= MaxLine
        /\ IF a = 1 THEN IsRequestLine(line) ELSE IsHeaderLine(line)

\* The line from a on is one the server refuses, whatever follows.
RefusalOf(s, a) ==
  IF EndOf(s, a) = {} THEN (IF Len(s) - a + 1 > MaxLine THEN {414} ELSE {})
  ELSE LET line == SubSeq(s, a, CHOOSE b \in EndOf(s, a) : TRUE)
       IN  IF Len(line) > MaxLine THEN {414}
           ELSE IF Taken(s, a) \/ (a # 1 /\ Blank(s, a)) THEN {}
           ELSE {400}

\* s[1..h] is the request line, the headers, and the blank line.
IsHead(s, h) ==
  /\ h \in Starts(s) \ {1} /\ Blank(s, h)
  /\ \A a \in Starts(s) : a < h => Taken(s, a)

ValuesOf(s, h, name) ==
  LET at == {i \in 1 .. h : s[i][1] = "header" /\ s[i][2] = name}
  IN  IF at = {} THEN {} ELSE {s[Max(at)][3]}

\* Content-Length of the head s[1..h]; a negative one counts as zero.
BodyLength(s, h) ==
  LET v == ValuesOf(s, h, "Content-Length")
  IN  IF v = {} THEN 0 ELSE Max({0, Numbers[CHOOSE x \in v : TRUE]})

NumberFails(s, h) == \E v \in ValuesOf(s, h, "Content-Length") : v \notin DOMAIN Numbers

KeepsAlive(s, h) ==
  LET v == ValuesOf(s, h, "Connection")
  IN  IF v = {} THEN s[1][4] = "HTTP/1.1" ELSE v = {"keep-alive"}

Done == IF answers = <<>> THEN 0 ELSE Last(answers).upTo
Rest == SubSeq(stream, Done + 1, received)
Refused == answers # <<>> /\ Last(answers).refused

\* The heads that Rest begins with: at most one.
Heads == {h \in DOMAIN Rest : IsHead(Rest, h)}
Complete == {h \in Heads : ~NumberFails(Rest, h) /\ Len(Rest) >= h + BodyLength(Rest, h)}
Refusals ==
  UNION {RefusalOf(Rest, a) : a \in {c \in Starts(Rest) : \A b \in Starts(Rest) :
                                        b < c => Taken(Rest, b)}}

Init ==
  /\ stream \in Streams
  /\ received = 0
  /\ answers = <<>>
  /\ closing = FALSE
  /\ aborted = FALSE

Receive ==
  /\ \E n \in 1 .. Len(stream) - received : received' = received + n
  /\ UNCHANGED <<stream, answers, closing, aborted>>

\* The oldest request is answered by whom its method and path say.
AnswerRequest ==
  /\ ~Refused
  /\ \E h \in Complete :
       LET body == SubSeq(Rest, h + 1, h + BodyLength(Rest, h))
           keep == KeepsAlive(Rest, h)
           req == [method |-> Rest[1][2], path |-> Rest[1][3]]
       IN  /\ \E r \in Routed(req) :
                answers' = Append(answers, [refused |-> FALSE, to |-> <<Rest[1]>>, answer |-> r,
                                            body |-> body, upTo |-> Done + h + Len(body)])
           /\ closing' = (closing \/ ~keep)
  /\ UNCHANGED <<stream, received, aborted>>

\* What has been received is thrown away with the refusal, and again all that comes later.
Refuse ==
  /\ \E code \in IF ~Refused THEN Refusals
                 ELSE IF Rest = <<>> THEN {} ELSE {Last(answers).answer.code} :
       answers' = Append(answers, [refused |-> TRUE, to |-> <<>>, answer |-> Error(code),
                                   body |-> <<>>, upTo |-> received])
  /\ closing' = TRUE
  /\ UNCHANGED <<stream, received, aborted>>

\* std::stoi throws, and nothing catches it.
Abort ==
  /\ ~Refused
  /\ \E h \in Heads : NumberFails(Rest, h)
  /\ aborted' = TRUE
  /\ UNCHANGED <<stream, received, answers, closing>>

\* The client closes its side.
HangUp == closing' = TRUE /\ UNCHANGED <<stream, received, answers, aborted>>

Next == ~aborted /\ (Receive \/ AnswerRequest \/ Refuse \/ Abort \/ HangUp)

Spec == Init /\ [][Next]_vars
=============================================================================
