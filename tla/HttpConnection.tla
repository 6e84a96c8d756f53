--------------------------- MODULE HttpConnection ---------------------------
(***************************************************************************)
(* One keep-alive connection of the HTTP server: WebConnection             *)
(* (src/http/http_connection.hpp), its HttpParser (http_parser.hpp) and    *)
(* the Response it keeps from request to request (http_response.hpp).      *)
(*                                                                         *)
(* A request is a sequence of tokens: the text of a line and its newline   *)
(* for the request line, every header and the blank line, and the bytes    *)
(* of the body.  TCP hands them over in pieces of any size.  What a route  *)
(* does is one of what http_router.hpp and http_response.hpp offer it.     *)
(* The client may send a request before the last one was answered.         *)
(***************************************************************************)
EXTENDS Integers, Sequences, SequencesExt, FiniteSetsExt

CONSTANTS
    Requests,       \* the requests clients send
    MaxRequests,    \* bound: requests on the connection
    FileSize,       \* bytes of the file that send_file sends
    LoadSize        \* bytes of the file that read_file_to_body reads

Headers == {"host", "keep", "close", "length", "upload"}
Routes == {"none", "value", "file", "nofile", "load", "session"}

\* bad: the part of the request that does not match its regular expression.
RequestType ==
    [version : {"1.0", "1.1", "other"}, headers : Seq(Headers), bytes : Nat,
     route : Routes, bad : {"", "line", "header"}]

ASSUME HttpAssumption ==
    /\ Requests \subseteq RequestType
    /\ \A r \in Requests : r.bytes > 0 => "length" \in Range(r.headers)
    /\ MaxRequests \in Nat
    /\ FileSize \in Nat \ {0}
    /\ LoadSize \in Nat \ {0}

VARIABLES
    sent,       \* the client's requests so far
    flight,     \* tokens under way
    buf,        \* recv_buffer_
    parser,     \* parser_
    res,        \* res_
    st,         \* the TCP connection: open, waiting (WaitClosed) or closed
    parsed,     \* history: requests that to_request() returned
    answers,    \* history: what was sent for them
    pipelined   \* history: a request was sent before the last one was answered

vars == <<sent, flight, buf, parser, res, st, parsed, answers, pipelined>>

----------------------------------------------------------------------------
(***************************************************************************)
(* Requests as tokens.                                                     *)
(***************************************************************************)
Token(k, part) == [req |-> k, part |-> part]

\* Every line is its text and its newline.
Lines(k, parts) ==
    [i \in 1..(2 * Len(parts)) |->
        Token(k, IF i % 2 = 0 THEN "nl" ELSE parts[(i + 1) \div 2])]

\* Request r as the k-th one on the connection.
Tokens(k, r) ==
    Lines(k, <<IF r.bad = "line" THEN "bad" ELSE "line">> \o r.headers
             \o (IF r.bad = "header" THEN <<"bad">> ELSE <<>>) \o <<"blank">>)
    \o [i \in 1..r.bytes |-> Token(k, "byte")]

From(s, n) == SubSeq(s, n, Len(s))

(***************************************************************************)
(* HttpParser.  feed() calls the three try_parse functions as long as one  *)
(* of them consumes something: that is the line, then the headers, then    *)
(* the body.  Each takes and returns the parser and the unread tokens.     *)
(***************************************************************************)
NewParser == [state |-> "LINE", line |-> 0, headers |-> {}, body |-> <<>>, files |-> <<>>]

Newlines(b) == {i \in DOMAIN b : b[i].part = "nl"}

\* A line that does not match is left in the buffer.
TryParseLine(pb) ==
    LET p == pb[1]  b == pb[2]
    IN  IF p.state = "LINE" /\ Len(b) >= 2 /\ b[1].part = "line"
        THEN <<[p EXCEPT !.state = "HEADER", !.line = b[1].req], From(b, 3)>>
        ELSE pb

\* Complete lines up to the blank one.  A line that does not match ends it all, and
\* nothing that this call read is consumed.
TryParseHeader(pb) ==
    LET p == pb[1]  b == pb[2]
        stops == {i \in Newlines(b) : b[i - 1].part \in {"blank", "bad"}}
        last == IF stops # {} THEN Min(stops) ELSE Max(Newlines(b) \cup {0})
        blank == stops # {} /\ b[last - 1].part = "blank"
        read == {b[i].part : i \in {j \in 1..last : b[j].part \in Headers}}
    IN  IF p.state # "HEADER" THEN pb
        ELSE IF stops # {} /\ ~blank THEN <<[p EXCEPT !.state = "ERROR"], b>>
        ELSE <<[p EXCEPT !.state = IF blank THEN "BODY" ELSE "HEADER",
                         !.headers = @ \cup read],
               From(b, last + 1)>>

\* The body takes all there is and is done when it has the announced length or
\* none was announced; then an uploaded file is taken out of it.  It is
\* called without data too, when the blank line was the last thing to arrive.
MutBodyNeedsData(pb) ==
    LET p == pb[1]  b == pb[2]
        body == p.body \o b
        done == Len(b) > 0 /\ ("length" \in p.headers => Len(body) = sent[p.line].bytes)
    IN  IF p.state # "BODY" THEN pb
        ELSE <<[p EXCEPT !.body = body, !.state = IF done THEN "DONE" ELSE "BODY"], <<>> >>

TryParseBody(pb) ==
    LET p == pb[1]  b == pb[2]
        body == p.body \o b
        done == "length" \in p.headers => Len(body) = sent[p.line].bytes
        file == IF done /\ "upload" \in p.headers /\ body # <<>> THEN <<p.line>> ELSE <<>>
    IN  IF p.state # "BODY" THEN pb
        ELSE <<[p EXCEPT !.body = body, !.files = @ \o file,
                         !.state = IF done THEN "DONE" ELSE "BODY"],
               <<>> >>

\* What it leads to, as a set of one element: each step is then evaluated once.
Feed(p, b) ==
    {TryParseBody(header) : header \in
        {TryParseHeader(line) : line \in {TryParseLine(<<p, b>>)}}}

\* parser_.clear(): upload_files_ stays.
MutClearKeepsHeaders(p) == [NewParser EXCEPT !.files = p.files, !.headers = p.headers]

MutClearKeepsState(p) == [NewParser EXCEPT !.files = p.files, !.state = p.state]

ClearParser(p) == [NewParser EXCEPT !.files = p.files]

ToRequest(p) == [line |-> p.line, headers |-> p.headers, body |-> p.body, files |-> p.files]
----------------------------------------------------------------------------
(***************************************************************************)
(* Response.  A body or file is known by the request it was made for.      *)
(***************************************************************************)
Content(k, n) == [of |-> k, size |-> n]
Empty == Content(0, 0)
StatusText == Content(0, 1)

NewResponse(code, body) ==
    [code |-> code, body |-> body, sendfile |-> FALSE, filesize |-> 0, file |-> 0,
     cookie |-> 0]

\* res = Response(...): the move assignment.
MutAssignKeepsFile(old, new) ==
    [new EXCEPT !.sendfile = old.sendfile, !.filesize = old.filesize, !.file = old.file]

Assign(old, new) == new

\* What a route for request k makes of the response r: send_file of a file that
\* exists or not, read_file_to_body and start_session change some members of it; a
\* function that returns a value has it replaced.
RouteEffects(k, r) ==
    [none    |-> r,
     value   |-> Assign(r, NewResponse(200, Content(k, 1))),
     file    |-> [r EXCEPT !.code = 200, !.sendfile = TRUE, !.filesize = FileSize, !.file = k],
     nofile  |-> [r EXCEPT !.code = 404],
     load    |-> [r EXCEPT !.filesize = LoadSize, !.body = Content(k, LoadSize)],
     session |-> [r EXCEPT !.cookie = k]]

\* Router::handle: a url without a rule leaves the response alone.
Handle(k, r) == RouteEffects(k, r)[sent[k].route]

\* complete_request: an error without a body gets its status text, which stays.
Completed(r) ==
    IF r.code >= 400 /\ r.body = Empty THEN [r EXCEPT !.body = StatusText] ELSE r

\* What is sent: the head with its Content-Length, then the body or the file.
MutLengthOfBody(r) ==
    [code |-> r.code, cookie |-> r.cookie, length |-> r.body.size,
     content |-> IF r.sendfile THEN Content(r.file, FileSize) ELSE r.body]

Message(r) ==
    [code |-> r.code, cookie |-> r.cookie,
     length |-> IF r.sendfile THEN r.filesize ELSE r.body.size,
     content |-> IF r.sendfile THEN Content(r.file, FileSize) ELSE r.body]
----------------------------------------------------------------------------
Init ==
    /\ sent = <<>> /\ flight = <<>> /\ buf = <<>>
    /\ parser = NewParser
    /\ res = NewResponse(200, Empty)
    /\ st = "open"
    /\ parsed = <<>> /\ answers = <<>>
    /\ pipelined = FALSE

KeepAlive(q) ==
    \/ sent[q.line].version = "1.0" /\ "keep" \in q.headers
    \/ sent[q.line].version = "1.1" /\ "close" \notin q.headers

NoHost(q) == sent[q.line].version = "1.1" /\ "host" \notin q.headers

\* A request is complete: 400 for HTTP/1.1 without a host, else the handler; the
\* response; and close() without keep-alive, which closes the connection at once or
\* leaves it in WaitClosed (module Connection).
Respond(q) ==
    LET r == Completed(IF NoHost(q) THEN Assign(res, NewResponse(400, Empty))
                                    ELSE Handle(q.line, res))
    IN  /\ res' = r
        /\ parsed' = Append(parsed, q)
        /\ answers' = Append(answers, Message(r))
        /\ IF KeepAlive(q)
           THEN UNCHANGED st
           ELSE st' \in {"waiting", "closed"}

\* handle_read after a recv of n tokens.
HandleRead(n) ==
    /\ st # "closed"
    /\ \E fed \in Feed(parser, buf \o SubSeq(flight, 1, n)) :
           /\ buf' = fed[2]
           /\ IF fed[1].state = "DONE"
              THEN /\ Respond(ToRequest(fed[1]))
                   /\ parser' = ClearParser(fed[1])
              ELSE /\ parser' = fed[1]
                   /\ UNCHANGED <<res, st, parsed, answers>>
    /\ flight' = From(flight, n + 1)
    /\ UNCHANGED <<sent, pipelined>>

\* The client sends a request, after the answer to the last one or before it.
ClientSends(r) ==
    /\ Len(sent) < MaxRequests
    /\ sent' = Append(sent, r)
    /\ flight' = flight \o Tokens(Len(sent) + 1, r)
    /\ pipelined' = (pipelined \/ Len(answers) < Len(sent))
    /\ UNCHANGED <<buf, parser, res, st, parsed, answers>>

\* The file a WaitClosed connection was sending is sent, or the peer closed.
ConnectionCloses ==
    /\ st # "closed"
    /\ st' = "closed"
    /\ UNCHANGED <<sent, flight, buf, parser, res, parsed, answers, pipelined>>

Next ==
    \/ \E n \in 1..Len(flight) : HandleRead(n)
    \/ \E r \in Requests : ClientSends(r)
    \/ ConnectionCloses

\* What was sent arrives, and the loop reads it.
Fairness == WF_vars(\E n \in 1..Len(flight) : HandleRead(n))

Spec == Init /\ [][Next]_vars

FairSpec == Spec /\ Fairness
----------------------------------------------------------------------------
\* Every variable has its type; what the parser refers to has been sent.
TypeOK ==
    /\ sent \in Seq(Requests)
    /\ parser.state \in {"LINE", "HEADER", "BODY", "ERROR"}
    /\ parser.line \in 0..Len(sent)
    /\ parser.headers \subseteq Headers
    /\ \A t \in Range(flight) \cup Range(buf) : t.req \in 1..Len(sent)
    /\ res.code \in {200, 400, 404}
    /\ st \in {"open", "waiting", "closed"}
    /\ Len(parsed) = Len(answers)

Good(k) == \A j \in 1..k : sent[j].bad = ""

\* However TCP cuts them up, requests reach the handler as they were sent and in
\* order, with their own headers and body, and none after a malformed one
\* (HttpParser::feed and clear).  Files of earlier uploads stay in upload_files_, the
\* request's own file is the last.  A client that pipelines is not covered: the body
\* of one request takes in the next.
RequestsIntact ==
    ~pipelined =>
        \A k \in DOMAIN parsed :
            LET q == parsed[k]  r == sent[k]
            IN  /\ q.line = k /\ Good(k)
                /\ q.headers = Range(r.headers)
                /\ q.body = [i \in 1..r.bytes |-> Token(k, "byte")]
                /\ "upload" \in q.headers /\ r.bytes > 0 => Last(q.files) = k

\* The i-th request had the response replaced: by a route that returns a value, or by
\* the 400 for a missing host.
Replaced(i) == NoHost(parsed[i]) \/ sent[parsed[i].line].route = "value"

\* One of the first i requests started session c, and the response was not replaced
\* since.
SessionLives(c, i) ==
    \E j \in 1..i :
        /\ parsed[j].line = c
        /\ sent[parsed[j].line].route = "session"
        /\ \A m \in j..i : ~Replaced(m)

\* Of the Response that the connection keeps from request to request
\* (Response::operator=, send_file, start_session) an answer shows this much: the 400
\* for a missing host and the value a route returns are made of their own request
\* alone; a file is the one its own request asked for; and a Set-Cookie header is that
\* of a session that this request started or an earlier one whose response no other
\* has replaced.  The last holds of file answers too: send_file leaves the headers
\* alone, so they may repeat the Set-Cookie of an earlier request.
OwnAnswer ==
    \A i \in DOMAIN parsed :
        LET q == parsed[i]  k == q.line  a == answers[i]  route == sent[k].route
        IN  /\ NoHost(q) => a.code = 400 /\ a.content = StatusText /\ a.cookie = 0
            /\ ~NoHost(q) /\ route = "value" =>
                   a.code = 200 /\ a.content = Content(k, 1) /\ a.cookie = 0
            /\ ~NoHost(q) /\ route = "file" =>
                   a.code = 200 /\ a.content = Content(k, FileSize)
            /\ ~NoHost(q) /\ route = "session" => a.cookie = k
            /\ a.cookie # 0 => SessionLives(a.cookie, i)

Used(route, i) == \E j \in 1..i : sent[parsed[j].line].route = route

\* The Content-Length of every answer is the length of what follows it, so that the
\* client finds the next answer, unless routes that use send_file and routes that
\* use read_file_to_body, which share filesize, meet on one connection.
LengthRight ==
    \A i \in DOMAIN answers :
        ~(Used("file", i) /\ Used("load", i)) => answers[i].length = answers[i].content.size

\* Every well-formed request is answered once its bytes have arrived, also when the
\* blank line is the last of them, if the client does not pipeline and the
\* connection stays open.
Answered ==
    \A k \in 1..MaxRequests :
        (Len(sent) >= k /\ Good(k)) ~> (Len(answers) >= k \/ pipelined \/ st = "closed")
============================================================================
