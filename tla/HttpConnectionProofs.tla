------------------------ MODULE HttpConnectionProofs ------------------------
(***************************************************************************)
(* Proofs about HttpConnection: for requests with any headers, a body of   *)
(* any length and any number of them, however TCP cuts them up.            *)
(***************************************************************************)
EXTENDS HttpConnection, SequenceTheorems, NaturalsInduction, WellFoundedInduction, TLAPS

(***************************************************************************)
(* Types.  n is the number of requests sent.                               *)
(***************************************************************************)
Parts == Headers \cup {"line", "bad", "blank", "nl", "byte"}

TokenType(n) == [req : 1..n, part : Parts]

ParserType(n) ==
    [state : {"LINE", "HEADER", "BODY", "ERROR", "DONE"}, line : 0..n,
     headers : SUBSET Headers, body : Seq(TokenType(n)), files : Seq(0..n)]

\* Once the request line is read the parser knows which request it is.
ParserOK(p, n) == p \in ParserType(n) /\ (p.state # "LINE" => p.line # 0)

\* What the try_parse functions hand on to each other.
Fed(pb, n) == pb = <<pb[1], pb[2]>> /\ ParserOK(pb[1], n) /\ pb[2] \in Seq(TokenType(n))

QueryType(n) ==
    [line : 1..n, headers : SUBSET Headers, body : Seq(TokenType(n)), files : Seq(0..n)]

ContentType == [of : Nat, size : Nat]

ResponseType ==
    [code : {200, 400, 404}, body : ContentType, sendfile : BOOLEAN, filesize : Nat,
     file : Nat, cookie : Nat]

AnswerType == [code : {200, 400, 404}, cookie : Nat, length : Nat, content : ContentType]

Typed(s, f, b, p, r, c, q, a) ==
    /\ s \in Seq(Requests)
    /\ f \in Seq(TokenType(Len(s)))
    /\ b \in Seq(TokenType(Len(s)))
    /\ ParserOK(p, Len(s)) /\ p.state # "DONE"
    /\ r \in ResponseType
    /\ c \in {"open", "waiting", "closed"}
    /\ q \in Seq(QueryType(Len(s)))
    /\ a \in Seq(AnswerType)
    /\ Len(q) = Len(a)

(***************************************************************************)
(* What OwnAnswer and LengthRight say of one answer, and what the response *)
(* that stays on the connection has to satisfy for the next one.           *)
(***************************************************************************)
HostMissing(s, q) == s[q.line].version = "1.1" /\ "host" \notin q.headers

Own(s, q, a) ==
    /\ HostMissing(s, q) => a.code = 400 /\ a.content = StatusText /\ a.cookie = 0
    /\ ~HostMissing(s, q) /\ s[q.line].route = "value" =>
           a.code = 200 /\ a.content = Content(q.line, 1) /\ a.cookie = 0
    /\ ~HostMissing(s, q) /\ s[q.line].route = "file" =>
           a.code = 200 /\ a.content = Content(q.line, FileSize)
    /\ ~HostMissing(s, q) /\ s[q.line].route = "session" => a.cookie = q.line

AllOwn(s, q, a) == \A i \in 1..Len(q) : Own(s, q[i], a[i])

ReplacedIn(s, q, i) == HostMissing(s, q[i]) \/ s[q[i].line].route = "value"

SessionIn(s, q, c, i) ==
    \E j \in 1..i :
        /\ q[j].line = c
        /\ s[q[j].line].route = "session"
        /\ \A m \in j..i : ~ReplacedIn(s, q, m)

AllCookies(s, q, a) == \A i \in 1..Len(q) : a[i].cookie # 0 => SessionIn(s, q, a[i].cookie, i)

\* The Set-Cookie header that the response keeps.
CookieKept(s, q, r) == r.cookie # 0 => SessionIn(s, q, r.cookie, Len(q))

UsedIn(s, q, route, i) == \E j \in 1..i : s[q[j].line].route = route

Measured(s, q, a, i) ==
    ~(UsedIn(s, q, "file", i) /\ UsedIn(s, q, "load", i)) => a[i].length = a[i].content.size

AllMeasured(s, q, a) == \A i \in 1..Len(q) : Measured(s, q, a, i)

\* A response that sends a file does so since a route asked for it, and has its size
\* unless a route has overwritten filesize.
Sized(s, q, r) ==
    r.sendfile =>
        /\ UsedIn(s, q, "file", Len(q))
        /\ UsedIn(s, q, "load", Len(q)) \/ r.filesize = FileSize

(***************************************************************************)
(* Where the parser is in the k-th request r, when its tokens are T.       *)
(***************************************************************************)

\* The lines of a request; its last one is the blank line.
LinesOf(r) ==
    <<IF r.bad = "line" THEN "bad" ELSE "line">> \o r.headers
        \o (IF r.bad = "header" THEN <<"bad">> ELSE <<>>) \o <<"blank">>

\* b and then f hold what T has behind its first j tokens.
Unread(T, j, b, f) ==
    /\ Len(b) + Len(f) = Len(T) - j
    /\ \A i \in 1..Len(b) : b[i] = T[j + i]
    /\ \A i \in 1..Len(f) : f[i] = T[(j + Len(b)) + i]

FirstHeaders(r, c) == {r.headers[i] : i \in 1..c}

AtLine(k, r, p, b, f) ==
    /\ p.state = "LINE"
    /\ Unread(Tokens(k, r), 0, b, f)
    /\ p.headers = {} /\ p.body = <<>>

\* c lines are read, the request line among them.
AtHeader(k, r, c, p, b, f) ==
    /\ p.state = "HEADER" /\ p.line = k /\ r.bad # "line"
    /\ c \in 1..(Len(r.headers) + 1)
    /\ Unread(Tokens(k, r), 2 * c, b, f)
    /\ p.headers = FirstHeaders(r, c - 1) /\ p.body = <<>>

AtBody(k, r, p, b, f) ==
    /\ p.state = "BODY" /\ p.line = k /\ r.bad = ""
    /\ p.headers = Range(r.headers)
    /\ \A i \in 1..Len(p.body) : p.body[i] = Token(k, "byte")
    /\ Unread(Tokens(k, r), 2 * (Len(r.headers) + 2) + Len(p.body), b, f)

AtEnd(k, r, p, b, f) ==
    /\ p.state = "DONE" /\ p.line = k /\ r.bad = ""
    /\ p.headers = Range(r.headers)
    /\ p.body = [i \in 1..r.bytes |-> Token(k, "byte")]
    /\ "upload" \in p.headers /\ r.bytes > 0 => Last(p.files) = k
    /\ b = <<>> /\ f = <<>>

Underway(k, r, p, b, f) ==
    \/ AtLine(k, r, p, b, f)
    \/ \E c \in Nat : AtHeader(k, r, c, p, b, f)
    \/ AtBody(k, r, p, b, f) /\ b = <<>>
    \/ p.state = "ERROR"

Idle(p, b, f) ==
    /\ p.state = "LINE" /\ p.headers = {} /\ p.body = <<>>
    /\ b = <<>> /\ f = <<>>

AllGood(s, k) == \A j \in 1..k : s[j].bad = ""

Intact(s, k, q) ==
    /\ q.line = k /\ AllGood(s, k)
    /\ q.headers = Range(s[k].headers)
    /\ q.body = [i \in 1..s[k].bytes |-> Token(k, "byte")]
    /\ "upload" \in q.headers /\ s[k].bytes > 0 => Last(q.files) = k

AllIntact(s, q) == \A k \in 1..Len(q) : Intact(s, k, q[k])

\* A client that does not pipeline has at most one request that is not answered.
OneByOne(s, f, b, p, q) ==
    /\ AllIntact(s, q)
    /\ \/ Len(q) = Len(s) /\ Idle(p, b, f)
       \/ Len(s) = Len(q) + 1 /\ Underway(Len(s), s[Len(s)], p, b, f)

\* The inductive invariant.
HttpInv ==
    /\ Typed(sent, flight, buf, parser, res, st, parsed, answers)
    /\ AllOwn(sent, parsed, answers)
    /\ AllMeasured(sent, parsed, answers)
    /\ Sized(sent, parsed, res)
    /\ AllCookies(sent, parsed, answers)
    /\ CookieKept(sent, parsed, res)
    /\ pipelined \/ OneByOne(sent, flight, buf, parser, parsed)

(***************************************************************************)
(* Sequences and sets of numbers.                                          *)
(***************************************************************************)

\* Its elements.
LEMMA Elements ==
    ASSUME NEW S, NEW s \in Seq(S)
    PROVE  Len(s) \in Nat /\ DOMAIN s = 1..Len(s) /\ \A i \in 1..Len(s) : s[i] \in S
BY LenProperties, ElementOfSeq

\* A prefix and what is behind it.
LEMMA Cut ==
    ASSUME NEW S, NEW s \in Seq(S), NEW n \in 0..Len(s)
    PROVE  /\ Len(s) \in Nat
           /\ SubSeq(s, 1, n) \in Seq(S) /\ Len(SubSeq(s, 1, n)) = n
           /\ \A i \in 1..n : SubSeq(s, 1, n)[i] = s[i]
           /\ From(s, n + 1) \in Seq(S) /\ Len(From(s, n + 1)) = Len(s) - n
           /\ \A i \in 1..(Len(s) - n) : From(s, n + 1)[i] = s[n + i]
<1>1. Len(s) \in Nat /\ \A i \in 1..Len(s) : s[i] \in S
  OBVIOUS
<1>2. /\ SubSeq(s, 1, n) \in Seq(S) /\ Len(SubSeq(s, 1, n)) = n
      /\ \A i \in 1..n : SubSeq(s, 1, n)[i] = s[i]
  BY <1>1
<1>3. /\ From(s, n + 1) \in Seq(S) /\ Len(From(s, n + 1)) = Len(s) - n
      /\ \A i \in 1..(Len(s) - n) : From(s, n + 1)[i] = s[n + i]
  BY <1>1 DEF From
<1> QED
  BY <1>1, <1>2, <1>3

\* Two sequences joined.
IsJoin(s, t, u) ==
    /\ Len(u) = Len(s) + Len(t)
    /\ \A i \in 1..Len(s) : u[i] = s[i]
    /\ \A i \in 1..Len(t) : u[Len(s) + i] = t[i]

\* s and then t.
LEMMA Joined ==
    ASSUME NEW S, NEW s \in Seq(S), NEW t \in Seq(S)
    PROVE  s \o t \in Seq(S) /\ IsJoin(s, t, s \o t)
  BY DEF IsJoin

\* One element more.
LEMMA Longer ==
    ASSUME NEW S, NEW s \in Seq(S), NEW e \in S
    PROVE  /\ Len(s) \in Nat
           /\ Append(s, e) \in Seq(S) /\ Len(Append(s, e)) = Len(s) + 1
           /\ \A i \in 1..Len(s) : Append(s, e)[i] = s[i]
           /\ Append(s, e)[Len(s) + 1] = e
  OBVIOUS

\* A sequence of length 0.
LEMMA NoElements ==
    ASSUME NEW S, NEW s \in Seq(S), Len(s) = 0
    PROVE  s = <<>>
BY EmptySeq

\* A function on 1..n is a sequence.
LEMMA SequenceFromFunction ==
    ASSUME NEW S, NEW n \in Nat, NEW f \in [1..n -> S]
    PROVE  f \in Seq(S) /\ Len(f) = n
  OBVIOUS

\* A set of numbers that is not empty has a least element.
LEMMA LeastExists ==
    ASSUME NEW S \in SUBSET Nat, S # {}
    PROVE  \E e \in S : \A d \in S : e <= d
<1>1. PICK e \in S : \A d \in S : ~(<<d, e>> \in OpToRel(<, Nat))
  BY NatLessThanWellFounded, WFMin
<1>2. ASSUME NEW d \in S PROVE e <= d
  <2>1. <<d, e>> \notin OpToRel(<, Nat)
    BY <1>1
  <2>2. ~(d < e)
    BY <2>1 DEF OpToRel
  <2> QED
    BY <2>2
<1> QED
  BY <1>2

\* Min picks it.
LEMMA MinIsLeast ==
    ASSUME NEW S \in SUBSET Nat, S # {}
    PROVE  Min(S) \in S /\ \A d \in S : Min(S) <= d
<1>1. \E e \in S : \A d \in S : e <= d
  BY LeastExists
<1> QED
  BY <1>1 DEF Min

\* A bounded one has a greatest element, and Max picks it.
LEMMA MaxIsGreatest ==
    ASSUME NEW n \in Nat, NEW S \in SUBSET 0..n, S # {}
    PROVE  Max(S) \in S /\ \A d \in S : d <= Max(S)
<1> DEFINE D == {e \in Nat : \E i \in S : e = n - i}
<1>1. D \in SUBSET Nat /\ D # {}
  <2>1. PICK i \in S : TRUE
    OBVIOUS
  <2>2. n - i \in D
    OBVIOUS
  <2> QED
    BY <2>2
<1>2. PICK e \in D : \A d \in D : e <= d
  BY <1>1, LeastExists
<1>3. PICK i \in S : e = n - i
  OBVIOUS
<1>4. ASSUME NEW d \in S PROVE i >= d
  <2>1. n - d \in D
    OBVIOUS
  <2>2. e <= n - d
    BY <1>2, <2>1
  <2> QED
    BY <1>3, <2>2
<1>5. \E x \in S : \A y \in S : x >= y
  BY <1>4
<1>6. Max(S) \in S /\ \A y \in S : Max(S) >= y
  BY <1>5 DEF Max
<1>7. ASSUME NEW d \in S PROVE d <= Max(S)
  BY <1>6
<1> QED
  BY <1>6, <1>7

(***************************************************************************)
(* The tokens of a request.                                                *)
(***************************************************************************)

\* What the assumption says of one request.
LEMMA RequestFields ==
    ASSUME NEW r \in Requests
    PROVE  /\ r.headers \in Seq(Headers) /\ Len(r.headers) \in Nat
           /\ \A i \in 1..Len(r.headers) : r.headers[i] \in Headers
           /\ r.bytes \in Nat
           /\ r.bad \in {"", "line", "header"}
           /\ r.route \in Routes
           /\ r.bytes > 0 => "length" \in Range(r.headers)
<1>1. r \in RequestType
  BY HttpAssumption
<1>2. /\ r.headers \in Seq(Headers) /\ r.bytes \in Nat
      /\ r.bad \in {"", "line", "header"} /\ r.route \in Routes
  BY <1>1 DEF RequestType
<1>3. Len(r.headers) \in Nat /\ \A i \in 1..Len(r.headers) : r.headers[i] \in Headers
  BY <1>2, Elements
<1>4. r.bytes > 0 => "length" \in Range(r.headers)
  BY HttpAssumption
<1> QED
  BY <1>2, <1>3, <1>4

\* The lines: request line, headers, a bad one if any, blank line.
LEMMA LinesOfRequest ==
    ASSUME NEW r \in Requests
    PROVE  /\ LinesOf(r) \in Seq(Parts)
           /\ Len(LinesOf(r)) = Len(r.headers) + (IF r.bad = "header" THEN 3 ELSE 2)
           /\ LinesOf(r)[1] = IF r.bad = "line" THEN "bad" ELSE "line"
           /\ \A i \in 1..Len(r.headers) : LinesOf(r)[i + 1] = r.headers[i]
           /\ r.bad = "header" => LinesOf(r)[Len(r.headers) + 2] = "bad"
           /\ LinesOf(r)[Len(LinesOf(r))] = "blank"
<1> DEFINE h == r.headers
           a == <<IF r.bad = "line" THEN "bad" ELSE "line">>
           z == IF r.bad = "header" THEN <<"bad">> ELSE <<>>
<1>1. /\ h \in Seq(Headers) /\ Len(h) \in Nat
      /\ \A i \in 1..Len(h) : h[i] \in Headers
  BY RequestFields
<1>2. h \in Seq(Parts)
  <2>1. Headers \subseteq Parts
    BY DEF Parts
  <2> QED
    BY <1>1, <2>1, SeqMonotonic
<1>3. /\ a \in Seq(Parts) /\ Len(a) = 1 /\ a[1] = IF r.bad = "line" THEN "bad" ELSE "line"
      /\ z \in Seq(Parts) /\ Len(z) = (IF r.bad = "header" THEN 1 ELSE 0)
      /\ r.bad = "header" => z[1] = "bad"
      /\ <<"blank">> \in Seq(Parts)
  <2>1. \A e \in Parts : <<e>> \in Seq(Parts) /\ Len(<<e>>) = 1 /\ <<e>>[1] = e
    OBVIOUS
  <2>2. "bad" \in Parts /\ "line" \in Parts /\ "blank" \in Parts
    BY DEF Parts
  <2>3. <<>> \in Seq(Parts) /\ Len(<<>>) = 0
    OBVIOUS
  <2>4. CASE r.bad = "header"
    BY <2>1, <2>2, <2>4
  <2>5. CASE r.bad # "header"
    BY <2>1, <2>2, <2>3, <2>5
  <2> QED
    BY <2>4, <2>5
<1>4. LinesOf(r) = ((a \o h) \o z) \o <<"blank">>
  BY DEF LinesOf
<1> HIDE DEF a, z, h
<1> DEFINE ah == a \o h
           ahz == ah \o z
<1>5. /\ ah \in Seq(Parts) /\ Len(ah) = 1 + Len(h) /\ ah[1] = a[1]
      /\ \A i \in 1..Len(h) : ah[i + 1] = h[i]
  <2>1. /\ ah \in Seq(Parts) /\ Len(ah) = Len(a) + Len(h)
        /\ \A i \in 1..Len(a) : ah[i] = a[i]
        /\ \A i \in 1..Len(h) : ah[Len(a) + i] = h[i]
    <3>1. ah \in Seq(Parts) /\ IsJoin(a, h, ah)
      BY <1>2, <1>3, Joined, Zenon
    <3> QED
      BY <3>1 DEF IsJoin
  <2> QED
    BY <1>1, <1>3, <2>1
<1> HIDE DEF ah
<1>6. /\ ahz \in Seq(Parts) /\ Len(ahz) = Len(ah) + Len(z)
      /\ \A i \in 1..Len(ah) : ahz[i] = ah[i]
      /\ r.bad = "header" => ahz[Len(ah) + 1] = z[1]
  <2>1. /\ ahz \in Seq(Parts) /\ Len(ahz) = Len(ah) + Len(z)
        /\ \A i \in 1..Len(ah) : ahz[i] = ah[i]
        /\ \A i \in 1..Len(z) : ahz[Len(ah) + i] = z[i]
    BY <1>3, <1>5, Joined DEF IsJoin
  <2> QED
    BY <1>3, <2>1
<1> HIDE DEF ahz
<1>7. LinesOf(r) = ahz \o <<"blank">>
  BY <1>4 DEF ahz, ah
<1>8. /\ LinesOf(r) \in Seq(Parts) /\ Len(LinesOf(r)) = Len(ahz) + 1
      /\ \A i \in 1..Len(ahz) : LinesOf(r)[i] = ahz[i]
      /\ LinesOf(r)[Len(ahz) + 1] = "blank"
  BY <1>3, <1>6, <1>7
<1>9. Len(LinesOf(r)) = Len(h) + (IF r.bad = "header" THEN 3 ELSE 2)
  BY <1>1, <1>3, <1>5, <1>6, <1>8
<1>10. LinesOf(r)[1] = IF r.bad = "line" THEN "bad" ELSE "line"
  BY <1>1, <1>3, <1>5, <1>6, <1>8
<1>11. ASSUME NEW i \in 1..Len(h) PROVE LinesOf(r)[i + 1] = h[i]
  <2>1. i + 1 \in 1..Len(ah) /\ i + 1 \in 1..Len(ahz)
    BY <1>1, <1>3, <1>5, <1>6
  <2> QED
    BY <1>5, <1>6, <1>8, <2>1
<1>12. ASSUME r.bad = "header" PROVE LinesOf(r)[Len(h) + 2] = "bad"
  <2>1. Len(h) + 2 = Len(ah) + 1 /\ Len(h) + 2 \in 1..Len(ahz)
    BY <1>1, <1>3, <1>5, <1>6, <1>12
  <2> QED
    BY <1>3, <1>6, <1>8, <1>12, <2>1
<1> QED
  BY <1>8, <1>9, <1>10, <1>11, <1>12 DEF h

\* A token as a record.
LEMMA TokenFields ==
    ASSUME NEW k, NEW part
    PROVE  Token(k, part).req = k /\ Token(k, part).part = part
BY DEF Token

\* A line takes two tokens, its text and its newline.
LEMMA LineTokens ==
    ASSUME NEW n \in Nat, NEW k \in 1..n, NEW P \in Seq(Parts)
    PROVE  /\ Lines(k, P) \in Seq(TokenType(n)) /\ Len(Lines(k, P)) = 2 * Len(P)
           /\ \A c \in 1..Len(P) : /\ Lines(k, P)[2 * c - 1] = Token(k, P[c])
                                   /\ Lines(k, P)[2 * c] = Token(k, "nl")
<1> DEFINE m == Len(P)
           F(i) == IF i % 2 = 0 THEN "nl" ELSE P[(i + 1) \div 2]
           L == [i \in 1..(2 * m) |-> Token(k, F(i))]
<1>1. m \in Nat /\ \A i \in 1..m : P[i] \in Parts
  BY Elements
<1>2. Lines(k, P) = L
  BY DEF Lines
<1>3. ASSUME NEW i \in 1..(2 * m) PROVE Token(k, F(i)) \in TokenType(n)
  <2>1. i % 2 # 0 => (i + 1) \div 2 \in 1..m
    BY <1>1
  <2>2. F(i) \in Parts
    BY <1>1, <2>1 DEF Parts
  <2> QED
    BY <2>2 DEF Token, TokenType
<1>4. L \in [1..(2 * m) -> TokenType(n)]
  BY <1>3
<1>5. 2 * m \in Nat
  BY <1>1
<1>6. L \in Seq(TokenType(n)) /\ Len(L) = 2 * m
  <2> HIDE DEF L
  <2> QED
    BY <1>4, <1>5, SequenceFromFunction
<1>7. ASSUME NEW c \in 1..m PROVE L[2 * c - 1] = Token(k, P[c]) /\ L[2 * c] = Token(k, "nl")
  <2>1. /\ 2 * c - 1 \in 1..(2 * m) /\ (2 * c - 1) % 2 # 0 /\ ((2 * c - 1) + 1) \div 2 = c
        /\ 2 * c \in 1..(2 * m) /\ (2 * c) % 2 = 0
    BY <1>1
  <2>2. L[2 * c - 1] = Token(k, F(2 * c - 1)) /\ L[2 * c] = Token(k, F(2 * c))
    BY <2>1
  <2>3. F(2 * c - 1) = P[c] /\ F(2 * c) = "nl"
    BY <2>1
  <2> QED
    BY <2>2, <2>3
<1> QED
  BY <1>2, <1>6, <1>7

\* The bytes of a body.
Bytes(k, n) == [i \in 1..n |-> Token(k, "byte")]

\* A body is a sequence of byte tokens.
LEMMA BytesAreTokens ==
    ASSUME NEW n \in Nat, NEW k \in 1..n, NEW l \in Nat
    PROVE  /\ Bytes(k, l) \in Seq(TokenType(n)) /\ Len(Bytes(k, l)) = l
           /\ \A i \in 1..l : Bytes(k, l)[i] = Token(k, "byte")
<1>1. Token(k, "byte") \in TokenType(n)
  BY DEF Token, TokenType, Parts
<1>2. Bytes(k, l) \in [1..l -> TokenType(n)]
  BY <1>1 DEF Bytes
<1> QED
  BY <1>2, SequenceFromFunction DEF Bytes

\* All tokens of a request, by position.
Token2(T, k, P, c) == T[2 * c - 1] = Token(k, P[c]) /\ T[2 * c] = Token(k, "nl")

\* Two tokens for each line, the line and its newline, and then the bytes of the body.
LEMMA TokensOfRequest ==
    ASSUME NEW n \in Nat, NEW k \in 1..n, NEW r \in Requests
    PROVE  /\ Tokens(k, r) \in Seq(TokenType(n))
           /\ Len(Tokens(k, r)) = 2 * Len(LinesOf(r)) + r.bytes
           /\ \A c \in 1..Len(LinesOf(r)) : Token2(Tokens(k, r), k, LinesOf(r), c)
           /\ \A i \in 1..r.bytes : Tokens(k, r)[2 * Len(LinesOf(r)) + i] = Token(k, "byte")
<1> DEFINE P == LinesOf(r)
           m == Len(P)
           L == Lines(k, P)
           B == Bytes(k, r.bytes)
           T == L \o B
<1>1. P \in Seq(Parts) /\ m \in Nat /\ r.bytes \in Nat
  BY LinesOfRequest, RequestFields, Elements
<1>2. Tokens(k, r) = T
  BY DEF Tokens, LinesOf, Bytes
<1>3. /\ L \in Seq(TokenType(n)) /\ Len(L) = 2 * m
      /\ \A c \in 1..m : L[2 * c - 1] = Token(k, P[c]) /\ L[2 * c] = Token(k, "nl")
  BY <1>1, LineTokens
<1>4. /\ B \in Seq(TokenType(n)) /\ Len(B) = r.bytes
      /\ \A i \in 1..r.bytes : B[i] = Token(k, "byte")
  BY <1>1, BytesAreTokens
<1> HIDE DEF L, B, P
<1>5. /\ T \in Seq(TokenType(n)) /\ Len(T) = Len(L) + Len(B)
      /\ \A i \in 1..Len(L) : T[i] = L[i]
      /\ \A i \in 1..Len(B) : T[Len(L) + i] = B[i]
  <2>1. L \in Seq(TokenType(n)) /\ B \in Seq(TokenType(n))
    BY <1>3, <1>4
  <2> QED
    BY <2>1, Joined DEF IsJoin
<1> HIDE DEF T
<1>6. ASSUME NEW c \in 1..m PROVE Token2(T, k, P, c)
  <2>1. 2 * c - 1 \in 1..(2 * m) /\ 2 * c \in 1..(2 * m)
    BY <1>1
  <2>2. T[2 * c - 1] = L[2 * c - 1] /\ T[2 * c] = L[2 * c]
    BY <1>3, <1>5, <2>1
  <2> QED
    BY <1>3, <2>2 DEF Token2
<1>7. ASSUME NEW i \in 1..r.bytes PROVE T[2 * m + i] = Token(k, "byte")
  BY <1>3, <1>4, <1>5
<1> QED
  BY <1>2, <1>3, <1>4, <1>5, <1>6, <1>7 DEF P

(***************************************************************************)
(* Unread tokens.                                                          *)
(***************************************************************************)

\* What recv takes from the wire it puts behind what the buffer holds.
LEMMA Received ==
    ASSUME NEW S, NEW T \in Seq(S), NEW b \in Seq(S), NEW f \in Seq(S),
           NEW j \in Nat, Unread(T, j, b, f), NEW n \in 1..Len(f)
    PROVE  Unread(T, j, b \o SubSeq(f, 1, n), From(f, n + 1))
<1> DEFINE a == SubSeq(f, 1, n)
           z == From(f, n + 1)
           ba == b \o a
<1>0. Len(b) \in Nat /\ Len(f) \in Nat /\ n \in 0..Len(f) /\ Len(T) \in Nat
  BY Elements
<1>1. /\ a \in Seq(S) /\ Len(a) = n /\ \A i \in 1..n : a[i] = f[i]
      /\ z \in Seq(S) /\ Len(z) = Len(f) - n /\ \A i \in 1..(Len(f) - n) : z[i] = f[n + i]
  BY <1>0, Cut
<1> HIDE DEF a, z
<1>2. /\ ba \in Seq(S) /\ Len(ba) = Len(b) + n
      /\ \A i \in 1..Len(b) : ba[i] = b[i]
      /\ \A i \in 1..n : ba[Len(b) + i] = a[i]
  <2>1. a \in Seq(S) /\ Len(a) = n
    BY <1>1
  <2>2. /\ ba \in Seq(S) /\ Len(ba) = Len(b) + Len(a)
        /\ \A i \in 1..Len(b) : ba[i] = b[i]
        /\ \A i \in 1..Len(a) : ba[Len(b) + i] = a[i]
    <3>1. ba \in Seq(S) /\ IsJoin(b, a, ba)
      BY <2>1, Joined
    <3> QED
      BY <3>1 DEF IsJoin
  <2> QED
    BY <2>1, <2>2
<1> HIDE DEF ba
<1>3. Len(ba) + Len(z) = Len(T) - j
  <2>1. Len(b) + Len(f) = Len(T) - j
    BY DEF Unread
  <2>2. Len(ba) = Len(b) + n /\ Len(z) = Len(f) - n
    BY <1>1, <1>2, Zenon
  <2>3. (Len(b) + n) + (Len(f) - n) = Len(b) + Len(f)
    BY <1>0
  <2> QED
    BY <2>1, <2>2, <2>3, Zenon
<1>4. ASSUME NEW i \in 1..Len(ba) PROVE ba[i] = T[j + i]
  <2>1. CASE i <= Len(b)
    <3>1. i \in 1..Len(b)
      BY <1>0, <1>2, <2>1
    <3> QED
      BY <1>2, <3>1 DEF Unread
  <2>2. CASE ~(i <= Len(b))
    <3>1. i - Len(b) \in 1..n /\ Len(b) + (i - Len(b)) = i /\ i - Len(b) \in 1..Len(f)
      BY <1>0, <1>2, <2>2
    <3>2. ba[i] = f[i - Len(b)]
      BY <1>1, <1>2, <3>1
    <3>3. f[i - Len(b)] = T[(j + Len(b)) + (i - Len(b))]
      BY <3>1 DEF Unread
    <3>4. (j + Len(b)) + (i - Len(b)) = j + i
      BY <1>0, <1>2
    <3> QED
      BY <3>2, <3>3, <3>4
  <2> QED
    BY <2>1, <2>2
<1>5. ASSUME NEW i \in 1..Len(z) PROVE z[i] = T[(j + Len(ba)) + i]
  <2>1. i \in 1..(Len(f) - n) /\ n + i \in 1..Len(f)
    BY <1>0, <1>1
  <2>2. z[i] = T[(j + Len(b)) + (n + i)]
    BY <1>1, <2>1 DEF Unread
  <2>3. (j + Len(b)) + (n + i) = (j + Len(ba)) + i
    BY <1>0, <1>2
  <2> QED
    BY <2>2, <2>3
<1>6. Unread(T, j, ba, z)
  BY <1>3, <1>4, <1>5 DEF Unread
<1> QED
  BY <1>6 DEF ba, a, z

\* What the parser consumes is gone from the front.
LEMMA Consumed ==
    ASSUME NEW S, NEW T \in Seq(S), NEW b \in Seq(S), NEW f \in Seq(S),
           NEW j \in Nat, Unread(T, j, b, f), NEW n \in 0..Len(b)
    PROVE  Unread(T, j + n, From(b, n + 1), f)
<1> DEFINE z == From(b, n + 1)
<1>0. Len(b) \in Nat /\ Len(f) \in Nat /\ Len(T) \in Nat
  BY Elements
<1>1. /\ z \in Seq(S) /\ Len(z) = Len(b) - n
      /\ \A i \in 1..(Len(b) - n) : z[i] = b[n + i]
  BY Cut
<1> HIDE DEF z
<1>2. Len(z) + Len(f) = Len(T) - (j + n)
  BY <1>0, <1>1 DEF Unread
<1>3. ASSUME NEW i \in 1..Len(z) PROVE z[i] = T[(j + n) + i]
  <2>1. i \in 1..(Len(b) - n) /\ n + i \in 1..Len(b) /\ j + (n + i) = (j + n) + i
    BY <1>0, <1>1
  <2> QED
    BY <1>1, <2>1 DEF Unread
<1>4. (j + n) + Len(z) = j + Len(b)
  BY <1>0, <1>1
<1>5. ASSUME NEW i \in 1..Len(f) PROVE f[i] = T[((j + n) + Len(z)) + i]
  BY <1>4 DEF Unread
<1>6. Unread(T, j + n, z, f)
  BY <1>2, <1>3, <1>5 DEF Unread
<1> QED
  BY <1>6 DEF z

(***************************************************************************)
(* The parser's functions, one by one: what they return, and its type.     *)
(***************************************************************************)
Parser(state, line, headers, body, files) ==
    [state |-> state, line |-> line, headers |-> headers, body |-> body, files |-> files]

\* A parser and its members.
LEMMA ParserFields ==
    ASSUME NEW n, NEW p \in ParserType(n)
    PROVE  /\ p = Parser(p.state, p.line, p.headers, p.body, p.files)
           /\ p.state \in {"LINE", "HEADER", "BODY", "ERROR", "DONE"}
           /\ p.line \in 0..n /\ p.headers \in SUBSET Headers
           /\ p.body \in Seq(TokenType(n)) /\ p.files \in Seq(0..n)
BY DEF ParserType, Parser

\* Members of the right types make a parser.
LEMMA ParserMade ==
    ASSUME NEW n, NEW a \in {"LINE", "HEADER", "BODY", "ERROR", "DONE"}, NEW l \in 0..n,
           NEW h \in SUBSET Headers, NEW d \in Seq(TokenType(n)), NEW f \in Seq(0..n)
    PROVE  /\ Parser(a, l, h, d, f) \in ParserType(n)
           /\ Parser(a, l, h, d, f).state = a /\ Parser(a, l, h, d, f).line = l
           /\ Parser(a, l, h, d, f).headers = h /\ Parser(a, l, h, d, f).body = d
           /\ Parser(a, l, h, d, f).files = f
BY DEF ParserType, Parser

\* Members set, one at a time and as the functions do it.
SetState(p, x) == [p EXCEPT !.state = x]
SetLine(p, x) == [p EXCEPT !.line = x]
AddHeaders(p, x) == [p EXCEPT !.headers = @ \cup x]
SetBody(p, x) == [p EXCEPT !.body = x]
AddFiles(p, x) == [p EXCEPT !.files = @ \o x]

LineSet(p, s, x) == [p EXCEPT !.state = s, !.line = x]
HeadersSet(p, s, x) == [p EXCEPT !.state = s, !.headers = @ \cup x]
BodySet(p, s, x, y) == [p EXCEPT !.body = x, !.files = @ \o y, !.state = s]

\* One assignment to a member of the parser changes that member and no other: its state.
LEMMA StateSet ==
    ASSUME NEW a, NEW l, NEW h, NEW d, NEW f, NEW x
    PROVE  SetState(Parser(a, l, h, d, f), x) = Parser(x, l, h, d, f)
BY DEF Parser, SetState

\* Its request line.
LEMMA LineNumberSet ==
    ASSUME NEW a, NEW l, NEW h, NEW d, NEW f, NEW x
    PROVE  SetLine(Parser(a, l, h, d, f), x) = Parser(a, x, h, d, f)
BY DEF Parser, SetLine

\* Its headers.
LEMMA HeadersAdded ==
    ASSUME NEW a, NEW l, NEW h, NEW d, NEW f, NEW x
    PROVE  AddHeaders(Parser(a, l, h, d, f), x) = Parser(a, l, h \cup x, d, f)
BY DEF Parser, AddHeaders

\* Its body.
LEMMA BodyReplaced ==
    ASSUME NEW a, NEW l, NEW h, NEW d, NEW f, NEW x
    PROVE  SetBody(Parser(a, l, h, d, f), x) = Parser(a, l, h, x, f)
BY DEF Parser, SetBody

\* Its files.
LEMMA FilesAdded ==
    ASSUME NEW a, NEW l, NEW h, NEW d, NEW f, NEW x
    PROVE  AddFiles(Parser(a, l, h, d, f), x) = Parser(a, l, h, d, f \o x)
BY DEF Parser, AddFiles

\* The assignments of try_parse_line and try_parse_header, together.
LEMMA MembersSet ==
    ASSUME NEW n, NEW p \in ParserType(n), NEW s, NEW x
    PROVE  /\ SetState(p, s) = Parser(s, p.line, p.headers, p.body, p.files)
           /\ LineSet(p, s, x) = Parser(s, x, p.headers, p.body, p.files)
           /\ HeadersSet(p, s, x) = Parser(s, p.line, p.headers \cup x, p.body, p.files)
<1> DEFINE a == p.state
           l == p.line
           h == p.headers
           d == p.body
           f == p.files
<1>1. p = Parser(a, l, h, d, f)
  BY ParserFields
<1>2. LineSet(p, s, x) = SetLine(SetState(p, s), x)
  BY DEF LineSet, SetLine, SetState
<1>3. HeadersSet(p, s, x) = AddHeaders(SetState(p, s), x)
  BY DEF HeadersSet, AddHeaders, SetState
<1> HIDE DEF a, l, h, d, f
<1>4. SetState(p, s) = Parser(s, l, h, d, f)
  BY <1>1, StateSet
<1>5. LineSet(p, s, x) = Parser(s, x, h, d, f)
  BY <1>2, <1>4, LineNumberSet
<1>6. HeadersSet(p, s, x) = Parser(s, l, h \cup x, d, f)
  BY <1>3, <1>4, HeadersAdded
<1> QED
  BY <1>4, <1>5, <1>6 DEF a, l, h, d, f

\* The assignments of try_parse_body, together.
LEMMA BodyMembersSet ==
    ASSUME NEW n, NEW p \in ParserType(n), NEW s, NEW x, NEW y
    PROVE  BodySet(p, s, x, y) = Parser(s, p.line, p.headers, x, p.files \o y)
<1> DEFINE a == p.state
           l == p.line
           h == p.headers
           d == p.body
           f == p.files
<1>1. p = Parser(a, l, h, d, f)
  BY ParserFields
<1>2. BodySet(p, s, x, y) = SetState(AddFiles(SetBody(p, x), y), s)
  BY DEF BodySet, SetState, AddFiles, SetBody
<1> HIDE DEF a, l, h, d, f
<1>3. SetBody(p, x) = Parser(a, l, h, x, f)
  BY <1>1, BodyReplaced
<1>4. AddFiles(SetBody(p, x), y) = Parser(a, l, h, x, f \o y)
  BY <1>3, FilesAdded
<1>5. BodySet(p, s, x, y) = Parser(s, l, h, x, f \o y)
  BY <1>2, <1>4, StateSet
<1> QED
  BY <1>5 DEF l, h, f

\* try_parse_line reads a request line that is there, and its newline.
LineThere(p, b) == p.state = "LINE" /\ Len(b) >= 2 /\ b[1].part = "line"

\* What it returns.
LEMMA LineStep ==
    ASSUME NEW n, NEW p \in ParserType(n), NEW b
    PROVE  TryParseLine(<<p, b>>) =
               IF LineThere(p, b)
               THEN <<Parser("HEADER", b[1].req, p.headers, p.body, p.files), From(b, 3)>>
               ELSE <<p, b>>
<1>1. LineSet(p, "HEADER", b[1].req) =
      Parser("HEADER", b[1].req, p.headers, p.body, p.files)
  BY MembersSet
<1> QED
  BY <1>1 DEF TryParseLine, LineThere, LineSet

\* It returns a parser and a buffer.
LEMMA LineTyped ==
    ASSUME NEW n \in Nat, NEW p, ParserOK(p, n), NEW b \in Seq(TokenType(n))
    PROVE  Fed(TryParseLine(<<p, b>>), n)
<1>1. p \in ParserType(n) /\ Len(b) \in Nat
  BY Elements DEF ParserOK
<1>2. CASE LineThere(p, b)
  <2>1. 1 \in 1..Len(b) /\ 2 \in 0..Len(b)
    BY <1>1, <1>2 DEF LineThere
  <2>2. b[1] \in TokenType(n)
    BY <2>1, Elements
  <2>3. b[1].req \in 1..n
    BY <2>2 DEF TokenType
  <2>4. From(b, 3) \in Seq(TokenType(n))
    <3>1. From(b, 2 + 1) \in Seq(TokenType(n))
      BY <2>1, Cut
    <3> QED
      BY <3>1
  <2> DEFINE q == Parser("HEADER", b[1].req, p.headers, p.body, p.files)
  <2>5. q \in ParserType(n) /\ q.line = b[1].req
    BY <1>1, <2>3, ParserFields, ParserMade
  <2>6. ParserOK(q, n)
    BY <2>3, <2>5 DEF ParserOK
  <2>7. TryParseLine(<<p, b>>) = <<q, From(b, 3)>>
    BY <1>1, <1>2, LineStep
  <2> HIDE DEF q
  <2> QED
    BY <2>4, <2>6, <2>7 DEF Fed
<1>3. CASE ~LineThere(p, b)
  <2>1. TryParseLine(<<p, b>>) = <<p, b>>
    BY <1>1, <1>3, LineStep
  <2> QED
    BY <2>1 DEF Fed
<1> QED
  BY <1>2, <1>3

\* try_parse_header: the lines that end it, the last line it reads and the headers read.
Stops(b) == {i \in Newlines(b) : b[i - 1].part \in {"blank", "bad"}}
LastRead(b) == IF Stops(b) # {} THEN Min(Stops(b)) ELSE Max(Newlines(b) \cup {0})
BlankRead(b) == Stops(b) # {} /\ b[LastRead(b) - 1].part = "blank"
HeadersRead(b) == {b[i].part : i \in {j \in 1..LastRead(b) : b[j].part \in Headers}}

\* What it returns: a bad line is an error that takes nothing from the buffer.
LEMMA HeaderStep ==
    ASSUME NEW n, NEW p \in ParserType(n), NEW b
    PROVE  TryParseHeader(<<p, b>>) =
               IF p.state # "HEADER" THEN <<p, b>>
               ELSE IF Stops(b) # {} /\ ~BlankRead(b)
               THEN <<Parser("ERROR", p.line, p.headers, p.body, p.files), b>>
               ELSE <<Parser(IF BlankRead(b) THEN "BODY" ELSE "HEADER", p.line,
                             p.headers \cup HeadersRead(b), p.body, p.files),
                      From(b, LastRead(b) + 1)>>
<1> DEFINE s == IF BlankRead(b) THEN "BODY" ELSE "HEADER"
<1>1. SetState(p, "ERROR") = Parser("ERROR", p.line, p.headers, p.body, p.files)
  BY MembersSet
<1>2. HeadersSet(p, s, HeadersRead(b)) =
      Parser(s, p.line, p.headers \cup HeadersRead(b), p.body, p.files)
  BY MembersSet
<1>3. TryParseHeader(<<p, b>>) =
          IF p.state # "HEADER" THEN <<p, b>>
          ELSE IF Stops(b) # {} /\ ~BlankRead(b) THEN <<SetState(p, "ERROR"), b>>
          ELSE <<HeadersSet(p, s, HeadersRead(b)), From(b, LastRead(b) + 1)>>
  BY DEF TryParseHeader, Stops, LastRead, BlankRead, HeadersRead, SetState, HeadersSet
<1> QED
  BY <1>1, <1>2, <1>3, Zenon

\* It reads within the buffer.
LEMMA HeaderReads ==
    ASSUME NEW S, NEW b \in Seq(S)
    PROVE  /\ Stops(b) \in SUBSET 1..Len(b) /\ Newlines(b) \in SUBSET 1..Len(b)
           /\ LastRead(b) \in 0..Len(b)
           /\ Stops(b) # {} => LastRead(b) \in Stops(b) /\ \A d \in Stops(b) : LastRead(b) <= d
           /\ Stops(b) = {} => /\ LastRead(b) \in Newlines(b) \cup {0}
                               /\ \A d \in Newlines(b) : d <= LastRead(b)
<1>1. Len(b) \in Nat /\ DOMAIN b = 1..Len(b)
  BY Elements
<1>2. Stops(b) \in SUBSET 1..Len(b) /\ Newlines(b) \in SUBSET 1..Len(b)
  BY <1>1 DEF Stops, Newlines
<1>3. CASE Stops(b) # {}
  <2>1. Stops(b) \in SUBSET Nat
    BY <1>2
  <2>2. Min(Stops(b)) \in Stops(b) /\ \A d \in Stops(b) : Min(Stops(b)) <= d
    BY <1>3, <2>1, MinIsLeast
  <2>3. LastRead(b) = Min(Stops(b))
    BY <1>3 DEF LastRead
  <2> QED
    BY <1>2, <1>3, <2>2, <2>3
<1>4. CASE Stops(b) = {}
  <2> DEFINE N == Newlines(b) \cup {0}
  <2>1. N \in SUBSET 0..Len(b) /\ N # {}
    BY <1>1, <1>2
  <2>2. Max(N) \in N /\ \A d \in N : d <= Max(N)
    BY <1>1, <2>1, MaxIsGreatest
  <2>3. LastRead(b) = Max(N)
    BY <1>4 DEF LastRead
  <2> QED
    BY <1>2, <1>4, <2>1, <2>2, <2>3
<1> QED
  BY <1>3, <1>4

\* It returns a parser and a buffer.
LEMMA HeaderTyped ==
    ASSUME NEW n \in Nat, NEW p, ParserOK(p, n), NEW b \in Seq(TokenType(n))
    PROVE  Fed(TryParseHeader(<<p, b>>), n)
<1>1. p \in ParserType(n)
  BY DEF ParserOK
<1>2. CASE p.state # "HEADER"
  <2>1. TryParseHeader(<<p, b>>) = <<p, b>>
    BY <1>1, <1>2, HeaderStep
  <2> QED
    BY <2>1 DEF Fed
<1>3. CASE p.state = "HEADER" /\ Stops(b) # {} /\ ~BlankRead(b)
  <2> DEFINE q == Parser("ERROR", p.line, p.headers, p.body, p.files)
  <2>1. TryParseHeader(<<p, b>>) = <<q, b>>
    BY <1>1, <1>3, HeaderStep
  <2>2. q \in ParserType(n) /\ q.line = p.line
    BY <1>1, ParserFields, ParserMade
  <2>3. ParserOK(q, n)
    BY <1>3, <2>2 DEF ParserOK
  <2> HIDE DEF q
  <2> QED
    BY <2>1, <2>3 DEF Fed
<1>4. CASE p.state = "HEADER" /\ ~(Stops(b) # {} /\ ~BlankRead(b))
  <2> DEFINE s == IF BlankRead(b) THEN "BODY" ELSE "HEADER"
             h == p.headers \cup HeadersRead(b)
             q == Parser(s, p.line, h, p.body, p.files)
             z == From(b, LastRead(b) + 1)
  <2>1. TryParseHeader(<<p, b>>) = <<q, z>>
    BY <1>1, <1>4, HeaderStep
  <2>2. s \in {"LINE", "HEADER", "BODY", "ERROR", "DONE"}
    OBVIOUS
  <2>3. h \in SUBSET Headers
    <3>1. HeadersRead(b) \in SUBSET Headers
      BY DEF HeadersRead
    <3> QED
      BY <1>1, <3>1, ParserFields
  <2> HIDE DEF s, h
  <2>4. q \in ParserType(n) /\ q.line = p.line
    BY <1>1, <2>2, <2>3, ParserFields, ParserMade
  <2>5. ParserOK(q, n)
    BY <1>4, <2>4 DEF ParserOK
  <2>6. LastRead(b) \in 0..Len(b)
    BY HeaderReads
  <2>7. z \in Seq(TokenType(n))
    BY <2>6, Cut
  <2> HIDE DEF q, z
  <2> QED
    BY <2>1, <2>5, <2>7 DEF Fed
<1> QED
  BY <1>2, <1>3, <1>4

\* try_parse_body takes all there is.
BodyDone(p, b) == "length" \in p.headers => Len(p.body \o b) = sent[p.line].bytes
FileFound(p, b) ==
    IF BodyDone(p, b) /\ "upload" \in p.headers /\ p.body \o b # <<>> THEN <<p.line>> ELSE <<>>

\* What it returns.
LEMMA BodyStep ==
    ASSUME NEW n, NEW p \in ParserType(n), NEW b
    PROVE  TryParseBody(<<p, b>>) =
               IF p.state # "BODY" THEN <<p, b>>
               ELSE <<Parser(IF BodyDone(p, b) THEN "DONE" ELSE "BODY", p.line, p.headers,
                             p.body \o b, p.files \o FileFound(p, b)), <<>> >>
<1> DEFINE s == IF BodyDone(p, b) THEN "DONE" ELSE "BODY"
<1>1. BodySet(p, s, p.body \o b, FileFound(p, b)) =
      Parser(s, p.line, p.headers, p.body \o b, p.files \o FileFound(p, b))
  <2> DEFINE d == p.body \o b
             f == FileFound(p, b)
  <2> HIDE DEF s, d, f
  <2>1. BodySet(p, s, d, f) = Parser(s, p.line, p.headers, d, p.files \o f)
    BY BodyMembersSet
  <2> QED
    BY <2>1 DEF d, f
<1>2. TryParseBody(<<p, b>>) =
          IF p.state # "BODY" THEN <<p, b>>
          ELSE <<BodySet(p, s, p.body \o b, FileFound(p, b)), <<>> >>
  BY DEF TryParseBody, BodyDone, FileFound, BodySet
<1> QED
  BY <1>1, <1>2, Zenon

\* It returns a parser and a buffer.
LEMMA BodyTyped ==
    ASSUME NEW n \in Nat, NEW p, ParserOK(p, n), NEW b \in Seq(TokenType(n))
    PROVE  Fed(TryParseBody(<<p, b>>), n)
<1>1. p \in ParserType(n)
  BY DEF ParserOK
<1>2. CASE p.state # "BODY"
  <2>1. TryParseBody(<<p, b>>) = <<p, b>>
    BY <1>1, <1>2, BodyStep
  <2> QED
    BY <2>1 DEF Fed
<1>3. CASE p.state = "BODY"
  <2> DEFINE s == IF BodyDone(p, b) THEN "DONE" ELSE "BODY"
             d == p.body \o b
             f == p.files \o FileFound(p, b)
             q == Parser(s, p.line, p.headers, d, f)
  <2>1. TryParseBody(<<p, b>>) = <<q, <<>> >>
    BY <1>1, <1>3, BodyStep
  <2>2. s \in {"LINE", "HEADER", "BODY", "ERROR", "DONE"}
    OBVIOUS
  <2>3. d \in Seq(TokenType(n))
    BY <1>1, ParserFields, Joined
  <2>4. f \in Seq(0..n)
    <3>1. p.line \in 0..n /\ p.files \in Seq(0..n)
      BY <1>1, ParserFields
    <3>2. FileFound(p, b) \in Seq(0..n)
      <4>1. <<p.line>> \in Seq(0..n) /\ <<>> \in Seq(0..n)
        BY <3>1
      <4> QED
        BY <4>1 DEF FileFound
    <3> QED
      BY <3>1, <3>2, Joined
  <2> HIDE DEF s, d, f
  <2>5. q \in ParserType(n) /\ q.line = p.line
    BY <1>1, <2>2, <2>3, <2>4, ParserFields, ParserMade
  <2>6. ParserOK(q, n)
    BY <1>3, <2>5 DEF ParserOK
  <2>7. <<>> \in Seq(TokenType(n))
    OBVIOUS
  <2> HIDE DEF q
  <2>8. \A e : e = <<q, <<>> >> => e[1] = q /\ e[2] = <<>>
    OBVIOUS
  <2> QED
    BY <2>1, <2>6, <2>7, <2>8, Zenon DEF Fed
<1> QED
  BY <1>2, <1>3

\* The three of them, as feed() calls them.
Line(p, b) == TryParseLine(<<p, b>>)
Header(p, b) == TryParseHeader(Line(p, b))
Body(p, b) == TryParseBody(Header(p, b))

\* feed() is deterministic: it returns what the last of the three does.
LEMMA FeedIs ==
    ASSUME NEW p, NEW b
    PROVE  Feed(p, b) = {Body(p, b)}
BY DEF Feed, Body, Header, Line

\* Each of them returns a parser and a buffer.
LEMMA FeedTyped ==
    ASSUME NEW n \in Nat, NEW p, ParserOK(p, n), NEW b \in Seq(TokenType(n))
    PROVE  /\ Fed(Line(p, b), n) /\ Fed(Header(p, b), n) /\ Fed(Body(p, b), n)
<1>1. Fed(Line(p, b), n)
  BY LineTyped DEF Line
<1>2. Fed(Header(p, b), n)
  <2> DEFINE x == Line(p, b)[1]
             y == Line(p, b)[2]
  <2>1. Line(p, b) = <<x, y>> /\ ParserOK(x, n) /\ y \in Seq(TokenType(n))
    BY <1>1 DEF Fed
  <2> HIDE DEF x, y
  <2> QED
    BY <2>1, HeaderTyped DEF Header
<1>3. Fed(Body(p, b), n)
  <2> DEFINE x == Header(p, b)[1]
             y == Header(p, b)[2]
  <2>1. Header(p, b) = <<x, y>> /\ ParserOK(x, n) /\ y \in Seq(TokenType(n))
    BY <1>2 DEF Fed
  <2> HIDE DEF x, y
  <2> QED
    BY <2>1, BodyTyped DEF Body
<1> QED
  BY <1>1, <1>2, <1>3

(***************************************************************************)
(* The parser on the tokens of one request.                                *)
(***************************************************************************)

\* How many there are.
LEMMA LineCount ==
    ASSUME NEW r \in Requests
    PROVE  /\ Len(r.headers) \in Nat /\ Len(LinesOf(r)) \in Nat
           /\ Len(LinesOf(r)) >= Len(r.headers) + 2
           /\ r.bad = "header" => Len(LinesOf(r)) = Len(r.headers) + 3
           /\ r.bad # "header" => Len(LinesOf(r)) = Len(r.headers) + 2
<1> DEFINE m == Len(LinesOf(r))
           h == Len(r.headers)
<1>1. h \in Nat
  BY RequestFields
<1>2. m = h + (IF r.bad = "header" THEN 3 ELSE 2)
  BY LinesOfRequest
<1> HIDE DEF m, h
<1>3. /\ m \in Nat /\ m >= h + 2
      /\ r.bad = "header" => m = h + 3
      /\ r.bad # "header" => m = h + 2
  BY <1>1, <1>2
<1> QED
  BY <1>1, <1>3 DEF m, h

\* What the lines of a request say: headers first, then the line that ends them.
LEMMA LineKinds ==
    ASSUME NEW r \in Requests, NEW i \in 2..Len(LinesOf(r))
    PROVE  /\ i <= Len(r.headers) + 1 =>
                  LinesOf(r)[i] = r.headers[i - 1] /\ LinesOf(r)[i] \in Headers
           /\ i > Len(r.headers) + 1 => LinesOf(r)[i] \in {"bad", "blank"}
           /\ LinesOf(r)[i] = "blank" => i = Len(LinesOf(r))
           /\ LinesOf(r)[i] \in Headers \cup {"bad", "blank"}
<1> DEFINE P == LinesOf(r)
           h == Len(r.headers)
<1>1. /\ h \in Nat /\ Len(P) = h + (IF r.bad = "header" THEN 3 ELSE 2)
      /\ r.bad = "header" => P[h + 2] = "bad"
      /\ P[Len(P)] = "blank"
  BY LinesOfRequest, RequestFields
<1>2. i \in Nat /\ 2 <= i /\ i <= Len(P)
  <2>1. Len(P) \in Nat
    BY LinesOfRequest, Elements
  <2> HIDE DEF P
  <2>2. i \in 2..Len(P)
    BY DEF P
  <2> QED
    BY <2>1, <2>2
<1> DEFINE K == /\ i <= h + 1 => P[i] = r.headers[i - 1] /\ P[i] \in Headers
                /\ i > h + 1 => P[i] \in {"bad", "blank"}
                /\ P[i] = "blank" => i = Len(P)
                /\ P[i] \in Headers \cup {"bad", "blank"}
<1> SUFFICES K
  OBVIOUS
<1>3. CASE i <= h + 1
  <2>1. i - 1 \in 1..h /\ (i - 1) + 1 = i
    BY <1>1, <1>2, <1>3
  <2>2. P[(i - 1) + 1] = r.headers[i - 1]
    BY <2>1, LinesOfRequest
  <2>3. r.headers[i - 1] \in Headers
    BY <2>1, RequestFields
  <2> HIDE DEF P, h
  <2>4. P[i] = r.headers[i - 1] /\ P[i] \in Headers
    BY <2>1, <2>2, <2>3
  <2>5. P[i] # "blank"
    BY <2>4 DEF Headers
  <2>6. ~(i > h + 1)
    BY <1>1, <1>2, <1>3
  <2> QED
    BY <2>4, <2>5, <2>6
<1>4. CASE i > h + 1
  <2> HIDE DEF P, h
  <2>1. ~(i <= h + 1)
    BY <1>1, <1>2, <1>4
  <2>2. CASE r.bad = "header"
    <3>1. Len(P) = h + 3 /\ P[h + 2] = "bad" /\ P[h + 3] = "blank"
      BY <1>1, <2>2
    <3>2. i = h + 2 \/ i = h + 3
      BY <1>1, <1>2, <1>4, <3>1
    <3>3. P[i] \in {"bad", "blank"} /\ (P[i] = "blank" => i = Len(P))
      BY <3>1, <3>2
    <3> QED
      BY <2>1, <3>3
  <2>3. CASE r.bad # "header"
    <3>1. Len(P) = h + 2
      BY <1>1, <2>3
    <3>2. i = Len(P)
      BY <1>1, <1>2, <1>4, <3>1
    <3> QED
      BY <1>1, <2>1, <3>2
  <2> QED
    BY <2>2, <2>3
<1>5. i <= h + 1 \/ i > h + 1
  <2> HIDE DEF h
  <2> QED
    BY <1>1, <1>2
<1> QED
  BY <1>3, <1>4, <1>5

\* A buffer whose first token is the text of line c + 1.
LineInBuffer(k, P, c, b, d) == b[2 * d - 1] = Token(k, P[c + d]) /\ b[2 * d] = Token(k, "nl")

View(k, P, c, b) ==
    /\ \A d \in 1..Len(b) : 2 * d <= Len(b) /\ c + d <= Len(P) => LineInBuffer(k, P, c, b, d)
    /\ \A i \in Newlines(b) : \E d \in 1..Len(b) : i = 2 * d /\ c + d <= Len(P)

\* The buffer of a request under way starts at a line, and only its lines have newlines.
LEMMA BufferView ==
    ASSUME NEW n \in Nat, NEW k \in 1..n, NEW r \in Requests, NEW c \in Nat, c >= 1,
           NEW b \in Seq(TokenType(n)), NEW f \in Seq(TokenType(n)),
           Unread(Tokens(k, r), 2 * c, b, f)
    PROVE  View(k, LinesOf(r), c, b)
<1> DEFINE P == LinesOf(r)
           m == Len(P)
           T == Tokens(k, r)
<1>1. /\ T \in Seq(TokenType(n)) /\ Len(T) = 2 * m + r.bytes
      /\ \A e \in 1..m : Token2(T, k, P, e)
      /\ \A i \in 1..r.bytes : T[2 * m + i] = Token(k, "byte")
  BY TokensOfRequest
<1>2. m \in Nat /\ r.bytes \in Nat /\ Len(b) \in Nat /\ Len(f) \in Nat /\ DOMAIN b = 1..Len(b)
  BY LinesOfRequest, RequestFields, Elements
<1> HIDE DEF T, P
<1>3. Unread(T, 2 * c, b, f)
  BY DEF T
<1>4. Len(b) + 2 * c <= Len(T)
  <2>1. Len(b) + Len(f) = Len(T) - 2 * c
    BY <1>3 DEF Unread
  <2> QED
    BY <1>1, <1>2, <2>1
<1>5. ASSUME NEW i \in 1..Len(b) PROVE b[i] = T[2 * c + i]
  BY <1>3 DEF Unread
<1>6. ASSUME NEW d \in 1..Len(b), 2 * d <= Len(b), c + d <= m
      PROVE  LineInBuffer(k, P, c, b, d)
  <2>1. /\ 2 * d - 1 \in 1..Len(b) /\ 2 * d \in 1..Len(b) /\ c + d \in 1..m
        /\ 2 * c + (2 * d - 1) = 2 * (c + d) - 1 /\ 2 * c + 2 * d = 2 * (c + d)
    BY <1>2, <1>6
  <2>2. b[2 * d - 1] = T[2 * (c + d) - 1] /\ b[2 * d] = T[2 * (c + d)]
    BY <1>5, <2>1
  <2>3. Token2(T, k, P, c + d)
    BY <1>1, <2>1
  <2> QED
    BY <2>2, <2>3 DEF Token2, LineInBuffer
<1>7. ASSUME NEW i \in Newlines(b) PROVE \E d \in 1..Len(b) : i = 2 * d /\ c + d <= m
  <2>1. i \in 1..Len(b) /\ b[i].part = "nl"
    BY <1>2 DEF Newlines
  <2>2. b[i] = T[2 * c + i]
    BY <1>5, <2>1
  <2>3. 2 * c + i <= 2 * m
    <3>1. SUFFICES ASSUME 2 * c + i > 2 * m PROVE FALSE
      BY <1>2, <2>1
    <3>2. (2 * c + i) - 2 * m \in 1..r.bytes /\ 2 * m + ((2 * c + i) - 2 * m) = 2 * c + i
      BY <1>1, <1>2, <1>4, <2>1, <3>1
    <3>3. T[2 * c + i] = Token(k, "byte")
      BY <1>1, <3>2
    <3> QED
      BY <2>1, <2>2, <3>3, TokenFields
  <2>4. PICK d \in Nat : i = 2 * d \/ i = 2 * d - 1
    <3>1. i = 2 * (i \div 2) \/ i = 2 * (i \div 2 + 1) - 1
      BY <2>1
    <3>2. i \div 2 \in Nat /\ i \div 2 + 1 \in Nat
      BY <2>1
    <3> QED
      BY <3>1, <3>2
  <2>5. i # 2 * d - 1
    <3>1. SUFFICES ASSUME i = 2 * d - 1 PROVE FALSE
      OBVIOUS
    <3>2. /\ c + d \in 2..m /\ c + d \in 1..m /\ 2 * c + i = 2 * (c + d) - 1
      BY <1>2, <2>1, <2>3, <3>1
    <3>3. Token2(T, k, P, c + d)
      BY <1>1, <3>2
    <3>4. b[i] = Token(k, P[c + d])
      BY <2>2, <3>2, <3>3 DEF Token2
    <3>5. P[c + d] = "nl"
      BY <2>1, <3>4, TokenFields
    <3>6. P[c + d] \in Headers \cup {"bad", "blank"}
      BY <3>2, LineKinds DEF P
    <3> QED
      BY <3>5, <3>6 DEF Headers
  <2>6. i = 2 * d
    BY <2>4, <2>5
  <2>7. d \in 1..Len(b) /\ c + d <= m
    BY <1>2, <2>1, <2>3, <2>6
  <2> QED
    BY <2>6, <2>7
<1> QED
  BY <1>6, <1>7 DEF View, P

\* try_parse_line on the first token of a request.
LEMMA LinePhase ==
    ASSUME NEW n \in Nat, NEW k \in 1..n, NEW r \in Requests,
           NEW p, ParserOK(p, n), NEW b \in Seq(TokenType(n)), NEW f \in Seq(TokenType(n)),
           AtLine(k, r, p, b, f)
    PROVE  \/ TryParseLine(<<p, b>>) = <<p, b>>
           \/ \E q, z : TryParseLine(<<p, b>>) = <<q, z>> /\ AtHeader(k, r, 1, q, z, f)
<1> DEFINE T == Tokens(k, r)
           P == LinesOf(r)
           q == Parser("HEADER", b[1].req, p.headers, p.body, p.files)
           z == From(b, 3)
<1>1. p \in ParserType(n)
  BY DEF ParserOK
<1>2. CASE ~LineThere(p, b)
  BY <1>1, <1>2, LineStep
<1>3. CASE LineThere(p, b)
  <2>1. Len(b) \in Nat /\ 1 \in 1..Len(b) /\ 2 \in 0..Len(b)
    BY <1>3, Elements DEF LineThere
  <2>2. /\ T \in Seq(TokenType(n)) /\ 1 \in 1..Len(P)
        /\ \A e \in 1..Len(P) : Token2(T, k, P, e)
    <3>1. 1 \in 1..Len(P)
      BY LineCount
    <3> QED
      BY <3>1, TokensOfRequest
  <2> HIDE DEF T
  <2>3. Unread(T, 0, b, f)
    BY DEF AtLine, T
  <2>4. b[1] = T[1]
    BY <2>1, <2>3 DEF Unread
  <2>5. T[1] = Token(k, P[1])
    BY <2>2 DEF Token2
  <2>6. b[1].req = k /\ P[1] = "line"
    BY <1>3, <2>4, <2>5, TokenFields DEF LineThere
  <2>7. r.bad # "line"
    BY <2>6, LinesOfRequest
  <2>8. Unread(T, 2, z, f)
    <3>1. Unread(T, 0 + 2, From(b, 2 + 1), f)
      BY <2>1, <2>2, <2>3, Consumed
    <3> QED
      BY <3>1
  <2>9. /\ q.state = "HEADER" /\ q.line = k /\ q.headers = {} /\ q.body = <<>>
    <3>1. p.headers = {} /\ p.body = <<>>
      BY DEF AtLine
    <3> QED
      BY <2>6, <3>1 DEF Parser
  <2>10. FirstHeaders(r, 1 - 1) = {}
    <3>1. 1..(1 - 1) = {}
      OBVIOUS
    <3> QED
      BY <3>1 DEF FirstHeaders
  <2>11. 1 \in 1..(Len(r.headers) + 1)
    BY LineCount
  <2>12. TryParseLine(<<p, b>>) = <<q, z>>
    BY <1>1, <1>3, LineStep
  <2> HIDE DEF q, z
  <2>13. AtHeader(k, r, 1, q, z, f)
    BY <2>7, <2>8, <2>9, <2>10, <2>11 DEF AtHeader, T
  <2> QED
    BY <2>12, <2>13
<1> QED
  BY <1>2, <1>3

\* The headers on d complete lines, which are all headers or end with the blank line.
OnLines(k, r, b, c, d, e) ==
    /\ c \in 1..(Len(r.headers) + 1) /\ View(k, LinesOf(r), c, b)
    /\ d \in Nat /\ LastRead(b) = 2 * d /\ 2 * d <= Len(b) /\ c + d <= Len(LinesOf(r))
    /\ e \in Nat /\ e <= Len(r.headers)
    /\ e = (c + d) - 1 \/ (e = Len(r.headers) /\ c + d = e + 2)

\* The headers found in the lines that were read are the next ones of the request.
LEMMA HeadersOnLines ==
    ASSUME NEW n \in Nat, NEW k \in 1..n, NEW r \in Requests,
           NEW b \in Seq(TokenType(n)), NEW c, NEW d, NEW e, OnLines(k, r, b, c, d, e)
    PROVE  FirstHeaders(r, c - 1) \cup HeadersRead(b) = FirstHeaders(r, e)
<1> DEFINE P == LinesOf(r)
           h == Len(r.headers)
<1>1. h \in Nat /\ Len(P) \in Nat /\ Len(b) \in Nat /\ \A i \in 1..h : r.headers[i] \in Headers
  BY RequestFields, LinesOfRequest, Elements
<1>0. /\ c \in 1..(h + 1) /\ View(k, P, c, b)
      /\ d \in Nat /\ LastRead(b) = 2 * d /\ 2 * d <= Len(b) /\ c + d <= Len(P)
      /\ e \in Nat /\ e <= h /\ (e = (c + d) - 1 \/ (e = h /\ c + d = e + 2))
  BY DEF OnLines
<1> HIDE DEF P, h
<1>2. /\ c \in Nat /\ c >= 1 /\ c <= h + 1 /\ e <= h /\ c + d <= Len(P)
      /\ d \in Nat /\ 2 * d <= Len(b) /\ e \in Nat
      /\ e = (c + d) - 1 \/ (e = h /\ c + d = e + 2)
  BY <1>0, <1>1
<1>3. ASSUME NEW a \in 1..d
      PROVE  b[2 * a - 1].part = P[c + a] /\ b[2 * a].part = "nl"
  <2>1. a \in 1..Len(b) /\ 2 * a <= Len(b) /\ c + a <= Len(P)
    BY <1>1, <1>2
  <2>2. LineInBuffer(k, P, c, b, a)
    BY <1>0, <2>1 DEF View
  <2> QED
    BY <2>2, TokenFields DEF LineInBuffer
<1>4. ASSUME NEW x \in HeadersRead(b) PROVE x \in FirstHeaders(r, e)
  <2>1. PICK i \in 1..(2 * d) : x = b[i].part /\ x \in Headers
    BY <1>0 DEF HeadersRead
  <2>2. PICK a \in 1..d : i = 2 * a \/ i = 2 * a - 1
    <3>1. i = 2 * (i \div 2) \/ i = 2 * (i \div 2 + 1) - 1
      BY <1>2
    <3>2. (i = 2 * (i \div 2) => i \div 2 \in 1..d)
          /\ (i = 2 * (i \div 2 + 1) - 1 => i \div 2 + 1 \in 1..d)
      BY <1>2
    <3> QED
      BY <3>1, <3>2
  <2>3. i # 2 * a
    <3>1. "nl" \notin Headers
      BY DEF Headers
    <3> QED
      BY <1>3, <2>1, <3>1
  <2>4. x = P[c + a]
    BY <1>3, <2>1, <2>2, <2>3
  <2>5. c + a \in 2..Len(P)
    BY <1>1, <1>2
  <2>6. /\ c + a <= h + 1 => P[c + a] = r.headers[(c + a) - 1]
        /\ c + a > h + 1 => P[c + a] \in {"bad", "blank"}
    BY <2>5, LineKinds DEF P, h
  <2>7. c + a <= h + 1
    <3>1. "bad" \notin Headers /\ "blank" \notin Headers
      BY DEF Headers
    <3>2. ~(c + a > h + 1)
      BY <2>1, <2>4, <2>6, <3>1
    <3> QED
      BY <1>1, <1>2, <3>2
  <2>8. (c + a) - 1 \in 1..e
    BY <1>1, <1>2, <2>7
  <2> QED
    BY <2>4, <2>6, <2>7, <2>8 DEF FirstHeaders
<1>5. ASSUME NEW x \in FirstHeaders(r, c - 1) PROVE x \in FirstHeaders(r, e)
  <2>1. PICK i \in 1..(c - 1) : x = r.headers[i]
    BY DEF FirstHeaders
  <2>2. i \in 1..e
    BY <1>1, <1>2
  <2> QED
    BY <2>1, <2>2 DEF FirstHeaders
<1>6. ASSUME NEW x \in FirstHeaders(r, e) PROVE x \in FirstHeaders(r, c - 1) \cup HeadersRead(b)
  <2>1. PICK i \in 1..e : x = r.headers[i]
    BY DEF FirstHeaders
  <2>2. CASE i <= c - 1
    <3>1. i \in 1..(c - 1)
      BY <1>2, <2>2
    <3> QED
      BY <2>1, <3>1 DEF FirstHeaders
  <2>3. CASE ~(i <= c - 1)
    <3> DEFINE a == (i + 1) - c
    <3>1. a \in 1..d /\ c + a = i + 1 /\ i + 1 \in 2..Len(P) /\ i + 1 <= h + 1 /\ i \in 1..h
      BY <1>1, <1>2, <2>3
    <3>2. P[i + 1] = r.headers[(i + 1) - 1] /\ (i + 1) - 1 = i
      BY <3>1, LineKinds DEF P, h
    <3>3. 2 * a - 1 \in 1..(2 * d)
      BY <1>2, <3>1
    <3> HIDE DEF a
    <3>4. b[2 * a - 1].part = x
      BY <1>3, <2>1, <3>1, <3>2
    <3>5. x \in Headers
      BY <1>1, <2>1, <3>1
    <3> QED
      BY <1>0, <3>3, <3>4, <3>5 DEF HeadersRead
  <2> QED
    BY <2>2, <2>3
<1> QED
  BY <1>4, <1>5, <1>6

\* try_parse_header: more headers, the body, or a line that does not match.
LEMMA HeaderPhase ==
    ASSUME NEW n \in Nat, NEW k \in 1..n, NEW r \in Requests,
           NEW p, ParserOK(p, n), NEW b \in Seq(TokenType(n)), NEW f \in Seq(TokenType(n)),
           NEW c, AtHeader(k, r, c, p, b, f)
    PROVE  \E q, z : /\ TryParseHeader(<<p, b>>) = <<q, z>>
                     /\ \/ \E e \in Nat : AtHeader(k, r, e, q, z, f)
                        \/ AtBody(k, r, q, z, f)
                        \/ q.state = "ERROR"
<1> DEFINE T == Tokens(k, r)
           P == LinesOf(r)
           h == Len(r.headers)
           hs == p.headers \cup HeadersRead(b)
           z == From(b, LastRead(b) + 1)
<1>1. /\ p \in ParserType(n) /\ p.state = "HEADER" /\ p.line = k /\ p.body = <<>>
      /\ c \in 1..(h + 1) /\ r.bad # "line" /\ p.headers = FirstHeaders(r, c - 1)
  BY DEF ParserOK, AtHeader
<1>2. /\ h \in Nat /\ Len(P) \in Nat /\ Len(P) >= h + 2
      /\ (r.bad = "header" => Len(P) = h + 3) /\ (r.bad # "header" => Len(P) = h + 2)
      /\ Len(b) \in Nat /\ T \in Seq(TokenType(n))
  BY LineCount, TokensOfRequest, Elements
<1>3. Unread(T, 2 * c, b, f)
  BY DEF AtHeader
<1>4. View(k, P, c, b)
  <2>1. c \in Nat /\ c >= 1
    BY <1>1, <1>2
  <2> QED
    BY <1>3, <2>1, BufferView
<1>5. ASSUME NEW d \in 1..Len(b), 2 * d <= Len(b), c + d <= Len(P)
      PROVE  b[2 * d - 1].part = P[c + d] /\ b[2 * d].part = "nl"
  <2>1. LineInBuffer(k, P, c, b, d)
    BY <1>4, <1>5 DEF View
  <2> QED
    BY <2>1, TokenFields DEF LineInBuffer
<1>6. ASSUME NEW i \in Newlines(b)
      PROVE  \E d \in 1..Len(b) : i = 2 * d /\ c + d <= Len(P) /\ i <= Len(b)
  <2>1. PICK d \in 1..Len(b) : i = 2 * d /\ c + d <= Len(P)
    BY <1>4 DEF View
  <2>2. i \in 1..Len(b)
    BY HeaderReads
  <2> QED
    BY <1>2, <2>1, <2>2
<1>7. Stops(b) \subseteq Newlines(b)
  BY DEF Stops
<1>8. LastRead(b) \in 0..Len(b)
  BY HeaderReads
<1>9. Unread(T, 2 * c + LastRead(b), z, f)
  <2>1. 2 * c \in Nat
    BY <1>1, <1>2
  <2> HIDE DEF T
  <2> QED
    BY <1>2, <1>3, <1>8, <2>1, Consumed
<1>10. CASE Stops(b) # {} /\ ~BlankRead(b)
  <2> DEFINE q == Parser("ERROR", p.line, p.headers, p.body, p.files)
  <2>1. TryParseHeader(<<p, b>>) = <<q, b>>
    BY <1>1, <1>10, HeaderStep
  <2>2. q.state = "ERROR"
    BY DEF Parser
  <2> HIDE DEF q
  <2> QED
    BY <2>1, <2>2
<1>11. CASE Stops(b) # {} /\ BlankRead(b)
  <2> DEFINE q == Parser("BODY", p.line, hs, p.body, p.files)
  <2>1. TryParseHeader(<<p, b>>) = <<q, z>>
    BY <1>1, <1>11, HeaderStep
  <2>2. LastRead(b) \in Stops(b) /\ \A i \in Stops(b) : LastRead(b) <= i
    BY <1>11, HeaderReads
  <2>3. PICK d \in 1..Len(b) : LastRead(b) = 2 * d /\ c + d <= Len(P) /\ LastRead(b) <= Len(b)
    BY <1>6, <1>7, <2>2
  <2>4. P[c + d] = "blank"
    <3>1. b[LastRead(b) - 1].part = "blank"
      BY <1>11 DEF BlankRead
    <3> QED
      BY <1>5, <2>3, <3>1
  <2>5. c + d \in 2..Len(P)
    BY <1>1, <1>2, <2>3
  <2>6. c + d = Len(P)
    BY <2>4, <2>5, LineKinds
  <2>7. r.bad # "header"
    <3> SUFFICES ASSUME r.bad = "header" PROVE FALSE
      OBVIOUS
    <3> DEFINE a == (h + 2) - c
    <3>1. a \in 1..Len(b) /\ 2 * a <= Len(b) /\ c + a = h + 2 /\ c + a <= Len(P) /\ a < d
      <4> HIDE DEF P, h
      <4>1. h \in Nat /\ c \in 1..(h + 1) /\ Len(P) = h + 3 /\ Len(b) \in Nat
        BY <1>1, <1>2
      <4>2. 2 * d <= Len(b) /\ c + d = h + 3
        BY <2>3, <2>6, <4>1
      <4> QED
        BY <4>1, <4>2
    <3>2. P[h + 2] = "bad"
      BY LinesOfRequest
    <3> HIDE DEF a, P, h
    <3>3. b[2 * a - 1].part = "bad" /\ b[2 * a].part = "nl"
      BY <1>5, <3>1, <3>2
    <3>4. 2 * a \in DOMAIN b
      <4>1. DOMAIN b = 1..Len(b)
        BY Elements
      <4> QED
        BY <1>2, <3>1, <4>1
    <3>5. 2 * a \in Newlines(b)
      BY <3>3, <3>4 DEF Newlines
    <3>6. 2 * a \in Stops(b)
      BY <3>3, <3>5 DEF Stops
    <3>7. 2 * d <= 2 * a
      BY <2>2, <2>3, <3>6
    <3> QED
      BY <3>1, <3>7
  <2>8. r.bad = "" /\ c + d = h + 2
    <3>1. r.bad \in {"", "line", "header"}
      BY RequestFields
    <3> QED
      BY <1>1, <1>2, <2>6, <2>7, <3>1
  <2>9. hs = FirstHeaders(r, h)
    <3> HIDE DEF P, h
    <3>1. d \in Nat /\ 2 * d <= Len(b) /\ LastRead(b) = 2 * d /\ c + d <= Len(P)
      BY <1>2, <2>3
    <3>2. h \in Nat /\ h <= h /\ c + d = h + 2
      <4>1. h \in Nat
        BY <1>2
      <4>2. c + d = h + 2
        BY <2>8
      <4> QED
        BY <4>1, <4>2
    <3>3. OnLines(k, r, b, c, d, h)
      BY <1>1, <1>4, <3>1, <3>2 DEF OnLines, P, h
    <3>4. FirstHeaders(r, c - 1) \cup HeadersRead(b) = FirstHeaders(r, h)
      BY <3>3, HeadersOnLines
    <3> QED
      BY <1>1, <3>4
  <2>10. FirstHeaders(r, h) = Range(r.headers)
    <3>1. DOMAIN r.headers = 1..h
      BY RequestFields, Elements
    <3> QED
      BY <3>1 DEF FirstHeaders, Range
  <2> HIDE DEF hs, z
  <2>11. q.state = "BODY" /\ q.line = k /\ q.headers = Range(r.headers) /\ q.body = <<>>
    BY <1>1, <2>9, <2>10 DEF Parser
  <2> HIDE DEF q
  <2>12. Unread(T, 2 * (h + 2) + Len(q.body), z, f)
    <3>1. Len(q.body) = 0
      BY <2>11
    <3>2. 2 * c + LastRead(b) = 2 * (h + 2) + Len(q.body)
      <4> HIDE DEF h, P
      <4>1. h \in Nat /\ c \in 1..(h + 1) /\ LastRead(b) = 2 * d /\ c + d = h + 2
        BY <1>1, <1>2, <2>3, <2>8
      <4>2. 2 * c + 2 * d = 2 * (h + 2) + 0
        BY <4>1
      <4> QED
        BY <3>1, <4>1, <4>2
    <3> QED
      BY <1>9, <3>2
  <2>13. 1..Len(q.body) = {}
    BY <2>11
  <2>14. AtBody(k, r, q, z, f)
    BY <2>8, <2>11, <2>12, <2>13 DEF AtBody
  <2> QED
    BY <2>1, <2>14
<1>12. CASE Stops(b) = {}
  <2> DEFINE q == Parser("HEADER", p.line, hs, p.body, p.files)
  <2>1. TryParseHeader(<<p, b>>) = <<q, z>>
    <3>1. ~BlankRead(b)
      BY <1>12 DEF BlankRead
    <3> QED
      BY <1>1, <1>12, <3>1, HeaderStep
  <2>2. PICK d \in Nat : LastRead(b) = 2 * d /\ 2 * d <= Len(b) /\ c + d <= h + 1
    <3>1. LastRead(b) \in Newlines(b) \cup {0}
      BY <1>12, HeaderReads
    <3>2. CASE LastRead(b) = 0
      <4>1. 0 \in Nat /\ LastRead(b) = 2 * 0 /\ 2 * 0 <= Len(b) /\ c + 0 <= h + 1
        BY <1>1, <1>2, <3>2
      <4> QED
        BY <4>1
    <3>3. CASE LastRead(b) \in Newlines(b)
      <4>1. PICK d \in 1..Len(b) : LastRead(b) = 2 * d /\ c + d <= Len(P) /\ LastRead(b) <= Len(b)
        BY <1>6, <3>3
      <4>2. b[LastRead(b) - 1].part \notin {"blank", "bad"}
        BY <1>12, <3>3 DEF Stops
      <4>3. P[c + d] \notin {"blank", "bad"}
        BY <1>5, <4>1, <4>2
      <4>4. c + d \in 2..Len(P)
        BY <1>1, <1>2, <4>1
      <4>5. ~(c + d > h + 1)
        BY <4>3, <4>4, LineKinds
      <4>6. d \in Nat /\ c + d <= h + 1
        BY <1>1, <1>2, <4>5
      <4> QED
        BY <4>1, <4>6
    <3> QED
      BY <3>1, <3>2, <3>3
  <2> DEFINE e == c + d
  <2>3. e \in Nat /\ e \in 1..(h + 1) /\ e - 1 \in Nat /\ e - 1 <= h /\ c + d <= Len(P)
    BY <1>1, <1>2, <2>2
  <2>4. hs = FirstHeaders(r, e - 1)
    <3> DEFINE g == e - 1
    <3>1. g \in Nat /\ g <= h /\ g = (c + d) - 1
      BY <2>3
    <3> HIDE DEF g
    <3>2. OnLines(k, r, b, c, d, g)
      BY <1>1, <1>4, <2>2, <2>3, <3>1 DEF OnLines
    <3>3. FirstHeaders(r, c - 1) \cup HeadersRead(b) = FirstHeaders(r, g)
      BY <3>2, HeadersOnLines
    <3> QED
      BY <1>1, <3>3 DEF g
  <2>5. Unread(T, 2 * e, z, f)
    <3>1. 2 * c + LastRead(b) = 2 * e
      BY <1>1, <1>2, <2>2
    <3> QED
      BY <1>9, <3>1
  <2> HIDE DEF hs, z, e
  <2>6. q.state = "HEADER" /\ q.line = k /\ q.headers = FirstHeaders(r, e - 1) /\ q.body = <<>>
    BY <1>1, <2>4 DEF Parser
  <2> HIDE DEF q
  <2>7. AtHeader(k, r, e, q, z, f)
    BY <1>1, <2>3, <2>5, <2>6 DEF AtHeader
  <2> QED
    BY <2>1, <2>3, <2>7
<1> QED
  BY <1>10, <1>11, <1>12

\* Counting: x bytes of w are in the body, y in the buffer and z under way.
LEMMA BytesCounted ==
    ASSUME NEW m \in Nat, NEW x \in Nat, NEW y \in Nat, NEW z \in Nat, NEW w \in Nat,
           y + z = (2 * m + w) - (2 * m + x)
    PROVE  /\ (x + y) + z = w
           /\ z = (2 * m + w) - (2 * m + (x + y))
           /\ (2 * m + (x + y)) + 0 = (2 * m + x) + y
           /\ \A j \in 1..y : (2 * m + x) + j = 2 * m + (x + j) /\ x + j \in 1..w
<1>1. (x + y) + z = w
  OBVIOUS
<1>2. (2 * m + (x + y)) + 0 = (2 * m + x) + y
  OBVIOUS
<1>3. \A j \in 1..y : (2 * m + x) + j = 2 * m + (x + j)
  OBVIOUS
<1>4. \A j \in 1..y : x + j \in 1..w
  BY <1>1
<1>5. z = (2 * m + w) - (2 * m + (x + y))
  BY <1>1
<1> QED
  BY <1>1, <1>2, <1>3, <1>4, <1>5

\* try_parse_body: all bytes are the request's own, and done means that all are there.
LEMMA BodyPhase ==
    ASSUME NEW n \in Nat, NEW k \in 1..n, NEW r \in Requests, sent[k] = r,
           NEW p, ParserOK(p, n), NEW b \in Seq(TokenType(n)), NEW f \in Seq(TokenType(n)),
           AtBody(k, r, p, b, f)
    PROVE  \E q : /\ TryParseBody(<<p, b>>) = <<q, <<>> >>
                  /\ AtBody(k, r, q, <<>>, f) \/ AtEnd(k, r, q, <<>>, f)
<1> DEFINE T == Tokens(k, r)
           m == Len(r.headers) + 2
           s == IF BodyDone(p, b) THEN "DONE" ELSE "BODY"
           d == p.body \o b
           ff == FileFound(p, b)
           q == Parser(s, p.line, p.headers, d, p.files \o ff)
<1>1. /\ p \in ParserType(n) /\ p.state = "BODY" /\ p.line = k /\ r.bad = ""
      /\ p.headers = Range(r.headers)
      /\ \A i \in 1..Len(p.body) : p.body[i] = Token(k, "byte")
      /\ Unread(T, 2 * m + Len(p.body), b, f)
  BY DEF ParserOK, AtBody
<1>2. TryParseBody(<<p, b>>) = <<q, <<>> >>
  BY <1>1, BodyStep
<1>3. /\ p.body \in Seq(TokenType(n)) /\ Len(p.body) \in Nat /\ p.files \in Seq(0..n)
      /\ Len(b) \in Nat /\ Len(f) \in Nat
  BY <1>1, ParserFields, Elements
<1>4. m \in Nat /\ Len(LinesOf(r)) = m /\ r.bytes \in Nat
  BY <1>1, LineCount, RequestFields
<1>5. /\ T \in Seq(TokenType(n)) /\ Len(T) = 2 * m + r.bytes
      /\ \A i \in 1..r.bytes : T[2 * m + i] = Token(k, "byte")
  <2>1. /\ T \in Seq(TokenType(n)) /\ Len(T) = 2 * Len(LinesOf(r)) + r.bytes
        /\ \A i \in 1..r.bytes : T[2 * Len(LinesOf(r)) + i] = Token(k, "byte")
    BY TokensOfRequest, Zenon
  <2> HIDE DEF m, T
  <2> QED
    BY <1>4, <2>1, Zenon
<1>6. d \in Seq(TokenType(n)) /\ IsJoin(p.body, b, d)
  BY <1>3, Joined
<1>7. q.state = s /\ q.line = k /\ q.headers = Range(r.headers) /\ q.body = d
      /\ q.files = p.files \o ff
  BY <1>1 DEF Parser
<1> HIDE DEF T, m, s, d, q, ff
<1>8. Len(d) = Len(p.body) + Len(b)
  BY <1>6 DEF IsJoin
<1>9. /\ (Len(p.body) + Len(b)) + Len(f) = r.bytes
      /\ Len(f) = (2 * m + r.bytes) - (2 * m + (Len(p.body) + Len(b)))
      /\ (2 * m + (Len(p.body) + Len(b))) + 0 = (2 * m + Len(p.body)) + Len(b)
      /\ \A j \in 1..Len(b) : /\ (2 * m + Len(p.body)) + j = 2 * m + (Len(p.body) + j)
                               /\ Len(p.body) + j \in 1..r.bytes
  <2>1. Len(b) + Len(f) = Len(T) - (2 * m + Len(p.body))
    BY <1>1 DEF Unread
  <2>2. Len(T) = 2 * m + r.bytes
    BY <1>5
  <2>3. Len(b) + Len(f) = (2 * m + r.bytes) - (2 * m + Len(p.body))
    BY <2>1, <2>2
  <2> DEFINE x == Len(p.body)
             y == Len(b)
             z == Len(f)
             w == r.bytes
  <2>4. x \in Nat /\ y \in Nat /\ z \in Nat /\ w \in Nat
    BY <1>3, <1>4
  <2>5. y + z = (2 * m + w) - (2 * m + x)
    BY <2>3
  <2> HIDE DEF x, y, z, w
  <2>6. /\ (x + y) + z = w
        /\ z = (2 * m + w) - (2 * m + (x + y))
        /\ (2 * m + (x + y)) + 0 = (2 * m + x) + y
        /\ \A j \in 1..y : (2 * m + x) + j = 2 * m + (x + j) /\ x + j \in 1..w
    BY <1>4, <2>4, <2>5, BytesCounted
  <2> QED
    BY <2>6 DEF x, y, z, w
<1>10. ASSUME NEW i \in 1..Len(d) PROVE d[i] = Token(k, "byte")
  <2>1. CASE i <= Len(p.body)
    <3>1. i \in 1..Len(p.body)
      BY <1>3, <1>8, <2>1
    <3>2. d[i] = p.body[i]
      BY <1>6, <3>1 DEF IsJoin
    <3> QED
      BY <1>1, <3>1, <3>2
  <2>2. CASE ~(i <= Len(p.body))
    <3> DEFINE j == i - Len(p.body)
    <3>1. j \in 1..Len(b) /\ Len(p.body) + j = i
      BY <1>3, <1>8, <2>2
    <3>2. d[i] = b[j]
      BY <1>6, <3>1 DEF IsJoin
    <3>3. b[j] = T[(2 * m + Len(p.body)) + j]
      BY <1>1, <3>1 DEF Unread
    <3>4. (2 * m + Len(p.body)) + j = 2 * m + i /\ i \in 1..r.bytes
      <4> HIDE DEF j
      <4>1. (2 * m + Len(p.body)) + j = 2 * m + (Len(p.body) + j) /\ Len(p.body) + j \in 1..r.bytes
        BY <1>9, <3>1
      <4> QED
        BY <3>1, <4>1
    <3> QED
      BY <1>5, <3>2, <3>3, <3>4
  <2> QED
    BY <2>1, <2>2
<1>11. Unread(T, 2 * m + Len(d), <<>>, f)
  <2>1. Len(f) = Len(T) - (2 * m + Len(d))
    BY <1>5, <1>8, <1>9
  <2>2. (2 * m + Len(d)) + 0 = (2 * m + Len(p.body)) + Len(b)
    BY <1>8, <1>9
  <2>3. ASSUME NEW i \in 1..Len(f) PROVE f[i] = T[((2 * m + Len(d)) + 0) + i]
    BY <1>1, <2>2 DEF Unread
  <2>4. Len(<<>>) = 0 /\ 1..0 = {}
    OBVIOUS
  <2>5. 0 + Len(f) = Len(T) - (2 * m + Len(d))
    BY <1>3, <2>1
  <2> QED
    BY <2>3, <2>4, <2>5 DEF Unread
<1>12. Len(d) \in Nat /\ Len(d) + Len(f) = r.bytes
  <2>1. (Len(p.body) + Len(b)) + Len(f) = r.bytes
    BY <1>9
  <2> QED
    BY <1>3, <1>8, <2>1
<1>13. CASE ~BodyDone(p, b)
  <2>1. q.state = "BODY"
    BY <1>7, <1>13 DEF s
  <2>2. AtBody(k, r, q, <<>>, f)
    BY <1>1, <1>7, <1>10, <1>11, <2>1 DEF AtBody, T, m
  <2> QED
    BY <1>2, <2>2
<1>14. CASE BodyDone(p, b)
  <2>1. q.state = "DONE"
    BY <1>7, <1>14 DEF s
  <2>2. Len(d) = r.bytes
    <3>1. CASE "length" \in p.headers
      <4>1. Len(d) = sent[p.line].bytes
        BY <1>14, <3>1 DEF BodyDone, d
      <4> QED
        BY <1>1, <4>1
    <3>2. CASE "length" \notin p.headers
      <4>1. ~(r.bytes > 0)
        BY <1>1, <3>2, RequestFields
      <4> QED
        BY <1>3, <1>4, <1>12, <4>1
    <3> QED
      BY <3>1, <3>2
  <2>3. f = <<>>
    <3>1. Len(f) = 0
      BY <1>3, <1>4, <1>12, <2>2
    <3> QED
      BY <3>1, NoElements
  <2>4. d = [i \in 1..r.bytes |-> Token(k, "byte")]
    <3>1. Bytes(k, r.bytes) \in Seq(TokenType(n)) /\ Len(Bytes(k, r.bytes)) = r.bytes
          /\ \A i \in 1..r.bytes : Bytes(k, r.bytes)[i] = Token(k, "byte")
      BY <1>4, BytesAreTokens
    <3>2. d = Bytes(k, r.bytes)
      <4> DEFINE B == Bytes(k, r.bytes)
      <4>1. B \in Seq(TokenType(n)) /\ Len(B) = Len(d)
        BY <2>2, <3>1
      <4>2. \A i \in 1..Len(d) : d[i] = B[i]
        BY <1>10, <2>2, <3>1
      <4> HIDE DEF B
      <4>3. d = B
        BY <1>6, <4>1, <4>2, SeqEqual
      <4> QED
        BY <4>3 DEF B
    <3> QED
      BY <3>2 DEF Bytes
  <2>5. ASSUME "upload" \in q.headers, r.bytes > 0 PROVE Last(q.files) = k
    <3>1. d # <<>>
      BY <1>4, <2>2, <2>5
    <3>2. ff = <<k>>
      BY <1>1, <1>7, <1>14, <2>5, <3>1 DEF ff, FileFound, d
    <3>3. q.files = p.files \o <<k>>
      BY <1>7, <3>2
    <3>4. Len(p.files) \in Nat /\ <<k>> \in Seq(0..n) /\ Len(<<k>>) = 1 /\ <<k>>[1] = k
      BY <1>3, Elements
    <3>5. IsJoin(p.files, <<k>>, q.files)
      BY <1>3, <3>3, <3>4, Joined
    <3>6. Len(q.files) = Len(p.files) + 1 /\ q.files[Len(p.files) + 1] = k
      BY <3>4, <3>5 DEF IsJoin
    <3> QED
      BY <3>6 DEF Last
  <2>6. AtEnd(k, r, q, <<>>, f)
    BY <1>1, <1>7, <2>1, <2>3, <2>4, <2>5 DEF AtEnd
  <2> QED
    BY <1>2, <2>6
<1> QED
  BY <1>13, <1>14

\* Something of request k has arrived behind what the parser left in the buffer.
Arrived(k, r, p, b, f) ==
    \/ AtLine(k, r, p, b, f)
    \/ \E c \in Nat : AtHeader(k, r, c, p, b, f)
    \/ AtBody(k, r, p, b, f)
    \/ p.state = "ERROR"

\* Bytes that move from the wire to the buffer leave the parser at the same place.
LEMMA Arrives ==
    ASSUME NEW n \in Nat, NEW k \in 1..n, NEW r \in Requests, NEW p, ParserOK(p, n),
           NEW b \in Seq(TokenType(n)), NEW f \in Seq(TokenType(n)),
           Underway(k, r, p, b, f), NEW l \in 1..Len(f)
    PROVE  Arrived(k, r, p, b \o SubSeq(f, 1, l), From(f, l + 1))
<1> DEFINE T == Tokens(k, r)
           a == b \o SubSeq(f, 1, l)
           z == From(f, l + 1)
<1>1. T \in Seq(TokenType(n))
  BY TokensOfRequest
<1> HIDE DEF T
<1>2. ASSUME NEW j \in Nat, Unread(T, j, b, f) PROVE Unread(T, j, a, z)
  BY <1>1, <1>2, Received
<1> HIDE DEF a, z
<1>3. CASE AtLine(k, r, p, b, f)
  <2>1. Unread(T, 0, a, z)
    BY <1>2, <1>3 DEF AtLine, T
  <2>2. AtLine(k, r, p, a, z)
    BY <1>3, <2>1 DEF AtLine, T
  <2> QED
    BY <2>2 DEF Arrived, a, z
<1>4. CASE \E c \in Nat : AtHeader(k, r, c, p, b, f)
  <2>1. PICK c \in Nat : AtHeader(k, r, c, p, b, f)
    BY <1>4
  <2>2. 2 * c \in Nat
    OBVIOUS
  <2>3. Unread(T, 2 * c, a, z)
    BY <1>2, <2>1, <2>2 DEF AtHeader, T
  <2>4. AtHeader(k, r, c, p, a, z)
    BY <2>1, <2>3 DEF AtHeader, T
  <2> QED
    BY <2>4 DEF Arrived, a, z
<1>5. CASE AtBody(k, r, p, b, f)
  <2>1. 2 * (Len(r.headers) + 2) + Len(p.body) \in Nat
    <3>1. Len(r.headers) \in Nat
      BY LineCount
    <3>2. Len(p.body) \in Nat
      <4>1. p \in ParserType(n)
        BY DEF ParserOK
      <4>2. p.body \in Seq(TokenType(n))
        BY <4>1, ParserFields
      <4> QED
        BY <4>2, Elements
    <3>3. \A x, y \in Nat : 2 * (x + 2) + y \in Nat
      OBVIOUS
    <3> QED
      BY <3>1, <3>2, <3>3, Zenon
  <2>2. Unread(T, 2 * (Len(r.headers) + 2) + Len(p.body), a, z)
    BY <1>2, <1>5, <2>1 DEF AtBody, T
  <2>3. AtBody(k, r, p, a, z)
    BY <1>5, <2>2 DEF AtBody, T
  <2> QED
    BY <2>3 DEF Arrived, a, z
<1>6. CASE p.state = "ERROR"
  BY <1>6 DEF Arrived
<1> QED
  BY <1>3, <1>4, <1>5, <1>6 DEF Underway

\* What feed() leaves: a complete request, or one that is still under way.
Outcome(k, r, x, f) ==
    \/ AtEnd(k, r, x[1], x[2], f)
    \/ Underway(k, r, x[1], x[2], f) /\ x[1].state # "DONE"

\* try_parse_body, at the body of the request.
LEMMA FromBody ==
    ASSUME NEW n \in Nat, NEW k \in 1..n, NEW r \in Requests, sent[k] = r,
           NEW p, ParserOK(p, n), NEW b \in Seq(TokenType(n)), NEW f \in Seq(TokenType(n)),
           AtBody(k, r, p, b, f)
    PROVE  Outcome(k, r, TryParseBody(<<p, b>>), f)
<1>1. PICK q : /\ TryParseBody(<<p, b>>) = <<q, <<>> >>
               /\ AtBody(k, r, q, <<>>, f) \/ AtEnd(k, r, q, <<>>, f)
  BY BodyPhase
<1>2. AtBody(k, r, q, <<>>, f) => q.state # "DONE" /\ Underway(k, r, q, <<>>, f)
  BY DEF AtBody, Underway
<1>3. <<q, <<>> >>[1] = q /\ <<q, <<>> >>[2] = <<>>
  OBVIOUS
<1> QED
  BY <1>1, <1>2, <1>3 DEF Outcome

\* A parser in another state is left alone.
LEMMA Skipped ==
    ASSUME NEW n, NEW p, ParserOK(p, n), NEW b
    PROVE  /\ p.state # "LINE" => TryParseLine(<<p, b>>) = <<p, b>>
           /\ p.state # "HEADER" => TryParseHeader(<<p, b>>) = <<p, b>>
           /\ p.state # "BODY" => TryParseBody(<<p, b>>) = <<p, b>>
<1>1. p \in ParserType(n)
  BY DEF ParserOK
<1>2. p.state # "LINE" => TryParseLine(<<p, b>>) = <<p, b>>
  BY <1>1, LineStep DEF LineThere
<1>3. p.state # "HEADER" => TryParseHeader(<<p, b>>) = <<p, b>>
  BY <1>1, HeaderStep
<1>4. p.state # "BODY" => TryParseBody(<<p, b>>) = <<p, b>>
  BY <1>1, BodyStep
<1> QED
  BY <1>2, <1>3, <1>4

\* try_parse_header and try_parse_body, at one of its headers.
LEMMA FromHeader ==
    ASSUME NEW n \in Nat, NEW k \in 1..n, NEW r \in Requests, sent[k] = r,
           NEW p, ParserOK(p, n), NEW b \in Seq(TokenType(n)), NEW f \in Seq(TokenType(n)),
           NEW c, AtHeader(k, r, c, p, b, f)
    PROVE  Outcome(k, r, TryParseBody(TryParseHeader(<<p, b>>)), f)
<1>1. PICK q, z : /\ TryParseHeader(<<p, b>>) = <<q, z>>
                  /\ \/ \E e \in Nat : AtHeader(k, r, e, q, z, f)
                     \/ AtBody(k, r, q, z, f)
                     \/ q.state = "ERROR"
  BY HeaderPhase
<1>2. <<q, z>>[1] = q /\ <<q, z>>[2] = z
  OBVIOUS
<1>3. ParserOK(q, n) /\ z \in Seq(TokenType(n))
  <2>1. Fed(<<q, z>>, n)
    BY <1>1, HeaderTyped
  <2> QED
    BY <1>2, <2>1 DEF Fed
<1>4. CASE AtBody(k, r, q, z, f)
  BY <1>1, <1>3, <1>4, FromBody
<1>5. CASE q.state # "BODY" /\ ((\E e \in Nat : AtHeader(k, r, e, q, z, f)) \/ q.state = "ERROR")
  <2>1. TryParseBody(TryParseHeader(<<p, b>>)) = <<q, z>>
    BY <1>1, <1>3, <1>5, Skipped
  <2>2. Underway(k, r, q, z, f) /\ q.state # "DONE"
    BY <1>5 DEF Underway, AtHeader
  <2> QED
    BY <1>2, <2>1, <2>2 DEF Outcome
<1>6. (\E e \in Nat : AtHeader(k, r, e, q, z, f)) \/ q.state = "ERROR" => q.state # "BODY"
  BY DEF AtHeader
<1> QED
  BY <1>1, <1>4, <1>5, <1>6

\* feed() on what has arrived.
LEMMA FeedPhase ==
    ASSUME NEW n \in Nat, NEW k \in 1..n, NEW r \in Requests, sent[k] = r,
           NEW p, ParserOK(p, n), NEW b \in Seq(TokenType(n)), NEW f \in Seq(TokenType(n)),
           Arrived(k, r, p, b, f)
    PROVE  Outcome(k, r, Body(p, b), f)
<1>0. <<p, b>>[1] = p /\ <<p, b>>[2] = b
  OBVIOUS
<1>1. CASE AtLine(k, r, p, b, f)
  <2>1. CASE Line(p, b) = <<p, b>>
    <3>1. p.state = "LINE"
      BY <1>1 DEF AtLine
    <3>2. Body(p, b) = <<p, b>>
      BY <2>1, <3>1, Skipped DEF Body, Header
    <3>3. Underway(k, r, p, b, f) /\ p.state # "DONE"
      BY <1>1, <3>1 DEF Underway
    <3> QED
      BY <1>0, <3>2, <3>3 DEF Outcome
  <2>2. CASE \E q, z : Line(p, b) = <<q, z>> /\ AtHeader(k, r, 1, q, z, f)
    <3>1. PICK q, z : Line(p, b) = <<q, z>> /\ AtHeader(k, r, 1, q, z, f)
      BY <2>2
    <3>2. <<q, z>>[1] = q /\ <<q, z>>[2] = z
      OBVIOUS
    <3>3. Fed(<<q, z>>, n)
      BY <3>1, FeedTyped
    <3>4. ParserOK(q, n) /\ z \in Seq(TokenType(n))
      BY <3>2, <3>3 DEF Fed
    <3> QED
      BY <3>1, <3>4, FromHeader DEF Body, Header
  <2> QED
    BY <1>1, <2>1, <2>2, LinePhase DEF Line
<1>2. CASE \E c \in Nat : AtHeader(k, r, c, p, b, f)
  <2>1. PICK c \in Nat : AtHeader(k, r, c, p, b, f)
    BY <1>2
  <2>2. p.state = "HEADER"
    BY <2>1 DEF AtHeader
  <2>3. Line(p, b) = <<p, b>>
    BY <2>2, Skipped DEF Line
  <2> QED
    BY <2>1, <2>3, FromHeader DEF Body, Header
<1>3. CASE AtBody(k, r, p, b, f)
  <2>1. p.state = "BODY"
    BY <1>3 DEF AtBody
  <2>2. Header(p, b) = <<p, b>>
    BY <2>1, Skipped DEF Line, Header
  <2> QED
    BY <1>3, <2>2, FromBody DEF Body
<1>4. CASE p.state = "ERROR"
  <2>1. Body(p, b) = <<p, b>>
    BY <1>4, Skipped DEF Line, Header, Body
  <2>2. Underway(k, r, p, b, f) /\ p.state # "DONE"
    BY <1>4 DEF Underway
  <2> QED
    BY <1>0, <2>1, <2>2 DEF Outcome
<1> QED
  BY <1>1, <1>2, <1>3, <1>4 DEF Arrived

(***************************************************************************)
(* The response.                                                           *)
(***************************************************************************)
After(k, r, route) == RouteEffects(k, r)[route]

Fits(x, code, body, sendfile, filesize, file, cookie) ==
    /\ x \in ResponseType
    /\ x.code = code /\ x.body = body /\ x.sendfile = sendfile
    /\ x.filesize = filesize /\ x.file = file /\ x.cookie = cookie

\* The members of a response that was just made.
LEMMA NewResponseFits ==
    ASSUME NEW c \in {200, 400, 404}, NEW b \in ContentType
    PROVE  Fits(NewResponse(c, b), c, b, FALSE, 0, 0, 0)
BY DEF Fits, NewResponse, ResponseType

\* A response and its members.
LEMMA ResponseFits ==
    ASSUME NEW r \in ResponseType
    PROVE  Fits(r, r.code, r.body, r.sendfile, r.filesize, r.file, r.cookie)
BY DEF Fits

\* What each route makes of the response.
LEMMA RouteResult ==
    ASSUME NEW k \in Nat, NEW r \in ResponseType
    PROVE  /\ After(k, r, "none") = r
           /\ Fits(After(k, r, "value"), 200, Content(k, 1), FALSE, 0, 0, 0)
           /\ Fits(After(k, r, "file"), 200, r.body, TRUE, FileSize, k, r.cookie)
           /\ Fits(After(k, r, "nofile"), 404, r.body, r.sendfile, r.filesize, r.file, r.cookie)
           /\ Fits(After(k, r, "load"), r.code, Content(k, LoadSize), r.sendfile, LoadSize,
                   r.file, r.cookie)
           /\ Fits(After(k, r, "session"), r.code, r.body, r.sendfile, r.filesize, r.file, k)
<1>0. /\ FileSize \in Nat /\ LoadSize \in Nat
      /\ \A n \in Nat : Content(k, n) \in ContentType
  BY HttpAssumption DEF Content, ContentType
<1>1. After(k, r, "none") = r
  BY DEF After, RouteEffects
<1>2. After(k, r, "value") = NewResponse(200, Content(k, 1))
  BY DEF After, RouteEffects, Assign
<1>3. After(k, r, "file") =
      [r EXCEPT !.code = 200, !.sendfile = TRUE, !.filesize = FileSize, !.file = k]
  BY DEF After, RouteEffects
<1>4. After(k, r, "nofile") = [r EXCEPT !.code = 404]
  BY DEF After, RouteEffects
<1>5. After(k, r, "load") = [r EXCEPT !.filesize = LoadSize, !.body = Content(k, LoadSize)]
  BY DEF After, RouteEffects
<1>6. After(k, r, "session") = [r EXCEPT !.cookie = k]
  BY DEF After, RouteEffects
<1>7. Fits(After(k, r, "value"), 200, Content(k, 1), FALSE, 0, 0, 0)
  <2> DEFINE c == 200
             b == Content(k, 1)
  <2>1. b \in ContentType /\ c \in {200, 400, 404} /\ After(k, r, "value") = NewResponse(c, b)
    BY <1>0, <1>2
  <2> HIDE DEF b, c
  <2>2. Fits(NewResponse(c, b), c, b, FALSE, 0, 0, 0)
    BY <2>1, NewResponseFits
  <2> QED
    BY <2>1, <2>2 DEF b, c
<1>8. Fits(After(k, r, "file"), 200, r.body, TRUE, FileSize, k, r.cookie)
  <2> DEFINE a == [r EXCEPT !.code = 200]
             b == [a EXCEPT !.sendfile = TRUE]
             c == [b EXCEPT !.filesize = FileSize]
             d == [c EXCEPT !.file = k]
  <2>1. After(k, r, "file") = d
    BY <1>3
  <2>2. Fits(a, 200, r.body, r.sendfile, r.filesize, r.file, r.cookie)
    BY DEF Fits, ResponseType
  <2> HIDE DEF a
  <2>3. Fits(b, 200, r.body, TRUE, r.filesize, r.file, r.cookie)
    <3>1. /\ a \in ResponseType /\ a.code = 200 /\ a.body = r.body
          /\ a.filesize = r.filesize /\ a.file = r.file /\ a.cookie = r.cookie
      BY <2>2 DEF Fits
    <3>2. \A v \in BOOLEAN : LET x == [a EXCEPT !.sendfile = v]
                             IN  /\ x \in ResponseType /\ x.sendfile = v
                                 /\ x.code = a.code /\ x.body = a.body
                                 /\ x.filesize = a.filesize /\ x.file = a.file
                                 /\ x.cookie = a.cookie
      BY <3>1 DEF ResponseType
    <3> QED
      BY <3>1, <3>2 DEF Fits
  <2> HIDE DEF b
  <2>4. Fits(c, 200, r.body, TRUE, FileSize, r.file, r.cookie)
    BY <1>0, <2>3 DEF Fits, ResponseType
  <2> HIDE DEF c
  <2>5. Fits(d, 200, r.body, TRUE, FileSize, k, r.cookie)
    BY <2>4 DEF Fits, ResponseType
  <2> HIDE DEF d
  <2> QED
    BY <2>1, <2>5
<1>9. Fits(After(k, r, "nofile"), 404, r.body, r.sendfile, r.filesize, r.file, r.cookie)
  BY <1>4 DEF Fits, ResponseType
<1>10. Fits(After(k, r, "load"), r.code, Content(k, LoadSize), r.sendfile, LoadSize,
            r.file, r.cookie)
  <2> DEFINE x == Content(k, LoadSize)
             a == [r EXCEPT !.filesize = LoadSize]
             b == [a EXCEPT !.body = x]
  <2>0. x \in ContentType
    BY <1>0
  <2>1. After(k, r, "load") = b
    BY <1>5
  <2> HIDE DEF x
  <2>2. Fits(a, r.code, r.body, r.sendfile, LoadSize, r.file, r.cookie)
    BY <1>0 DEF Fits, ResponseType
  <2> HIDE DEF a
  <2>3. Fits(b, r.code, x, r.sendfile, LoadSize, r.file, r.cookie)
    BY <2>0, <2>2 DEF Fits, ResponseType
  <2> HIDE DEF b
  <2> QED
    BY <2>1, <2>3 DEF x
<1>11. Fits(After(k, r, "session"), r.code, r.body, r.sendfile, r.filesize, r.file, k)
  BY <1>6 DEF Fits, ResponseType
<1> QED
  BY <1>1, <1>7, <1>8, <1>9, <1>10, <1>11

\* complete_request.
LEMMA CompletedFits ==
    ASSUME NEW x, NEW c, NEW b, NEW s, NEW z, NEW f, NEW k, Fits(x, c, b, s, z, f, k)
    PROVE  /\ c >= 400 /\ b = Empty => Fits(Completed(x), c, StatusText, s, z, f, k)
           /\ ~(c >= 400 /\ b = Empty) => Fits(Completed(x), c, b, s, z, f, k)
<1>1. CASE ~(c >= 400 /\ b = Empty)
  <2>1. Completed(x) = x
    BY <1>1 DEF Completed, Fits
  <2> QED
    BY <1>1, <2>1
<1>2. CASE c >= 400 /\ b = Empty
  <2>1. Completed(x) = [x EXCEPT !.body = StatusText]
    BY <1>2 DEF Completed, Fits
  <2>2. StatusText \in ContentType
    BY DEF StatusText, Content, ContentType
  <2>3. Fits(Completed(x), c, StatusText, s, z, f, k)
    BY <2>1, <2>2 DEF Fits, ResponseType
  <2> QED
    BY <1>2, <2>3
<1> QED
  BY <1>1, <1>2

\* It keeps everything but the body.
LEMMA CompletedKeeps ==
    ASSUME NEW x, NEW c, NEW b, NEW s, NEW z, NEW f, NEW k, Fits(x, c, b, s, z, f, k),
           NEW y, y = Completed(x)
    PROVE  \E e : Fits(y, c, e, s, z, f, k)
<1>1. CASE c >= 400 /\ b = Empty
  <2>1. Fits(y, c, StatusText, s, z, f, k)
    BY <1>1, CompletedFits
  <2> QED
    BY <2>1
<1>2. CASE ~(c >= 400 /\ b = Empty)
  <2>1. Fits(y, c, b, s, z, f, k)
    BY <1>2, CompletedFits
  <2> QED
    BY <2>1
<1> QED
  BY <1>1, <1>2

\* The body of an error that has none.
LEMMA CompletedError ==
    ASSUME NEW x, NEW c, NEW s, NEW z, NEW f, NEW k, Fits(x, c, Empty, s, z, f, k), c >= 400,
           NEW y, y = Completed(x)
    PROVE  Fits(y, c, StatusText, s, z, f, k)
BY CompletedFits

\* The response that Respond sends, and keeps.
Final(k, r, route, nohost) ==
    Completed(IF nohost THEN Assign(r, NewResponse(400, Empty)) ELSE After(k, r, route))

FinalOK(y, k, r, route, nohost) ==
    /\ y \in ResponseType
    /\ nohost => y.code = 400 /\ y.body = StatusText /\ y.sendfile = FALSE /\ y.cookie = 0
    /\ ~nohost /\ route = "value" =>
           y.code = 200 /\ y.body = Content(k, 1) /\ y.sendfile = FALSE /\ y.cookie = 0
    /\ ~nohost /\ route = "file" => y.code = 200 /\ y.sendfile = TRUE /\ y.file = k
    /\ y.sendfile =>
           \/ route = "file" /\ y.filesize = FileSize
           \/ r.sendfile /\ (route = "load" \/ y.filesize = r.filesize)
    /\ ~nohost /\ route = "session" => y.cookie = k
    /\ ~nohost /\ route \notin {"value", "session"} => y.cookie = r.cookie

\* handle_read leaves such a response, whatever the last request left on the connection.
LEMMA FinalIsOK ==
    ASSUME NEW k \in Nat, NEW r \in ResponseType, NEW route \in Routes, NEW nohost \in BOOLEAN
    PROVE  FinalOK(Final(k, r, route, nohost), k, r, route, nohost)
<1> DEFINE y == Final(k, r, route, nohost)
<1>0. Empty \in ContentType
  BY DEF Empty, Content, ContentType
<1>1. CASE nohost
  <2> DEFINE c == 400
             x == NewResponse(c, Empty)
  <2>1. Fits(x, c, Empty, FALSE, 0, 0, 0)
    BY <1>0 DEF Fits, NewResponse, ResponseType
  <2>2. y = Completed(x)
    BY <1>1 DEF Final, Assign
  <2>3. c >= 400
    OBVIOUS
  <2> HIDE DEF x, y, c
  <2>4. Fits(y, c, StatusText, FALSE, 0, 0, 0)
    BY <2>1, <2>2, <2>3, CompletedError, Zenon
  <2>5. FinalOK(y, k, r, route, nohost)
    BY <1>1, <2>4 DEF Fits, FinalOK, c
  <2> QED
    BY <2>5 DEF y
<1>2. CASE ~nohost
  <2> DEFINE x == After(k, r, route)
  <2>1. y = Completed(x)
    BY <1>2 DEF Final
  <2>2. route \in {"none", "value", "file", "nofile", "load", "session"}
    BY DEF Routes
  <2> HIDE DEF y
  <2>3. CASE route = "none"
    <3>1. Fits(x, r.code, r.body, r.sendfile, r.filesize, r.file, r.cookie)
      <4>1. x = r
        BY <2>3, RouteResult
      <4> QED
        BY <4>1, ResponseFits
    <3> HIDE DEF x
    <3>2. PICK b : Fits(y, r.code, b, r.sendfile, r.filesize, r.file, r.cookie)
      BY <2>1, <3>1, CompletedKeeps, Zenon
    <3>3. FinalOK(y, k, r, route, nohost)
      BY <1>2, <2>3, <3>2 DEF Fits, FinalOK
    <3> QED
      BY <3>3 DEF y
  <2>4. CASE route = "value"
    <3>1. Fits(x, 200, Content(k, 1), FALSE, 0, 0, 0)
      BY <2>4, RouteResult
    <3> HIDE DEF x
    <3>2. ~(200 >= 400)
      OBVIOUS
    <3>3. Fits(y, 200, Content(k, 1), FALSE, 0, 0, 0)
      BY <2>1, <3>1, <3>2, CompletedFits, Zenon
    <3>4. FinalOK(y, k, r, route, nohost)
      BY <1>2, <2>4, <3>3 DEF Fits, FinalOK
    <3> QED
      BY <3>4 DEF y
  <2>5. CASE route = "file"
    <3>1. Fits(x, 200, r.body, TRUE, FileSize, k, r.cookie)
      BY <2>5, RouteResult
    <3> HIDE DEF x
    <3>2. PICK b : Fits(y, 200, b, TRUE, FileSize, k, r.cookie)
      <4>1. ASSUME NEW c, Fits(x, c, r.body, TRUE, FileSize, k, r.cookie)
            PROVE  \E b : Fits(y, c, b, TRUE, FileSize, k, r.cookie)
        BY <2>1, <4>1, CompletedKeeps, Zenon
      <4> QED
        BY <3>1, <4>1
    <3>3. FinalOK(y, k, r, route, nohost)
      BY <1>2, <2>5, <3>2 DEF Fits, FinalOK
    <3> QED
      BY <3>3 DEF y
  <2>6. CASE route = "nofile"
    <3>1. Fits(x, 404, r.body, r.sendfile, r.filesize, r.file, r.cookie)
      BY <2>6, RouteResult
    <3> HIDE DEF x
    <3>2. \E b : Fits(y, 404, b, r.sendfile, r.filesize, r.file, r.cookie)
      <4>1. ASSUME NEW c, Fits(x, c, r.body, r.sendfile, r.filesize, r.file, r.cookie)
            PROVE  \E b : Fits(y, c, b, r.sendfile, r.filesize, r.file, r.cookie)
        BY <2>1, <4>1, CompletedKeeps, Zenon
      <4> QED
        BY <3>1, <4>1
    <3>3. FinalOK(y, k, r, route, nohost)
      <4>1. PICK b : Fits(y, 404, b, r.sendfile, r.filesize, r.file, r.cookie)
        BY <3>2
      <4> QED
        BY <1>2, <2>6, <4>1 DEF Fits, FinalOK
    <3> QED
      BY <3>3 DEF y
  <2>7. CASE route = "load"
    <3>1. Fits(x, r.code, Content(k, LoadSize), r.sendfile, LoadSize, r.file, r.cookie)
      BY <2>7, RouteResult
    <3> HIDE DEF x
    <3>2. PICK b : Fits(y, r.code, b, r.sendfile, LoadSize, r.file, r.cookie)
      BY <2>1, <3>1, CompletedKeeps, Zenon
    <3>3. FinalOK(y, k, r, route, nohost)
      BY <1>2, <2>7, <3>2 DEF Fits, FinalOK
    <3> QED
      BY <3>3 DEF y
  <2>8. CASE route = "session"
    <3>1. Fits(x, r.code, r.body, r.sendfile, r.filesize, r.file, k)
      BY <2>8, RouteResult
    <3> HIDE DEF x
    <3>2. PICK b : Fits(y, r.code, b, r.sendfile, r.filesize, r.file, k)
      BY <2>1, <3>1, CompletedKeeps, Zenon
    <3>3. FinalOK(y, k, r, route, nohost)
      BY <1>2, <2>8, <3>2 DEF Fits, FinalOK
    <3> QED
      BY <3>3 DEF y
  <2> QED
    BY <2>2, <2>3, <2>4, <2>5, <2>6, <2>7, <2>8
<1> QED
  BY <1>1, <1>2

\* What is sent for it.
LEMMA MessageFields ==
    ASSUME NEW y \in ResponseType
    PROVE  /\ Message(y) \in AnswerType
           /\ Message(y).code = y.code /\ Message(y).cookie = y.cookie
           /\ y.sendfile => /\ Message(y).content = Content(y.file, FileSize)
                            /\ Message(y).length = y.filesize
           /\ ~y.sendfile => /\ Message(y).content = y.body
                             /\ Message(y).length = y.body.size
<1>1. /\ y.code \in {200, 400, 404} /\ y.body \in ContentType /\ y.sendfile \in BOOLEAN
      /\ y.filesize \in Nat /\ y.file \in Nat /\ y.cookie \in Nat
  BY DEF ResponseType
<1>2. y.body.size \in Nat /\ Content(y.file, FileSize) \in ContentType
  BY <1>1, HttpAssumption DEF ContentType, Content
<1>3. CASE y.sendfile
  <2>1. Message(y) = [code |-> y.code, cookie |-> y.cookie, length |-> y.filesize,
                      content |-> Content(y.file, FileSize)]
    BY <1>3 DEF Message
  <2> QED
    BY <1>1, <1>2, <1>3, <2>1 DEF AnswerType
<1>4. CASE ~y.sendfile
  <2>1. Message(y) = [code |-> y.code, cookie |-> y.cookie, length |-> y.body.size,
                      content |-> y.body]
    BY <1>4 DEF Message
  <2> QED
    BY <1>1, <1>2, <1>4, <2>1 DEF AnswerType
<1> QED
  BY <1>3, <1>4

(***************************************************************************)
(* The histories.                                                          *)
(***************************************************************************)

\* Routes used before do not depend on the request that is added.
LEMMA UsedBefore ==
    ASSUME NEW S, NEW s, NEW q \in Seq(S), NEW e \in S, NEW route, NEW i \in 0..Len(q)
    PROVE  UsedIn(s, Append(q, e), route, i) <=> UsedIn(s, q, route, i)
<1>1. Len(q) \in Nat /\ \A j \in 1..Len(q) : Append(q, e)[j] = q[j]
  BY Longer
<1>2. \A j \in 1..i : Append(q, e)[j] = q[j]
  BY <1>1
<1> QED
  BY <1>2 DEF UsedIn

\* The routes used with the one of the query that is added.
LEMMA UsedNow ==
    ASSUME NEW S, NEW s, NEW q \in Seq(S), NEW e \in S, NEW route
    PROVE  UsedIn(s, Append(q, e), route, Len(q) + 1)
               <=> UsedIn(s, q, route, Len(q)) \/ s[e.line].route = route
<1>1. /\ Len(q) \in Nat /\ \A j \in 1..Len(q) : Append(q, e)[j] = q[j]
      /\ Append(q, e)[Len(q) + 1] = e
  BY Longer
<1>2. 1..(Len(q) + 1) = 1..Len(q) \cup {Len(q) + 1}
  BY <1>1
<1> QED
  BY <1>1, <1>2 DEF UsedIn

\* An answer more.
LEMMA AnswerStep ==
    ASSUME NEW n, NEW s, NEW q \in Seq(QueryType(n)), NEW a \in Seq(AnswerType), Len(q) = Len(a),
           NEW e \in QueryType(n), NEW r \in ResponseType, NEW y,
           FinalOK(y, e.line, r, s[e.line].route, HostMissing(s, e)),
           AllOwn(s, q, a), AllMeasured(s, q, a), Sized(s, q, r)
    PROVE  /\ AllOwn(s, Append(q, e), Append(a, Message(y)))
           /\ AllMeasured(s, Append(q, e), Append(a, Message(y)))
           /\ Sized(s, Append(q, e), y)
<1> DEFINE m == Message(y)
           qq == Append(q, e)
           aa == Append(a, m)
           l == Len(q)
<1>1. y \in ResponseType
  BY DEF FinalOK
<1>2. m \in AnswerType
  BY <1>1, MessageFields
<1> HIDE DEF m
<1>3. /\ l \in Nat /\ Len(qq) = l + 1 /\ qq[l + 1] = e
      /\ \A i \in 1..l : qq[i] = q[i]
      /\ aa[l + 1] = m
      /\ \A i \in 1..l : aa[i] = a[i]
  BY <1>2, Longer
<1>4. UsedIn(s, qq, "file", l + 1) <=> UsedIn(s, q, "file", l) \/ s[e.line].route = "file"
  BY UsedNow
<1>5. UsedIn(s, qq, "load", l + 1) <=> UsedIn(s, q, "load", l) \/ s[e.line].route = "load"
  BY UsedNow
<1>6. ASSUME NEW i \in 1..l, NEW route PROVE UsedIn(s, qq, route, i) <=> UsedIn(s, q, route, i)
  <2>1. i \in 0..Len(q)
    BY <1>3
  <2> QED
    BY <2>1, UsedBefore
<1> HIDE DEF qq, aa, l
<1>7. Sized(s, qq, y)
  <2> SUFFICES ASSUME y.sendfile
               PROVE  /\ UsedIn(s, qq, "file", l + 1)
                      /\ UsedIn(s, qq, "load", l + 1) \/ y.filesize = FileSize
    BY <1>3 DEF Sized
  <2>1. \/ s[e.line].route = "file" /\ y.filesize = FileSize
        \/ r.sendfile /\ (s[e.line].route = "load" \/ y.filesize = r.filesize)
    BY DEF FinalOK
  <2>2. r.sendfile => /\ UsedIn(s, q, "file", l)
                      /\ UsedIn(s, q, "load", l) \/ r.filesize = FileSize
    BY DEF Sized, l
  <2> QED
    BY <1>4, <1>5, <2>1, <2>2
<1>8. Own(s, e, m)
  <2> DEFINE k == e.line
             route == s[e.line].route
             nohost == HostMissing(s, e)
  <2>1. /\ nohost => y.code = 400 /\ y.body = StatusText /\ y.sendfile = FALSE /\ y.cookie = 0
        /\ ~nohost /\ route = "value" =>
               y.code = 200 /\ y.body = Content(k, 1) /\ y.sendfile = FALSE /\ y.cookie = 0
        /\ ~nohost /\ route = "file" => y.code = 200 /\ y.sendfile = TRUE /\ y.file = k
        /\ ~nohost /\ route = "session" => y.cookie = k
    BY DEF FinalOK
  <2>2. /\ m.code = y.code /\ m.cookie = y.cookie
        /\ y.sendfile => m.content = Content(y.file, FileSize)
        /\ ~y.sendfile => m.content = y.body
    BY <1>1, MessageFields DEF m
  <2> QED
    BY <2>1, <2>2 DEF Own
<1>9. AllOwn(s, qq, aa)
  <2> SUFFICES ASSUME NEW i \in 1..(l + 1) PROVE Own(s, qq[i], aa[i])
    BY <1>3 DEF AllOwn
  <2>1. CASE i \in 1..l
    <3>1. Own(s, q[i], a[i])
      BY <2>1 DEF AllOwn, l
    <3> QED
      BY <1>3, <2>1, <3>1
  <2>2. CASE i = l + 1
    BY <1>3, <1>8, <2>2
  <2> QED
    BY <1>3, <2>1, <2>2
<1>10. ~(UsedIn(s, qq, "file", l + 1) /\ UsedIn(s, qq, "load", l + 1)) => m.length = m.content.size
  <2>1. y.sendfile => /\ m.content = Content(y.file, FileSize) /\ m.length = y.filesize
    BY <1>1, MessageFields DEF m
  <2>2. ~y.sendfile => m.content = y.body /\ m.length = y.body.size
    BY <1>1, MessageFields DEF m
  <2>3. Content(y.file, FileSize).size = FileSize
    BY DEF Content
  <2>4. y.sendfile => /\ UsedIn(s, qq, "file", l + 1)
                      /\ UsedIn(s, qq, "load", l + 1) \/ y.filesize = FileSize
    BY <1>3, <1>7 DEF Sized
  <2> QED
    BY <2>1, <2>2, <2>3, <2>4
<1>11. AllMeasured(s, qq, aa)
  <2> SUFFICES ASSUME NEW i \in 1..(l + 1) PROVE Measured(s, qq, aa, i)
    BY <1>3 DEF AllMeasured
  <2>1. CASE i \in 1..l
    <3>1. Measured(s, q, a, i)
      BY <2>1 DEF AllMeasured, l
    <3>2. aa[i] = a[i]
      BY <1>3, <2>1
    <3> QED
      BY <1>6, <2>1, <3>1, <3>2 DEF Measured
  <2>2. CASE i = l + 1
    BY <1>3, <1>10, <2>2 DEF Measured
  <2> QED
    BY <1>3, <2>1, <2>2
<1> QED
  BY <1>7, <1>9, <1>11 DEF qq, aa, m

\* A session that an earlier answer may mention does not depend on the query added.
LEMMA SessionBefore ==
    ASSUME NEW S, NEW s, NEW q \in Seq(S), NEW e \in S, NEW c, NEW i \in 0..Len(q),
           SessionIn(s, q, c, i)
    PROVE  SessionIn(s, Append(q, e), c, i)
<1>1. Len(q) \in Nat /\ \A j \in 1..Len(q) : Append(q, e)[j] = q[j]
  BY Longer
<1>2. \A j \in 1..i : Append(q, e)[j] = q[j]
  BY <1>1
<1>3. \A j \in 1..i : \A m \in j..i : Append(q, e)[m] = q[m]
  BY <1>1
<1> QED
  BY <1>2, <1>3 DEF SessionIn, ReplacedIn

\* The cookie of an answer more.
LEMMA CookieStep ==
    ASSUME NEW n, NEW s, NEW q \in Seq(QueryType(n)), NEW a \in Seq(AnswerType), Len(q) = Len(a),
           NEW e \in QueryType(n), NEW r \in ResponseType, NEW y,
           FinalOK(y, e.line, r, s[e.line].route, HostMissing(s, e)),
           AllCookies(s, q, a), CookieKept(s, q, r)
    PROVE  /\ AllCookies(s, Append(q, e), Append(a, Message(y)))
           /\ CookieKept(s, Append(q, e), y)
<1> DEFINE m == Message(y)
           qq == Append(q, e)
           aa == Append(a, m)
           l == Len(q)
           route == s[e.line].route
           nohost == HostMissing(s, e)
<1>1. y \in ResponseType
  BY DEF FinalOK
<1>2. m \in AnswerType /\ m.cookie = y.cookie
  BY <1>1, MessageFields
<1> HIDE DEF m
<1>3. /\ l \in Nat /\ Len(qq) = l + 1 /\ qq[l + 1] = e
      /\ \A i \in 1..l : qq[i] = q[i]
      /\ aa[l + 1] = m
      /\ \A i \in 1..l : aa[i] = a[i]
  BY <1>2, Longer
<1>4. ASSUME NEW i \in 0..l, NEW c, SessionIn(s, q, c, i) PROVE SessionIn(s, qq, c, i)
  BY <1>4, SessionBefore
<1>5. /\ nohost => y.cookie = 0
      /\ ~nohost /\ route = "value" => y.cookie = 0
      /\ ~nohost /\ route = "session" => y.cookie = e.line
      /\ ~nohost /\ route \notin {"value", "session"} => y.cookie = r.cookie
  BY DEF FinalOK
<1> HIDE DEF qq, aa
<1>6. ASSUME y.cookie # 0 PROVE SessionIn(s, qq, y.cookie, l + 1)
  <2>1. ~nohost /\ route # "value"
    BY <1>5, <1>6
  <2>2. ~ReplacedIn(s, qq, l + 1)
    BY <1>3, <2>1 DEF ReplacedIn
  <2>3. CASE route = "session"
    <3>1. l + 1 \in 1..(l + 1) /\ (l + 1)..(l + 1) = {l + 1}
      BY <1>3
    <3>2. qq[l + 1].line = y.cookie /\ s[qq[l + 1].line].route = "session"
      BY <1>3, <1>5, <2>1, <2>3
    <3> QED
      BY <2>2, <3>1, <3>2 DEF SessionIn
  <2>4. CASE route # "session"
    <3>1. y.cookie = r.cookie
      BY <1>5, <2>1, <2>4
    <3>2. SessionIn(s, q, y.cookie, l)
      BY <1>6, <3>1 DEF CookieKept
    <3>3. l \in 0..l
      BY <1>3
    <3>4. SessionIn(s, qq, y.cookie, l)
      BY <1>4, <3>2, <3>3
    <3>5. PICK j \in 1..l : /\ qq[j].line = y.cookie
                            /\ s[qq[j].line].route = "session"
                            /\ \A i \in j..l : ~ReplacedIn(s, qq, i)
      BY <3>4 DEF SessionIn
    <3>6. j \in 1..(l + 1) /\ \A i \in j..(l + 1) : i \in j..l \/ i = l + 1
      BY <1>3
    <3>7. \A i \in j..(l + 1) : ~ReplacedIn(s, qq, i)
      BY <2>2, <3>5, <3>6
    <3> QED
      BY <3>5, <3>6, <3>7 DEF SessionIn
  <2> QED
    BY <2>3, <2>4
<1>7. CookieKept(s, qq, y)
  BY <1>3, <1>6 DEF CookieKept
<1>8. AllCookies(s, qq, aa)
  <2> SUFFICES ASSUME NEW i \in 1..(l + 1), aa[i].cookie # 0
               PROVE  SessionIn(s, qq, aa[i].cookie, i)
    BY <1>3 DEF AllCookies
  <2>1. CASE i \in 1..l
    <3>1. aa[i] = a[i] /\ i \in 0..l
      BY <1>3, <2>1
    <3>2. SessionIn(s, q, aa[i].cookie, i)
      BY <2>1, <3>1 DEF AllCookies
    <3> QED
      BY <1>4, <3>1, <3>2
  <2>2. CASE i = l + 1
    BY <1>2, <1>3, <1>6, <2>2
  <2> QED
    BY <1>3, <2>1, <2>2
<1> QED
  BY <1>7, <1>8 DEF qq, aa, m

\* A request more leaves what is said of the cookies.
LEMMA CookiesStay ==
    ASSUME NEW s \in Seq(Requests), NEW e \in Requests, NEW q \in Seq(QueryType(Len(s))),
           NEW a, NEW r, AllCookies(s, q, a), CookieKept(s, q, r)
    PROVE  AllCookies(Append(s, e), q, a) /\ CookieKept(Append(s, e), q, r)
<1> DEFINE t == Append(s, e)
<1>1. Len(q) \in Nat /\ \A i \in 1..Len(q) : q[i].line \in 1..Len(s)
  <2>1. Len(q) \in Nat /\ \A i \in 1..Len(q) : q[i] \in QueryType(Len(s))
    BY Elements
  <2> QED
    BY <2>1 DEF QueryType
<1>2. \A i \in 1..Len(s) : t[i] = s[i]
  BY Longer
<1>3. \A i \in 1..Len(q) : t[q[i].line] = s[q[i].line]
  BY <1>1, <1>2
<1> HIDE DEF t
<1>4. ASSUME NEW i \in 0..Len(q), NEW c, SessionIn(s, q, c, i) PROVE SessionIn(t, q, c, i)
  <2>1. \A j \in 1..i : t[q[j].line] = s[q[j].line]
    BY <1>1, <1>3
  <2>2. \A j \in 1..i : \A m \in j..i : t[q[m].line] = s[q[m].line]
    BY <1>1, <1>3
  <2> QED
    BY <1>4, <2>1, <2>2 DEF SessionIn, ReplacedIn, HostMissing
<1>5. \A i \in 1..Len(q) : i \in 0..Len(q)
  BY <1>1
<1>6. Len(q) \in 0..Len(q)
  BY <1>1
<1>7. AllCookies(t, q, a)
  BY <1>4, <1>5 DEF AllCookies
<1>8. CookieKept(t, q, r)
  BY <1>4, <1>6 DEF CookieKept
<1> QED
  BY <1>7, <1>8 DEF t

\* A request more leaves what is said of the earlier ones.
LEMMA SentGrows ==
    ASSUME NEW s \in Seq(Requests), NEW e \in Requests, NEW q \in Seq(QueryType(Len(s))),
           NEW a, NEW r, AllOwn(s, q, a), AllMeasured(s, q, a), Sized(s, q, r)
    PROVE  /\ AllOwn(Append(s, e), q, a)
           /\ AllMeasured(Append(s, e), q, a)
           /\ Sized(Append(s, e), q, r)
<1> DEFINE t == Append(s, e)
<1>1. \A i \in 1..Len(q) : q[i] \in QueryType(Len(s))
  BY Elements
<1>2. \A i \in 1..Len(q) : q[i].line \in 1..Len(s)
  BY <1>1 DEF QueryType
<1>3. \A i \in 1..Len(s) : t[i] = s[i]
  BY Longer
<1>4. \A i \in 1..Len(q) : t[q[i].line] = s[q[i].line]
  BY <1>2, <1>3
<1>5. Len(q) \in Nat
  BY Elements
<1> HIDE DEF t
<1>6. AllOwn(t, q, a)
  <2> SUFFICES ASSUME NEW i \in 1..Len(q) PROVE Own(t, q[i], a[i])
    BY DEF AllOwn
  <2>1. Own(s, q[i], a[i])
    BY DEF AllOwn
  <2>2. t[q[i].line] = s[q[i].line]
    BY <1>4
  <2> QED
    BY <2>1, <2>2 DEF Own, HostMissing
<1>7. ASSUME NEW i \in 0..Len(q), NEW route PROVE UsedIn(t, q, route, i) <=> UsedIn(s, q, route, i)
  <2>1. \A j \in 1..i : t[q[j].line] = s[q[j].line]
    BY <1>4, <1>5
  <2> QED
    BY <2>1 DEF UsedIn
<1>8. AllMeasured(t, q, a)
  <2> SUFFICES ASSUME NEW i \in 1..Len(q) PROVE Measured(t, q, a, i)
    BY DEF AllMeasured
  <2>1. Measured(s, q, a, i)
    BY DEF AllMeasured
  <2>2. i \in 0..Len(q)
    BY <1>5
  <2> QED
    BY <1>7, <2>1, <2>2 DEF Measured
<1>9. Sized(t, q, r)
  <2>1. Len(q) \in 0..Len(q)
    BY <1>5
  <2> QED
    BY <1>7, <2>1 DEF Sized
<1> QED
  BY <1>6, <1>8, <1>9 DEF t

\* The requests handed to the handler so far, and one more that arrived as it was sent.
LEMMA IntactGrows ==
    ASSUME NEW S, NEW s, NEW q \in Seq(S), NEW e \in S,
           AllIntact(s, q), Intact(s, Len(q) + 1, e)
    PROVE  AllIntact(s, Append(q, e))
<1>1. /\ Len(q) \in Nat /\ Len(Append(q, e)) = Len(q) + 1
      /\ \A i \in 1..Len(q) : Append(q, e)[i] = q[i]
      /\ Append(q, e)[Len(q) + 1] = e
  BY Longer
<1> SUFFICES ASSUME NEW k \in 1..(Len(q) + 1) PROVE Intact(s, k, Append(q, e)[k])
  BY <1>1 DEF AllIntact
<1>2. CASE k \in 1..Len(q)
  <2>1. Append(q, e)[k] = q[k]
    BY <1>1, <1>2
  <2> QED
    BY <1>2, <2>1 DEF AllIntact
<1>3. CASE k = Len(q) + 1
  BY <1>1, <1>3
<1> QED
  BY <1>1, <1>2, <1>3

\* A request that is sent later does not disturb the queries that were parsed.
LEMMA IntactStays ==
    ASSUME NEW s \in Seq(Requests), NEW e \in Requests, NEW q, Len(q) \in Nat,
           Len(q) <= Len(s), AllIntact(s, q)
    PROVE  AllIntact(Append(s, e), q)
<1> DEFINE t == Append(s, e)
<1>1. Len(s) \in Nat /\ \A i \in 1..Len(s) : t[i] = s[i]
  BY Longer
<1> HIDE DEF t
<1> SUFFICES ASSUME NEW k \in 1..Len(q) PROVE Intact(t, k, q[k])
  BY DEF AllIntact, t
<1>2. Intact(s, k, q[k])
  BY DEF AllIntact
<1>3. t[k] = s[k] /\ \A j \in 1..k : t[j] = s[j]
  BY <1>1
<1>4. AllGood(s, k) => AllGood(t, k)
  BY <1>3 DEF AllGood
<1> QED
  BY <1>2, <1>3, <1>4 DEF Intact

\* The last of the requests is good when it and all before it are.
LEMMA EndIsIntact ==
    ASSUME NEW n \in Nat, NEW s \in Seq(Requests), NEW q, Len(q) \in Nat,
           Len(s) = Len(q) + 1, AllIntact(s, q),
           NEW p \in ParserType(n), NEW b, NEW f, AtEnd(Len(s), s[Len(s)], p, b, f)
    PROVE  Intact(s, Len(q) + 1, ToRequest(p))
<1> DEFINE k == Len(q) + 1
<1>1. AllGood(s, k)
  <2> SUFFICES ASSUME NEW j \in 1..k PROVE s[j].bad = ""
    BY DEF AllGood
  <2>1. CASE j = k
    BY <2>1 DEF AtEnd
  <2>2. CASE j # k
    <3>1. j \in 1..Len(q)
      BY <2>2
    <3>2. AllGood(s, j)
      BY <3>1 DEF AllIntact, Intact
    <3>3. j \in 1..j
      BY <3>1
    <3> QED
      BY <3>2, <3>3 DEF AllGood
  <2> QED
    BY <2>1, <2>2
<1>2. /\ p.line = k /\ p.headers = Range(s[k].headers)
      /\ p.body = [i \in 1..s[k].bytes |-> Token(k, "byte")]
      /\ "upload" \in p.headers /\ s[k].bytes > 0 => Last(p.files) = k
  BY DEF AtEnd
<1>3. /\ ToRequest(p).line = p.line /\ ToRequest(p).headers = p.headers
      /\ ToRequest(p).body = p.body /\ ToRequest(p).files = p.files
  BY DEF ToRequest
<1> QED
  BY <1>1, <1>2, <1>3 DEF Intact

(***************************************************************************)
(* Types, step by step.                                                    *)
(***************************************************************************)

\* More requests, more tokens.
LEMMA TypesGrow ==
    ASSUME NEW n \in Nat
    PROVE  /\ TokenType(n) \subseteq TokenType(n + 1)
           /\ QueryType(n) \subseteq QueryType(n + 1)
           /\ \A p : ParserOK(p, n) => ParserOK(p, n + 1)
<1>1. 1..n \subseteq 1..(n + 1) /\ 0..n \subseteq 0..(n + 1)
  OBVIOUS
<1>2. TokenType(n) \subseteq TokenType(n + 1)
  BY <1>1 DEF TokenType
<1>3. Seq(TokenType(n)) \subseteq Seq(TokenType(n + 1)) /\ Seq(0..n) \subseteq Seq(0..(n + 1))
  BY <1>1, <1>2, SeqMonotonic
<1>4. QueryType(n) \subseteq QueryType(n + 1)
  BY <1>1, <1>3 DEF QueryType
<1>5. ParserType(n) \subseteq ParserType(n + 1)
  BY <1>1, <1>3 DEF ParserType
<1> QED
  BY <1>2, <1>4, <1>5 DEF ParserOK

\* A parser that waits for a request line.
LEMMA FreshParser ==
    ASSUME NEW n \in Nat, NEW f \in Seq(0..n), NEW p, p = Parser("LINE", 0, {}, <<>>, f)
    PROVE  ParserOK(p, n) /\ p.state = "LINE" /\ p.headers = {} /\ p.body = <<>>
<1> DEFINE h == {}
           d == <<>>
<1>1. h \in SUBSET Headers /\ d \in Seq(TokenType(n)) /\ 0 \in 0..n
  OBVIOUS
<1>2. p = Parser("LINE", 0, h, d, f)
  OBVIOUS
<1> HIDE DEF h, d
<1>3. p \in ParserType(n) /\ p.state = "LINE" /\ p.headers = h /\ p.body = d
  BY <1>1, <1>2, ParserMade
<1> QED
  BY <1>3 DEF ParserOK, h, d

SetFiles(p, x) == [p EXCEPT !.files = x]

\* clear() leaves upload_files_: a new parser with the files of the old one.
LEMMA FilesSet ==
    ASSUME NEW a, NEW l, NEW h, NEW d, NEW f, NEW x
    PROVE  SetFiles(Parser(a, l, h, d, f), x) = Parser(a, l, h, d, x)
BY DEF Parser, SetFiles

\* parser_.clear().
LEMMA ClearedParser ==
    ASSUME NEW n \in Nat, NEW p \in ParserType(n)
    PROVE  /\ ParserOK(ClearParser(p), n)
           /\ ClearParser(p).state = "LINE" /\ ClearParser(p).headers = {}
           /\ ClearParser(p).body = <<>>
<1>1. NewParser = Parser("LINE", 0, {}, <<>>, <<>>)
  BY DEF NewParser, Parser
<1>2. ClearParser(p) = SetFiles(NewParser, p.files)
  BY DEF ClearParser, SetFiles
<1>3. ClearParser(p) = Parser("LINE", 0, {}, <<>>, p.files)
  BY <1>1, <1>2, FilesSet
<1>4. p.files \in Seq(0..n)
  BY ParserFields
<1> QED
  BY <1>3, <1>4, FreshParser

\* to_request() of a parser that is done.
LEMMA RequestTyped ==
    ASSUME NEW n \in Nat, NEW p, ParserOK(p, n), p.state = "DONE"
    PROVE  ToRequest(p) \in QueryType(n) /\ ToRequest(p).line = p.line /\ p.line \in 1..n
           /\ ToRequest(p).headers = p.headers
<1>1. /\ p.line \in 0..n /\ p.headers \in SUBSET Headers
      /\ p.body \in Seq(TokenType(n)) /\ p.files \in Seq(0..n)
  BY ParserFields DEF ParserOK
<1>2. p.line \in 1..n
  BY <1>1 DEF ParserOK
<1> QED
  BY <1>1, <1>2 DEF ToRequest, QueryType

\* Initially nothing was sent.
LEMMA InitInv == Init => HttpInv
<1> SUFFICES ASSUME Init PROVE HttpInv
  OBVIOUS
<1>1. /\ sent = <<>> /\ flight = <<>> /\ buf = <<>> /\ parser = NewParser
      /\ res = NewResponse(200, Empty) /\ st = "open" /\ parsed = <<>> /\ answers = <<>>
  BY DEF Init
<1>2. Len(<<>>) = 0 /\ (\A S : <<>> \in Seq(S)) /\ 1..0 = {} /\ 0 \in 0..0 /\ {} \in SUBSET Headers
  OBVIOUS
<1>3. parser = Parser("LINE", 0, {}, <<>>, <<>>)
  BY <1>1 DEF NewParser, Parser
<1>4. ParserOK(parser, 0) /\ parser.state = "LINE" /\ parser.headers = {} /\ parser.body = <<>>
  <2>1. <<>> \in Seq(0..0) /\ 0 \in Nat
    OBVIOUS
  <2> QED
    BY <1>3, <2>1, FreshParser
<1>5. Empty \in ContentType
  BY DEF Empty, Content, ContentType
<1>6. res \in ResponseType /\ res.sendfile = FALSE /\ res.cookie = 0
  BY <1>1, <1>5 DEF NewResponse, ResponseType
<1>7. Typed(sent, flight, buf, parser, res, st, parsed, answers)
  BY <1>1, <1>2, <1>4, <1>6 DEF Typed
<1>8. /\ AllOwn(sent, parsed, answers) /\ AllMeasured(sent, parsed, answers)
      /\ AllCookies(sent, parsed, answers) /\ AllIntact(sent, parsed)
  BY <1>1, <1>2 DEF AllOwn, AllMeasured, AllCookies, AllIntact
<1>9. Sized(sent, parsed, res) /\ CookieKept(sent, parsed, res)
  BY <1>6 DEF Sized, CookieKept
<1>10. OneByOne(sent, flight, buf, parser, parsed)
  BY <1>1, <1>4, <1>8 DEF OneByOne, Idle
<1> QED
  BY <1>7, <1>8, <1>9, <1>10 DEF HttpInv

(***************************************************************************)
(* The invariant, action by action.                                        *)
(***************************************************************************)

\* The client sends a request: a client that waited for its answers has none under way.
LEMMA SendStep ==
    ASSUME HttpInv, NEW r \in Requests, ClientSends(r)
    PROVE  HttpInv'
<1> DEFINE n == Len(sent)
           T == Tokens(n + 1, r)
<1>1. /\ sent \in Seq(Requests) /\ flight \in Seq(TokenType(n)) /\ buf \in Seq(TokenType(n))
      /\ ParserOK(parser, n) /\ parser.state # "DONE" /\ res \in ResponseType
      /\ st \in {"open", "waiting", "closed"} /\ parsed \in Seq(QueryType(n))
      /\ answers \in Seq(AnswerType) /\ Len(parsed) = Len(answers)
  BY DEF HttpInv, Typed
<1>2. /\ sent' = Append(sent, r) /\ flight' = flight \o T
      /\ pipelined' = (pipelined \/ Len(answers) < Len(sent))
      /\ buf' = buf /\ parser' = parser /\ res' = res /\ st' = st
      /\ parsed' = parsed /\ answers' = answers
  BY DEF ClientSends
<1>3. /\ n \in Nat /\ sent' \in Seq(Requests) /\ Len(sent') = n + 1 /\ sent'[n + 1] = r
  BY <1>1, <1>2, Longer
<1>4. /\ T \in Seq(TokenType(n + 1))
  <2>1. n + 1 \in Nat /\ n + 1 \in 1..(n + 1)
    BY <1>3
  <2> QED
    BY <2>1, TokensOfRequest
<1> HIDE DEF T, n
<1>5. /\ flight \in Seq(TokenType(n + 1)) /\ buf \in Seq(TokenType(n + 1))
      /\ ParserOK(parser, n + 1) /\ parsed \in Seq(QueryType(n + 1))
  BY <1>1, <1>3, TypesGrow, SeqMonotonic
<1>6. flight' \in Seq(TokenType(n + 1))
  BY <1>2, <1>4, <1>5, Joined
<1>7. Typed(sent', flight', buf', parser', res', st', parsed', answers')
  BY <1>1, <1>2, <1>3, <1>5, <1>6 DEF Typed
<1>8. /\ AllOwn(sent', parsed', answers') /\ AllMeasured(sent', parsed', answers')
      /\ Sized(sent', parsed', res')
      /\ AllCookies(sent', parsed', answers') /\ CookieKept(sent', parsed', res')
  BY <1>1, <1>2, SentGrows, CookiesStay DEF HttpInv, n
<1>9. pipelined' \/ OneByOne(sent', flight', buf', parser', parsed')
  <2> SUFFICES ASSUME ~pipelined' PROVE OneByOne(sent', flight', buf', parser', parsed')
    OBVIOUS
  <2>1. ~pipelined /\ ~(Len(answers) < n)
    BY <1>2 DEF n
  <2>2. OneByOne(sent, flight, buf, parser, parsed)
    BY <2>1 DEF HttpInv
  <2>3. Len(parsed) \in Nat
    BY <1>1, Elements
  <2>4. Len(parsed) = n /\ Idle(parser, buf, flight) /\ AllIntact(sent, parsed)
    <3>1. ~(n = Len(parsed) + 1)
      BY <1>1, <1>3, <2>1, <2>3
    <3> QED
      BY <2>2, <3>1 DEF OneByOne, n
  <2>5. AllIntact(sent', parsed')
    <3>1. Len(parsed) <= Len(sent)
      BY <1>3, <2>4 DEF n
    <3> QED
      BY <1>1, <1>2, <2>3, <2>4, <3>1, IntactStays
  <2>6. parser.state = "LINE" /\ parser.headers = {} /\ parser.body = <<>> /\ buf = <<>>
        /\ flight = <<>>
    BY <2>4 DEF Idle
  <2>7. flight' = T
    BY <1>2, <1>4, <2>6
  <2>8. Unread(T, 0, <<>>, T)
    <3>1. Len(T) \in Nat
      BY <1>4, Elements
    <3>2. Len(<<>>) = 0 /\ 1..0 = {}
      OBVIOUS
    <3>3. 0 + Len(T) = Len(T) - 0 /\ 0 + 0 = 0
      BY <3>1
    <3>4. \A i \in 1..Len(T) : T[i] = T[(0 + 0) + i]
      BY <3>1
    <3> QED
      BY <3>2, <3>3, <3>4 DEF Unread
  <2>9. AtLine(n + 1, r, parser', buf', flight')
    BY <1>2, <2>6, <2>7, <2>8 DEF AtLine, T
  <2>10. Len(sent') = Len(parsed') + 1 /\ Underway(Len(sent'), sent'[Len(sent')], parser', buf', flight')
    BY <1>2, <1>3, <2>4, <2>9 DEF Underway
  <2> QED
    BY <2>5, <2>10 DEF OneByOne
<1> QED
  BY <1>7, <1>8, <1>9 DEF HttpInv

\* Closing touches nothing but st.
LEMMA CloseStep ==
    ASSUME HttpInv, ConnectionCloses \/ UNCHANGED vars
    PROVE  HttpInv'
<1>1. /\ sent' = sent /\ flight' = flight /\ buf' = buf /\ parser' = parser /\ res' = res
      /\ parsed' = parsed /\ answers' = answers /\ pipelined' = pipelined
      /\ st' = st \/ st' = "closed"
  BY DEF ConnectionCloses, vars
<1>2. Typed(sent', flight', buf', parser', res', st', parsed', answers')
  BY <1>1 DEF HttpInv, Typed
<1> QED
  BY <1>1, <1>2 DEF HttpInv

\* handle_read.
LEMMA ReadStep ==
    ASSUME HttpInv, NEW l \in 1..Len(flight), HandleRead(l)
    PROVE  HttpInv'
<1> DEFINE n == Len(sent)
           b == buf \o SubSeq(flight, 1, l)
           f == From(flight, l + 1)
           x == Body(parser, b)
           p == x[1]
           z == x[2]
           q == ToRequest(p)
           y == Final(q.line, res, sent[q.line].route, HostMissing(sent, q))
<1>1. /\ sent \in Seq(Requests) /\ flight \in Seq(TokenType(n)) /\ buf \in Seq(TokenType(n))
      /\ ParserOK(parser, n) /\ parser.state # "DONE" /\ res \in ResponseType
      /\ st \in {"open", "waiting", "closed"} /\ parsed \in Seq(QueryType(n))
      /\ answers \in Seq(AnswerType) /\ Len(parsed) = Len(answers)
  BY DEF HttpInv, Typed
<1>2. /\ AllOwn(sent, parsed, answers) /\ AllMeasured(sent, parsed, answers)
      /\ Sized(sent, parsed, res) /\ (pipelined \/ OneByOne(sent, flight, buf, parser, parsed))
      /\ AllCookies(sent, parsed, answers) /\ CookieKept(sent, parsed, res)
  BY DEF HttpInv
<1>3. /\ buf' = z /\ flight' = f /\ sent' = sent /\ pipelined' = pipelined
      /\ IF p.state = "DONE"
         THEN Respond(q) /\ parser' = ClearParser(p)
         ELSE parser' = p /\ res' = res /\ st' = st /\ parsed' = parsed /\ answers' = answers
  <2>1. PICK e \in Feed(parser, b) :
            /\ buf' = e[2]
            /\ IF e[1].state = "DONE"
               THEN Respond(ToRequest(e[1])) /\ parser' = ClearParser(e[1])
               ELSE parser' = e[1] /\ UNCHANGED <<res, st, parsed, answers>>
    BY DEF HandleRead
  <2>2. e = x
    BY <2>1, FeedIs
  <2> HIDE DEF x
  <2>3. flight' = f /\ sent' = sent /\ pipelined' = pipelined
    BY DEF HandleRead
  <2> QED
    BY <2>1, <2>2, <2>3
<1>4. n \in Nat /\ Len(flight) \in Nat /\ Len(parsed) \in Nat
  BY <1>1, Elements
<1>5. l \in 0..Len(flight)
  BY <1>4
<1>6. b \in Seq(TokenType(n)) /\ f \in Seq(TokenType(n))
  BY <1>1, <1>5, Cut, Joined
<1>7. ParserOK(p, n) /\ z \in Seq(TokenType(n))
  <2> HIDE DEF b
  <2>1. Fed(x, n)
    BY <1>1, <1>4, <1>6, FeedTyped
  <2> QED
    BY <2>1 DEF Fed
<1>8. ASSUME ~pipelined
      PROVE  /\ AllIntact(sent, parsed) /\ n = Len(parsed) + 1
             /\ Outcome(n, sent[n], x, f)
  <2>1. OneByOne(sent, flight, buf, parser, parsed)
    BY <1>2, <1>8
  <2>2. ~Idle(parser, buf, flight)
    <3>1. flight # <<>>
      BY <1>4
    <3> QED
      BY <3>1 DEF Idle
  <2>3. AllIntact(sent, parsed) /\ n = Len(parsed) + 1 /\ Underway(n, sent[n], parser, buf, flight)
    BY <2>1, <2>2 DEF OneByOne
  <2>4. n \in 1..n
    BY <1>4, <2>3
  <2>5. sent[n] \in Requests
    BY <1>1, <2>4, Elements
  <2>6. Arrived(n, sent[n], parser, b, f)
    BY <1>1, <1>4, <2>3, <2>4, <2>5, Arrives
  <2> HIDE DEF n, b, f
  <2>7. Outcome(n, sent[n], x, f)
    BY <1>1, <1>4, <1>6, <2>4, <2>5, <2>6, FeedPhase
  <2> QED
    BY <2>3, <2>7
<1> HIDE DEF n, b, f, x
<1>9. CASE p.state # "DONE"
  <2>1. Typed(sent', flight', buf', parser', res', st', parsed', answers')
    <3>1. /\ sent' = sent /\ flight' = f /\ buf' = z /\ parser' = p /\ res' = res /\ st' = st
          /\ parsed' = parsed /\ answers' = answers
      BY <1>3, <1>9
    <3> HIDE DEF p, z
    <3> QED
      BY <1>1, <1>6, <1>7, <1>9, <3>1 DEF Typed, n
  <2>2. pipelined' \/ OneByOne(sent', flight', buf', parser', parsed')
    <3> SUFFICES ASSUME ~pipelined PROVE OneByOne(sent, f, z, p, parsed)
      BY <1>3, <1>9
    <3>1. AllIntact(sent, parsed) /\ n = Len(parsed) + 1 /\ Underway(n, sent[n], p, z, f)
      BY <1>8, <1>9 DEF Outcome, AtEnd
    <3> QED
      BY <3>1 DEF OneByOne, n
  <2> QED
    BY <1>2, <1>3, <1>9, <2>1, <2>2 DEF HttpInv
<1>10. CASE p.state = "DONE"
  <2>1. q \in QueryType(n) /\ q.line = p.line /\ p.line \in 1..n
    BY <1>4, <1>7, <1>10, RequestTyped
  <2>2. sent[q.line] \in Requests /\ q.line \in Nat
    BY <1>1, <1>4, <2>1, Elements DEF n
  <2>3. sent[q.line].route \in Routes
    BY <2>2, RequestFields
  <2>4. HostMissing(sent, q) \in BOOLEAN
    BY DEF HostMissing
  <2> HIDE DEF q
  <2>5. FinalOK(y, q.line, res, sent[q.line].route, HostMissing(sent, q))
    BY <1>1, <2>2, <2>3, <2>4, FinalIsOK
  <2>6. /\ res' = y /\ parsed' = Append(parsed, q) /\ answers' = Append(answers, Message(y))
        /\ st' \in {st, "waiting", "closed"} /\ parser' = ClearParser(p)
    <3>1. Respond(q) /\ parser' = ClearParser(p)
      BY <1>3, <1>10
    <3>2. y = Completed(IF NoHost(q) THEN Assign(res, NewResponse(400, Empty))
                                     ELSE Handle(q.line, res))
      BY DEF Final, After, NoHost, HostMissing, Handle
    <3>3. st' = st \/ st' \in {"waiting", "closed"}
      BY <3>1 DEF Respond
    <3> QED
      BY <3>1, <3>2, <3>3 DEF Respond
  <2> HIDE DEF y
  <2>7. y \in ResponseType
    BY <2>5 DEF FinalOK
  <2>8. Message(y) \in AnswerType
    BY <2>7, MessageFields
  <2>9. /\ parsed' \in Seq(QueryType(n)) /\ Len(parsed') = Len(parsed) + 1
        /\ answers' \in Seq(AnswerType) /\ Len(answers') = Len(answers) + 1
    BY <1>1, <2>1, <2>6, <2>8, Longer
  <2>10. /\ ParserOK(parser', n) /\ parser'.state = "LINE" /\ parser'.headers = {}
         /\ parser'.body = <<>>
    BY <1>4, <1>7, <2>6, ClearedParser DEF ParserOK
  <2>11. Typed(sent', flight', buf', parser', res', st', parsed', answers')
    <3>1. sent' = sent /\ flight' = f /\ buf' = z /\ res' = y
      BY <1>3, <2>6
    <3>2. parser'.state # "DONE" /\ st' \in {"open", "waiting", "closed"}
          /\ Len(parsed') = Len(answers')
      BY <1>1, <2>6, <2>9, <2>10
    <3> HIDE DEF p, z
    <3> QED
      BY <1>1, <1>6, <1>7, <2>7, <2>9, <2>10, <3>1, <3>2 DEF Typed, n
  <2>12. /\ AllOwn(sent', parsed', answers') /\ AllMeasured(sent', parsed', answers')
         /\ Sized(sent', parsed', res')
         /\ AllCookies(sent', parsed', answers') /\ CookieKept(sent', parsed', res')
    <3>1. /\ AllOwn(sent, Append(parsed, q), Append(answers, Message(y)))
          /\ AllMeasured(sent, Append(parsed, q), Append(answers, Message(y)))
          /\ Sized(sent, Append(parsed, q), y)
      BY <1>1, <1>2, <2>1, <2>5, AnswerStep
    <3>2. /\ AllCookies(sent, Append(parsed, q), Append(answers, Message(y)))
          /\ CookieKept(sent, Append(parsed, q), y)
      BY <1>1, <1>2, <2>1, <2>5, CookieStep
    <3> QED
      BY <1>3, <2>6, <3>1, <3>2
  <2>13. pipelined' \/ OneByOne(sent', flight', buf', parser', parsed')
    <3> SUFFICES ASSUME ~pipelined PROVE OneByOne(sent', flight', buf', parser', parsed')
      BY <1>3
    <3>1. AllIntact(sent, parsed) /\ n = Len(parsed) + 1 /\ AtEnd(n, sent[n], p, z, f)
      BY <1>8, <1>10 DEF Outcome
    <3>2. p \in ParserType(n)
      BY <1>7 DEF ParserOK
    <3>3. Intact(sent, Len(parsed) + 1, q)
      BY <1>1, <1>4, <3>1, <3>2, EndIsIntact DEF n, q
    <3>4. AllIntact(sent, Append(parsed, q))
      BY <1>1, <2>1, <3>1, <3>3, IntactGrows
    <3>5. z = <<>> /\ f = <<>>
      BY <3>1 DEF AtEnd
    <3>6. Idle(parser', buf', flight')
      BY <1>3, <2>10, <3>5 DEF Idle
    <3>7. Len(parsed') = Len(sent')
      BY <1>3, <2>9, <3>1 DEF n
    <3>8. AllIntact(sent', parsed')
      BY <1>3, <2>6, <3>4
    <3> QED
      BY <3>6, <3>7, <3>8 DEF OneByOne
  <2> QED
    BY <2>11, <2>12, <2>13 DEF HttpInv
<1> QED
  BY <1>9, <1>10

\* In every reachable state the four parts of the invariant hold: types, the answers given,
\* the response kept for the next one with its Set-Cookie, and where the parser is in the one request that a
\* client that does not pipeline has under way.
THEOREM HttpInvariant == Spec => []HttpInv
<1>1. HttpInv /\ [Next]_vars => HttpInv'
  <2> SUFFICES ASSUME HttpInv, [Next]_vars PROVE HttpInv'
    OBVIOUS
  <2>1. ASSUME NEW l \in 1..Len(flight), HandleRead(l) PROVE HttpInv'
    BY <2>1, ReadStep
  <2>2. ASSUME NEW r \in Requests, ClientSends(r) PROVE HttpInv'
    BY <2>2, SendStep
  <2>3. CASE ConnectionCloses \/ UNCHANGED vars
    BY <2>3, CloseStep
  <2> QED
    BY <2>1, <2>2, <2>3 DEF Next
<1> QED
  BY <1>1, InitInv, PTL DEF Spec

\* What the parser, the buffer and the wire refer to has been sent, and every request
\* handed over was answered (WebConnection::handle_read).
THEOREM TypeCorrect == Spec => []TypeOK
<1>1. HttpInv => TypeOK
  <2> SUFFICES ASSUME HttpInv PROVE TypeOK
    OBVIOUS
  <2> DEFINE n == Len(sent)
  <2>1. /\ sent \in Seq(Requests) /\ flight \in Seq(TokenType(n)) /\ buf \in Seq(TokenType(n))
        /\ ParserOK(parser, n) /\ parser.state # "DONE" /\ res \in ResponseType
        /\ st \in {"open", "waiting", "closed"} /\ Len(parsed) = Len(answers)
    BY DEF HttpInv, Typed
  <2> HIDE DEF n
  <2>2. /\ parser.state \in {"LINE", "HEADER", "BODY", "ERROR"} /\ parser.line \in 0..n
        /\ parser.headers \subseteq Headers
    <3>1. parser \in ParserType(n)
      BY <2>1 DEF ParserOK
    <3>2. /\ parser.state \in {"LINE", "HEADER", "BODY", "ERROR", "DONE"}
          /\ parser.line \in 0..n /\ parser.headers \in SUBSET Headers
      BY <3>1, ParserFields
    <3> QED
      BY <2>1, <3>2
  <2>3. \A s \in Seq(TokenType(n)) : \A t \in Range(s) : t.req \in 1..n
    <3> SUFFICES ASSUME NEW s \in Seq(TokenType(n)), NEW t \in Range(s) PROVE t.req \in 1..n
      OBVIOUS
    <3>1. t \in TokenType(n)
      BY Elements DEF Range
    <3> QED
      BY <3>1 DEF TokenType
  <2>4. \A t \in Range(flight) \cup Range(buf) : t.req \in 1..n
    BY <2>1, <2>3
  <2>5. res.code \in {200, 400, 404}
    BY <2>1 DEF ResponseType
  <2> QED
    BY <2>1, <2>2, <2>4, <2>5 DEF TypeOK, n
<1> QED
  BY <1>1, HttpInvariant, PTL

\* Requests reach the handler as they were sent and in order, none after a malformed one,
\* for every set of requests and however TCP cuts them up (HttpParser::feed and clear).
THEOREM RequestsCorrect == Spec => []RequestsIntact
<1>1. HttpInv => RequestsIntact
  <2> SUFFICES ASSUME HttpInv, ~pipelined, NEW k \in DOMAIN parsed
               PROVE  LET q == parsed[k]  r == sent[k]
                      IN  /\ q.line = k /\ Good(k)
                          /\ q.headers = Range(r.headers)
                          /\ q.body = [i \in 1..r.bytes |-> Token(k, "byte")]
                          /\ "upload" \in q.headers /\ r.bytes > 0 => Last(q.files) = k
    BY DEF RequestsIntact
  <2>1. AllIntact(sent, parsed)
    BY DEF HttpInv, OneByOne
  <2>2. k \in 1..Len(parsed)
    BY Elements DEF HttpInv, Typed
  <2>3. Intact(sent, k, parsed[k])
    BY <2>1, <2>2 DEF AllIntact
  <2> QED
    BY <2>3 DEF Intact, AllGood, Good
<1> QED
  BY <1>1, HttpInvariant, PTL

\* The 400 for a missing host and the answer of a route that returns a value are made of
\* their own request alone, a file is the one its own request asked for, and a Set-Cookie,
\* that of a file answer included, is that of a session started since the response was
\* last replaced (Response::operator=, send_file, start_session).
THEOREM AnswersCorrect == Spec => []OwnAnswer
<1>1. HttpInv => OwnAnswer
  <2> SUFFICES ASSUME HttpInv, NEW i \in DOMAIN parsed
               PROVE  LET q == parsed[i]  k == q.line  a == answers[i]  route == sent[k].route
                      IN  /\ NoHost(q) => a.code = 400 /\ a.content = StatusText /\ a.cookie = 0
                          /\ ~NoHost(q) /\ route = "value" =>
                                 a.code = 200 /\ a.content = Content(k, 1) /\ a.cookie = 0
                          /\ ~NoHost(q) /\ route = "file" =>
                                 a.code = 200 /\ a.content = Content(k, FileSize)
                          /\ ~NoHost(q) /\ route = "session" => a.cookie = k
                          /\ a.cookie # 0 => SessionLives(a.cookie, i)
    BY DEF OwnAnswer
  <2>1. i \in 1..Len(parsed)
    BY Elements DEF HttpInv, Typed
  <2>2. Own(sent, parsed[i], answers[i])
    BY <2>1 DEF HttpInv, AllOwn
  <2>3. answers[i].cookie # 0 => SessionIn(sent, parsed, answers[i].cookie, i)
    BY <2>1 DEF HttpInv, AllCookies
  <2>4. answers[i].cookie # 0 => SessionLives(answers[i].cookie, i)
    BY <2>3, Zenon DEF SessionIn, SessionLives, ReplacedIn, Replaced, HostMissing, NoHost
  <2> QED
    BY <2>2, <2>4 DEF Own, HostMissing, NoHost
<1> QED
  BY <1>1, HttpInvariant, PTL

\* The Content-Length is that of what follows, unless send_file and read_file_to_body,
\* which share filesize, meet on one connection.
THEOREM LengthsCorrect == Spec => []LengthRight
<1>1. HttpInv => LengthRight
  <2> SUFFICES ASSUME HttpInv, NEW i \in DOMAIN answers,
                      ~(Used("file", i) /\ Used("load", i))
               PROVE  answers[i].length = answers[i].content.size
    BY DEF LengthRight
  <2>1. i \in 1..Len(parsed)
    BY Elements DEF HttpInv, Typed
  <2>2. Measured(sent, parsed, answers, i)
    BY <2>1 DEF HttpInv, AllMeasured
  <2>3. \A route : Used(route, i) <=> UsedIn(sent, parsed, route, i)
    BY DEF Used, UsedIn
  <2> QED
    BY <2>2, <2>3 DEF Measured
<1> QED
  BY <1>1, HttpInvariant, PTL
=============================================================================
