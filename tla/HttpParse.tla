------------------------------- MODULE HttpParse -------------------------------
(***************************************************************************)
(* http_request_parse (src/http/src/http_parse.c): a request is read from  *)
(* a stream in pieces of any size, http_parser_execute cuts each piece     *)
(* into callbacks, and the callbacks put url and headers together again.   *)
(* The caller, as in demo/src/web_server.c, parses one request after the   *)
(* other from the same connection, reads the body of each and cleans it.   *)
(*                                                                         *)
(* A byte is a token: one character of a url, a name or a value, or the    *)
(* whole method, version or line end, inside which the parser calls nobody *)
(* back.  A pointer is <<>> or <<string>>.                                 *)
(***************************************************************************)
EXTENDS Integers, Sequences, SequencesExt

CONSTANTS
    Bytes,          \* the tokens a stream is made of
    Conversations,  \* what clients send: sequences of messages
    BufferSize      \* the size of `buffer', 1024 in the code

Null == <<>>
Methods == {"GET", "CONNECT"}
Version == "HTTP/1.1"
Eol == "CRLF"
Space == "SP"
NameChars == {"n", "N", "m", "Connection"}

Text == Seq(Bytes)

(* nothing or one value, as a sequence *)
Optional(S) == [{} -> S] \cup [{1} -> S]
Pointer == Optional(Text)

Messages ==
    [method : Bytes, url : Text, headers : Seq([name : Text, colon : BOOLEAN, value : Text]),
     body : Text]

(* the bytes of a message; a header line may lack its colon *)
Line(h) == h.name \o (IF h.colon THEN <<":">> \o h.value ELSE <<>>) \o <<Eol>>
Lines(m) == FlattenSeq([i \in DOMAIN m.headers |-> Line(m.headers[i])])
RequestLine(m) == <<m.method>> \o m.url \o <<Version>>
Top(m) == RequestLine(m) \o Lines(m) \o <<Eol>>
Render(m) == Top(m) \o m.body

(* The first empty line of a message is the end of its headers. *)
EndsOnce(m) ==
    /\ m.method # Eol
    /\ m.url # <<>> /\ \A i \in 2..Len(m.url) : m.url[i] # Version
    /\ \A i \in DOMAIN Lines(m) : Lines(m)[i] = Eol => i > 1 /\ Lines(m)[i - 1] # Eol

ASSUME HttpAssumption ==
    /\ BufferSize \in Nat \ {0}
    /\ {Version, Eol, ":", "NUL", Space, "x0a", "xaa", "http", "h"} \subseteq Bytes
    /\ Conversations \subseteq Seq(Messages) \ {<<>>}
    /\ \A c \in Conversations : \A i \in DOMAIN c : EndsOnce(c[i])

VARIABLES
    messages,       \* the conversation
    turn,           \* the message the caller is at
    stream,         \* bytes that have not been read, or were put back
    frame,          \* the local variables of http_request_parse, and the request
    phase           \* where the caller is

vars == <<messages, turn, stream, frame, phase>>

NoRequest == [url |-> Null, schema |-> Null, host |-> Null, path |-> Null,
              query |-> Null, fragment |-> Null, params |-> <<>>, headers |-> <<>>]

(* http_request_parse up to its first read.  parser.run is the text since  *)
(* the mark of a callback, allocs the number of allocations not freed.     *)
NewFrame(allocs, past) ==
    [parser  |-> [state |-> "start", run |-> Null, method |-> Null, conn |-> FALSE,
                  close |-> FALSE, error |-> FALSE, stopped |-> FALSE, size |-> 0],
     ctx     |-> [state |-> "Url", header |-> Null, data |-> Null, alloc |-> 0,
                  lastWasValue |-> FALSE, done |-> FALSE],
     request |-> NoRequest,
     allocs  |-> allocs,
     past    |-> past,      \* history: were bytes behind the headers parsed?
     crashed |-> FALSE]

Init ==
    /\ messages \in Conversations
    /\ turn = 1
    /\ stream = FlattenSeq([i \in DOMAIN messages |-> Render(messages[i])])
    /\ frame = NewFrame(0, FALSE)
    /\ phase = "parse"

-----------------------------------------------------------------------------
(* The callbacks *)

Concat(f, text) ==
    IF f.ctx.data = Null
    THEN [f EXCEPT !.ctx.data = <<text>>, !.ctx.alloc = Len(text) + 1, !.allocs = @ + 1]
    ELSE LET used == Len(f.ctx.data[1])
         IN  [f EXCEPT !.ctx.data = <<@[1] \o text>>,
                       !.ctx.alloc = IF @ - used - 1 >= Len(text) THEN @
                                     ELSE used + 2 * Len(text)]

TakeBuffer(f) == [f EXCEPT !.ctx.data = Null, !.ctx.alloc = 0]

OnUrl(f, text) == Concat([f EXCEPT !.ctx.state = "Url"], text)

(* the header under way gets its value and goes in front of the list *)
PushHeader(f) ==
    LET h == [f.ctx.header[1] EXCEPT !.value = f.ctx.data]
    IN  TakeBuffer([f EXCEPT !.request.headers = <<h>> \o @, !.ctx.header = Null])

(* a header after a value, or the first one; the value of no header is     *)
(* written through a null pointer                                          *)
OnHeaderField(f, text) ==
    LET f1 == IF f.ctx.state = "Url"
              THEN TakeBuffer([f EXCEPT !.request.url = f.ctx.data]) ELSE f
        f2 == IF f.ctx.lastWasValue /\ f.ctx.header # Null
              THEN [PushHeader(f1) EXCEPT !.ctx.lastWasValue = FALSE] ELSE f1
        f3 == IF f2.ctx.header = Null
              THEN [f2 EXCEPT !.ctx.header = <<[name |-> Null, value |-> Null]>>,
                              !.allocs = @ + 1]
              ELSE f2
    IN  IF f.ctx.lastWasValue /\ f.ctx.header = Null
        THEN [f EXCEPT !.crashed = TRUE]
        ELSE Concat([f3 EXCEPT !.ctx.state = "HeaderName"], text)

(* Mutation: every piece of a value starts it anew. *)
OnHeaderValueAnew(f, text) ==
    LET named == TakeBuffer([f EXCEPT !.ctx.header[1].name = f.ctx.data])
    IN  Concat([named EXCEPT !.ctx.lastWasValue = TRUE], text)

OnHeaderValue(f, text) ==
    LET named == IF f.ctx.lastWasValue THEN f
                 ELSE TakeBuffer([f EXCEPT !.ctx.header[1].name = f.ctx.data])
    IN  Concat([named EXCEPT !.ctx.lastWasValue = TRUE], text)

(* the last header is pushed, or the url is taken when there is none *)
OnHeadersComplete(f) ==
    LET g == IF f.ctx.header # Null THEN PushHeader(f)
             ELSE TakeBuffer([f EXCEPT !.request.url = f.ctx.data])
    IN  [g EXCEPT !.ctx.done = TRUE]

-----------------------------------------------------------------------------
(* http_parser_execute, as far as it calls back *)

Goto(f, state) == [f EXCEPT !.parser.state = state]
Mark(f, c) == [f EXCEPT !.parser.run = <<IF @ = Null THEN <<c>> ELSE Append(@[1], c)>>]
Fail(f) == [f EXCEPT !.parser.error = TRUE]

(* CALLBACK_DATA for the mark that is set *)
CallBack(f) ==
    IF f.parser.run = Null THEN f
    ELSE LET g == [f EXCEPT !.parser.run = Null]
             text == f.parser.run[1]
         IN  CASE f.parser.state \in {"url", "urlEnd"} -> OnUrl(g, text)
               [] f.parser.state \in {"name", "nameEnd"} -> OnHeaderField(g, text)
               [] OTHER -> OnHeaderValue(g, text)

(* NEW_MESSAGE *)
NewMessage(f) == Goto(f, IF f.parser.close THEN "dead" ELSE "start")

(* s_headers_almost_done and s_headers_done: the callback returned 1, so   *)
(* no body is expected, and unless the protocol changes the next byte      *)
(* begins a message                                                        *)
HeadersDone(f) ==
    LET g == NewMessage(OnHeadersComplete(f))
    IN  [g EXCEPT !.parser.stopped = f.parser.method = <<"CONNECT">>]

AtLine(f, c) ==
    CASE c = Eol -> HeadersDone(f)
      [] c \in NameChars -> Mark(Goto([f EXCEPT !.parser.conn = (c = "Connection")], "name"), c)
      [] OTHER -> Fail(f)

(* the method, its end and the spaces before the url *)
AtStart(f, c) ==
    IF c = Eol THEN f
    ELSE IF c \notin Methods THEN Fail(f)
    ELSE [Goto(f, "spaces") EXCEPT !.parser.method = <<c>>, !.parser.close = FALSE]

(* the url, whose end is the version *)
InUrl(f, c) == IF c = Version THEN Goto(CallBack(Goto(f, "urlEnd")), "line") ELSE Mark(f, c)

InName(f, c) ==
    CASE c = ":" -> Goto(CallBack(Goto(f, "nameEnd")), "valueStart")
      [] c = Eol -> Goto(CallBack(Goto(f, "nameEnd")), "lws")
      [] OTHER -> Mark(f, c)

AtValue(f, c) ==
    CASE c = Space -> f
      [] c = Eol -> Goto(CallBack([f EXCEPT !.parser.run = << <<>> >>]), "lws")
      [] OTHER -> Mark(Goto([f EXCEPT !.parser.close = @ \/ (f.parser.conn /\ c = "close")],
                            "value"), c)

InValue(f, c) == IF c = Eol THEN Goto(CallBack(f), "lws") ELSE Mark(f, c)

(* a space behind the end of a line goes on with its value *)
AfterLine(f, c) == IF c = Space THEN Goto(f, "valueStart") ELSE AtLine(f, c)

(* the switch over parser->state, for one byte *)
Byte(f, c) ==
    CASE f.parser.state = "dead" -> IF c = Eol THEN f ELSE Fail(f)
      [] f.parser.state = "start" -> AtStart(f, c)
      [] f.parser.state = "spaces" -> Mark(Goto(f, "url"), c)
      [] f.parser.state = "url" -> InUrl(f, c)
      [] f.parser.state = "line" -> AtLine(f, c)
      [] f.parser.state = "name" -> InName(f, c)
      [] f.parser.state = "valueStart" -> AtValue(f, c)
      [] f.parser.state = "value" -> InValue(f, c)
      [] f.parser.state = "lws" -> AfterLine(f, c)

ExecuteByte(f, c) ==
    IF f.parser.error \/ f.parser.stopped \/ f.crashed THEN f
    ELSE [Byte(f, c) EXCEPT !.parser.size = @ + 1, !.past = @ \/ f.ctx.done]

(* a piece: marks are set at its beginning and called back at its end *)
Execute(f, piece) ==
    LET begun == [f EXCEPT !.parser.size = 0,
                           !.parser.run = IF f.parser.state \in {"url", "name", "value"}
                                          THEN << <<>> >> ELSE Null]
        after[n \in 0..Len(piece)] ==
            IF n = 0 THEN begun ELSE ExecuteByte(after[n - 1], piece[n])
        read == after[Len(piece)]
    IN  IF read.parser.error \/ read.parser.stopped \/ read.crashed THEN read
        ELSE CallBack(read)

-----------------------------------------------------------------------------
(* The url *)

(* the first place from i on with a byte of `stops', or behind the end *)
Find(s, i, stops) == Min({n \in i..Len(s) : s[n] \in stops} \cup {Len(s) + 1})

(* strtol of two characters, of which a is a digit *)
Hex(x, y) == IF x # "a" THEN "NUL" ELSE IF y # "a" THEN "x0a" ELSE "xaa"

(* the loop of decode_query, from s[i] on; it counts an escape as one byte *)
Decode(s, i, length) ==
    LET decoded[n \in 0..length] ==
            [k \in 1..(Len(s) + 1) |->
                IF n = 0 \/ k > Len(s) THEN <<>>
                ELSE IF s[k] = "%" /\ k + 2 <= Len(s)
                     THEN <<Hex(s[k + 1], s[k + 2])>> \o decoded[n - 1][k + 3]
                     ELSE <<IF s[k] = "+" THEN Space ELSE s[k]>> \o decoded[n - 1][k + 1]]
    IN  decoded[length][i]

(* what a reader of the string sees *)
CString(s) == SubSeq(s, 1, Find(s, 1, {"NUL"}) - 1)
DecodeQuery(s, i, length) == CString(Decode(s, i, length))

(* Mutation: a value of one byte is taken for none. *)
ParamShort(q, start, end) ==
    LET eq == Find(SubSeq(q, 1, end - 1), start, {"="})
    IN  IF eq = end THEN <<[name |-> <<DecodeQuery(q, start, end - start)>>, value |-> Null]>>
        ELSE IF eq = start THEN <<>>
        ELSE <<[name |-> <<DecodeQuery(q, start, eq - start)>>,
                value |-> IF eq < end - 2 THEN <<DecodeQuery(q, eq + 1, end - eq - 1)>> ELSE Null]>>

(* the parameter between start and end, if it has a name *)
Param(q, start, end) ==
    LET eq == Find(SubSeq(q, 1, end - 1), start, {"="})
    IN  IF eq = end THEN <<[name |-> <<DecodeQuery(q, start, end - start)>>, value |-> Null]>>
        ELSE IF eq = start THEN <<>>
        ELSE <<[name |-> <<DecodeQuery(q, start, eq - start)>>,
                value |-> IF eq < end - 1 THEN <<DecodeQuery(q, eq + 1, end - eq - 1)>> ELSE Null]>>

(* parse_query: each parameter is put in front of those before it *)
ParseQuery(q) ==
    LET from[start \in 1..(Len(q) + 1)] ==
            LET end == Find(q, start, {"&"})
            IN  IF end = start THEN <<>>
                ELSE (IF end > Len(q) THEN <<>> ELSE from[end + 1]) \o Param(q, start, end)
    IN  from[1]

Field(url, from, to) == IF from > to THEN Null ELSE <<SubSeq(url, from, to)>>

(* http_parser_parse_url and the copies of its fields *)
ParseUrl(request) ==
    LET url == request.url[1]
        abs == url[1] = "http://h"
        from == IF abs THEN 2 ELSE 1
        q == Find(url, from, {"?", "#"})
        h == Find(url, q, {"#"})
        query == Field(url, q + 1, h - 1)
        path == Field(url, from, q - 1)
    IN  IF url[1] = "h:1" THEN [request EXCEPT !.host = <<url>>]
        ELSE [request EXCEPT
                !.schema = IF abs THEN << <<"http">> >> ELSE Null,
                !.host = IF abs THEN << <<"h">> >> ELSE Null,
                !.path = IF path = Null THEN Null ELSE <<DecodeQuery(url, from, q - from)>>,
                !.query = query,
                !.params = IF query = Null THEN <<>> ELSE ParseQuery(query[1]),
                !.fragment = Field(url, h + 1, Len(url))]

UrlValid(url) == url[1] # "http://h:x"

-----------------------------------------------------------------------------
(* Memory: how many allocations a request and the context hold *)

(* the allocation a pointer points to *)
Owned(p) == IF p = Null THEN 0 ELSE 1

Named(s) == {i \in DOMAIN s : s[i].name # Null}
Valued(s) == {i \in DOMAIN s : s[i].value # Null}

(* headers or parameters, with their names and values *)
HeldHeaders(s) == Len(s) + Cardinality(Named(s)) + Cardinality(Valued(s))
HeldUri(r) == Owned(r.schema) + Owned(r.host) + Owned(r.path) + Owned(r.query)
                  + Owned(r.fragment) + HeldHeaders(r.params)
HeldRequest(r) == Owned(r.url) + HeldHeaders(r.headers) + HeldUri(r)
HeldContext(c) == Owned(c.data) + HeldHeaders(c.header)

(* http_request_clean *)
Clean(f) == [f EXCEPT !.allocs = @ - HeldRequest(f.request), !.request = NoRequest]

(* Mutation: the header under way is not freed. *)
FreeContextData(f) ==
    [f EXCEPT !.allocs = @ - Owned(f.ctx.data), !.ctx.data = Null, !.ctx.header = Null]

(* what the context holds is freed *)
FreeContext(f) ==
    [f EXCEPT !.allocs = @ - HeldContext(f.ctx), !.ctx.data = Null, !.ctx.header = Null]

-----------------------------------------------------------------------------
(* http_request_parse and its caller *)

Return(f, ok) ==
    LET parsed == ParseUrl(f.request)
        whole == [f EXCEPT !.request = parsed, !.allocs = @ + HeldUri(parsed)]
    IN  IF ok /\ UrlValid(f.request.url[1])
        THEN frame' = FreeContext(whole) /\ phase' = "parsed"
        ELSE frame' = Clean(FreeContext(f)) /\ phase' = "failed"

(* Mutation: what the parser left is not put back. *)
ReadDrops(n) ==
    /\ phase = "parse"
    /\ n <= Len(stream)
    /\ LET f == Execute(frame, SubSeq(stream, 1, n))
       IN  /\ stream' = SubSeq(stream, n + 1, Len(stream))
           /\ IF f.crashed THEN frame' = f /\ phase' = "crashed"
              ELSE IF f.parser.error THEN Return(f, FALSE)
              ELSE IF f.ctx.done THEN Return(f, TRUE)
              ELSE frame' = f /\ UNCHANGED phase
    /\ UNCHANGED <<messages, turn>>

(* api_stream_read returns n bytes *)
Read(n) ==
    /\ phase = "parse"
    /\ n <= Len(stream)
    /\ LET f == Execute(frame, SubSeq(stream, 1, n))
           put == IF f.ctx.done THEN n - f.parser.size ELSE 0
       IN  /\ stream' = SubSeq(stream, n - put + 1, Len(stream))
           /\ IF f.crashed THEN frame' = f /\ phase' = "crashed"
              ELSE IF f.parser.error THEN Return(f, FALSE)
              ELSE IF f.ctx.done THEN Return(f, TRUE)
              ELSE frame' = f /\ UNCHANGED phase
    /\ UNCHANGED <<messages, turn>>

(* api_stream_read returns 0: the end of the stream, a timeout, an error *)
ReadFails ==
    /\ phase = "parse"
    /\ phase' = "unreadable"
    /\ frame' = Clean(FreeContext(frame))
    /\ UNCHANGED <<messages, turn, stream>>

(* the caller reads the body and cleans the request *)
Served ==
    /\ phase = "parsed"
    /\ LET n == Len(messages[turn].body)
       IN  /\ n <= Len(stream)
           /\ stream' = SubSeq(stream, n + 1, Len(stream))
    /\ frame' = Clean(frame)
    /\ phase' = "served"
    /\ UNCHANGED <<messages, turn>>

(* and parses the next one *)
NextRequest ==
    /\ phase = "served" /\ turn < Len(messages)
    /\ turn' = turn + 1
    /\ frame' = NewFrame(frame.allocs, frame.past)
    /\ phase' = "parse"
    /\ UNCHANGED <<messages, stream>>

Next == (\E n \in 1..BufferSize : Read(n)) \/ ReadFails \/ Served \/ NextRequest

Spec == Init /\ [][Next]_vars

Lower(name) == [i \in DOMAIN name |-> IF name[i] = "N" THEN "n" ELSE name[i]]

(* http_request_get_header *)
GetHeader(request, name) ==
    LET found == {i \in DOMAIN request.headers :
                    Lower(request.headers[i].name[1]) = Lower(name)}
    IN  IF found = {} THEN Null ELSE request.headers[Min(found)].value

-----------------------------------------------------------------------------
(* Properties *)

Message == messages[turn]

(* A request as RFC 2616 has it: behind a line end in a value comes a space. *)
WellFormed(m) ==
    /\ m.method \in Methods /\ \A i \in DOMAIN m.url : m.url[i] \notin {Version, Space, Eol}
    /\ \A i \in DOMAIN m.headers :
          LET name == m.headers[i].name
              v == m.headers[i].value
          IN  /\ m.headers[i].colon /\ name # <<>> /\ ToSet(name) \subseteq NameChars
              /\ \A k \in DOMAIN v : v[k] = Eol => k < Len(v) /\ v[k + 1] = Space

(* The lines of a value begin with spaces.  Behind them, is token n text?  *)
InText(v, n) == \E j \in 1..n : v[j] \notin {Space, Eol} /\ \A k \in j..n : v[k] # Eol

(* the text in the first n tokens of a value *)
TextIn(v, n) ==
    LET text[k \in 0..Len(v)] ==
            IF k = 0 THEN <<>>
            ELSE IF InText(v, k) THEN Append(text[k - 1], v[k]) ELSE text[k - 1]
    IN  text[n]

(* what a header is to its sender: a continuation line goes on with it *)
Sent(h) == [name |-> <<h.name>>, value |-> <<TextIn(h.value, Len(h.value))>>]

Headers == [name : Pointer, value : Pointer]

States == {"start", "spaces", "url", "line", "name", "valueStart", "value", "lws", "dead"}

(* with the two states the callbacks for a whole url and name are made in *)
Parsers ==
    [state : States \cup {"urlEnd", "nameEnd"},
     run : Pointer, method : Optional(Bytes), conn : BOOLEAN, close : BOOLEAN,
     error : BOOLEAN, stopped : BOOLEAN, size : Nat]

Contexts ==
    [state : {"Url", "HeaderName"}, header : Optional(Headers), data : Pointer, alloc : Nat,
     lastWasValue : BOOLEAN, done : BOOLEAN]

Requests ==
    [url : Pointer, schema : Pointer, host : Pointer, path : Pointer, query : Pointer,
     fragment : Pointer, params : Seq(Headers), headers : Seq(Headers)]

Frames ==
    [parser : Parsers, ctx : Contexts, request : Requests, allocs : Int,
     past : BOOLEAN, crashed : BOOLEAN]

(* the context has what the parser's state calls for *)
Placed(f) ==
    LET header == f.ctx.header
    IN  /\ f.ctx.done \/ header # Null => f.request.url # Null
        /\ header # Null => f.ctx.state = "HeaderName"
        /\ f.parser.state \in {"start", "spaces", "url", "line", "dead"} => header = Null
        /\ f.parser.state \in {"valueStart", "value", "lws"} => header # Null
        /\ f.parser.state \in {"line", "name"} /\ header = Null
               => f.ctx.state = "Url" /\ f.ctx.data # Null

(* no piece of the request is taken twice, before the headers are complete *)
Tidy(f) ==
    LET header == f.ctx.header
    IN  /\ HeldUri(f.request) = 0
        /\ f.ctx.state = "Url" <=> header = Null
        /\ header = Null => f.request.url = Null /\ ~f.ctx.lastWasValue
        /\ header # Null => header[1].value = Null
        /\ header # Null /\ ~f.ctx.lastWasValue => header[1].name = Null

(* the parser's state behind the first n bytes of a message *)
InStep(state, m, n) ==
    LET first == Len(RequestLine(m))
    IN  /\ state = "start" <=> n = 0
        /\ state = "spaces" <=> n = 1
        /\ state = "url" <=> n \in 2..(first - 1)
        /\ state = "line" <=> n = first
        /\ state \in {"name", "valueStart", "value"} <=> n > first /\ Top(m)[n] # Eol
        /\ state = "lws" <=> n > first /\ Top(m)[n] = Eol

(* the bytes of the messages behind the first i *)
Rest(i) == FlattenSeq([j \in 1..(Len(messages) - i) |-> Render(messages[i + j])])

Position == Len(Rest(turn - 1)) - Len(stream)

Until(s, n) == SubSeq(s, 1, n)
After(s, n) == SubSeq(s, n + 1, Len(s))

(* the bytes of a message from header i on, to the end of the headers *)
LinesFrom(m, i) ==
    FlattenSeq([j \in 1..(Len(m.headers) - i + 1) |-> Line(m.headers[i + j - 1])]) \o <<Eol>>

(* the first i headers, as the request has them *)
Taken(m, i) == Reverse([j \in 1..i |-> Sent(m.headers[j])])

(* The url of message m is taken, and `rest' is to come. *)
UrlGathered(f, m, rest) ==
    /\ f.request.url = Null /\ f.request.headers = <<>>
    /\ f.ctx.header = Null /\ f.ctx.state = "Url" /\ ~f.ctx.lastWasValue
    /\ \/ f.parser.state = "start" /\ f.ctx.data = Null /\ rest = Top(m)
       \/ f.parser.state = "spaces" /\ f.ctx.data = Null
             /\ rest = m.url \o (<<Version>> \o LinesFrom(m, 1))
       \/ f.parser.state = "url" /\ \E n \in 1..Len(m.url) :
             /\ f.ctx.data = <<Until(m.url, n)>>
             /\ rest = After(m.url, n) \o (<<Version>> \o LinesFrom(m, 1))
       \/ f.parser.state = "line" /\ f.ctx.data = <<m.url>> /\ rest = LinesFrom(m, 1)

(* the name of h, before its value *)
NameGathered(f, h, next, rest) ==
    /\ f.parser.state = "name" /\ ~f.ctx.lastWasValue
    /\ \E n \in 1..Len(h.name) :
          /\ f.ctx.data = <<Until(h.name, n)>>
          /\ rest = After(h.name, n) \o (<<":">> \o (h.value \o (<<Eol>> \o next)))

(* the value of h, of which nothing may have been called back yet *)
ValueGathered(f, h, next, rest) ==
    \/ \E n \in 0..Len(h.value) :
          LET text == TextIn(h.value, n)
          IN  /\ f.parser.state = IF InText(h.value, n) THEN "value"
                                  ELSE IF n > 0 /\ h.value[n] = Eol THEN "lws" ELSE "valueStart"
              /\ rest = After(h.value, n) \o (<<Eol>> \o next)
              /\ f.ctx.lastWasValue => f.ctx.data = <<text>>
              /\ ~f.ctx.lastWasValue =>
                    f.parser.state = "valueStart" /\ text = <<>> /\ f.ctx.data = <<h.name>>
    \/ /\ f.parser.state = "lws" /\ rest = next
       /\ f.ctx.lastWasValue /\ f.ctx.data = Sent(h).value

(* The headers in front of header i are taken, and part of it. *)
HeaderGathered(f, m, i, rest) ==
    LET h == m.headers[i]
        next == LinesFrom(m, i + 1)
    IN  /\ f.request.url = <<m.url>> /\ f.request.headers = Taken(m, i - 1)
        /\ f.ctx.state = "HeaderName"
        /\ f.ctx.header = <<[name |-> IF f.ctx.lastWasValue THEN <<h.name>> ELSE Null,
                             value |-> Null]>>
        /\ NameGathered(f, h, next, rest) \/ ValueGathered(f, h, next, rest)

(* The request and the context hold what the bytes before `rest' say. *)
Gathered(f, m, rest) ==
    UrlGathered(f, m, rest) \/ \E i \in DOMAIN m.headers : HeaderGathered(f, m, i, rest)

(* However the bytes of a request are cut into reads, the request has the  *)
(* url and the headers of the message, the last one first, each name is    *)
(* found with its last value, and no well-formed request is refused.       *)
(* Between two reads the request and the context hold what the bytes read  *)
(* so far say, no more and no less.  This is so as long as no read went on *)
(* behind the headers of a request.                                        *)
RequestParsed ==
    ~frame.past /\ WellFormed(Message) =>
        /\ phase = "parse" => /\ ~frame.parser.error
                              /\ Gathered(frame, Message, After(Top(Message), Position))
        /\ phase # "crashed" /\ (phase = "failed" => ~UrlValid(Message.url))
        /\ phase = "parsed" =>
              /\ frame.request.url = <<Message.url>>
              /\ frame.request.headers
                    = Reverse([i \in DOMAIN Message.headers |-> Sent(Message.headers[i])])
              /\ \A i \in DOMAIN Message.headers :
                    LET same == {j \in DOMAIN Message.headers :
                                   Lower(Message.headers[j].name) = Lower(Message.headers[i].name)}
                        last == CHOOSE j \in same : \A k \in same : k <= j
                    IN  GetHeader(frame.request, Message.headers[i].name)
                            = Sent(Message.headers[last]).value

TypeOK ==
    /\ messages \in Conversations
    /\ turn \in DOMAIN messages
    /\ stream \in Text
    /\ frame \in Frames /\ frame.parser.state \in States
    /\ phase \in {"parse", "parsed", "served", "failed", "unreadable", "crashed"}

(* Every allocation is held by the request or by the context, whichever    *)
(* way parsing ends: nothing is leaked and nothing freed twice.            *)
NothingLeaked ==
    ~frame.past => frame.allocs = HeldRequest(frame.request) + HeldContext(frame.ctx)

(* The text put together from pieces and its end fit into the buffer. *)
BufferFits ==
    frame.ctx.data # Null => Len(frame.ctx.data[1]) < frame.ctx.alloc

(* Where the parser is, the context is: a callback finds the header it is  *)
(* about and nothing in the place it stores to.  The null pointer is       *)
(* reached only behind the headers of a request.                           *)
ContextTidy ==
    /\ phase = "parse" =>
          /\ ~frame.ctx.done /\ ~frame.crashed
          /\ Placed(frame) /\ (~frame.past => Tidy(frame))
    /\ phase = "crashed" => frame.past
    /\ phase \notin {"parse", "crashed"} => frame.ctx.data = Null /\ frame.ctx.header = Null
    /\ phase = "served" => frame.request = NoRequest

(* The memory of http_request_parse: every string is held and freed once,  *)
(* and none is written behind its end.                                     *)
MemoryKept ==
    /\ TypeOK
    /\ NothingLeaked
    /\ BufferFits
    /\ ContextTidy

(* The parser is where the bytes it was given end: at the beginning of a   *)
(* line behind a line end, and nowhere else behind the first line.         *)
ParserInStep ==
    LET text == Rest(turn - 1)
    IN  phase = "parse" /\ ~frame.past =>
            /\ Position \in 0..(Len(Top(Message)) - 1)
            /\ stream = SubSeq(text, Position + 1, Len(text))
            /\ InStep(frame.parser.state, Message, Position) /\ ~frame.parser.stopped

(* A byte behind the headers that came in another read than their end is   *)
(* still to be read when the request is returned, for the reader of the    *)
(* body or for the next request, and so is every byte behind a CONNECT:    *)
(* then alone the parser stops at the end of the headers.  The bytes any   *)
(* other read has got behind them are parsed as one more message and are   *)
(* not put back (`past'; Pipelined says what that breaks).                 *)
BodyLeft ==
    /\ phase = "parsed" /\ ~frame.past => stream = Message.body \o Rest(turn)
    /\ phase = "served" /\ ~frame.past => stream = Rest(turn)
    /\ ParserInStep

(* Of requests sent one behind the other, without a body, the next one is  *)
(* left in the stream when one is returned: "http pipelining", as the      *)
(* README of the library and the loop of web_server.c call it.             *)
Pipelined ==
    phase = "parsed" /\ WellFormed(Message) /\ Message.body = <<>> => stream = Rest(turn)

(* The parts of a query between ampersands, up to the first empty one: all *)
(* intervals that no ampersand is in and none can be longer.               *)
Parts(q) ==
    LET cut == {0, Len(q) + 1} \cup {i \in DOMAIN q : q[i] = "&"}
        all == {p \in cut \X cut : p[1] < p[2] /\ ~\E i \in cut : p[1] < i /\ i < p[2]}
    IN  SetToSortSeq({p \in all : \A o \in all : o[1] <= p[1] => o[2] > o[1] + 1},
                     LAMBDA a, b : a[1] > b[1])

Decoded(part) == CString(Decode(part, 1, Len(part)))

(* name and value of a part, by its first equals sign *)
NameValue(part) ==
    LET eqs == {i \in DOMAIN part : part[i] = "="}
        eq == IF eqs = {} THEN Len(part) + 1 ELSE CHOOSE i \in eqs : \A j \in eqs : i <= j
    IN  [name |-> <<Decoded(SubSeq(part, 1, eq - 1))>>,
         value |-> IF eq >= Len(part) THEN Null
                   ELSE <<Decoded(SubSeq(part, eq + 1, Len(part)))>>]

(* The parameters of a query are its parts with a name, decoded, the last  *)
(* one first, if escapes are only in the last name or value: decode_query  *)
(* goes on behind the end of any other text with an escape in it.          *)
ParamsRight ==
    LET q == frame.request.query[1]
        sep == {i \in DOMAIN q : q[i] \in {"&", "="}}
    IN  phase = "parsed" /\ frame.request.query # Null
              /\ (\A i \in DOMAIN q : q[i] = "%" => \A s \in sep : s < i)
          => LET named == SelectSeq(Parts(q), LAMBDA p : q[p[1] + 1] # "=")
             IN  frame.request.params
                    = [k \in DOMAIN named |->
                         NameValue(SubSeq(q, named[k][1] + 1, named[k][2] - 1))]
=============================================================================
