---------------------------- MODULE HttpMessages ----------------------------
(***************************************************************************)
(* HttpRequest::parse with parseQueryParams, parseCookies and urlDecode,   *)
(* and the bytes a browser sends: what the server makes of what a client   *)
(* means.  HttpRouting puts the two together.                              *)
(*                                                                         *)
(* Bytes are symbols; a word that no rule takes apart (a method, a segment *)
(* of a path, the name of a header, a token) is one symbol.                *)
(***************************************************************************)
EXTENDS Naturals, Sequences, FiniteSets, SequencesExt, Functions, TLC

CR == "\r"
LF == "\n"
SP == " "
CRLF == <<CR, LF>>

\* The bytes that some rule gives a meaning to; no word contains one.
Reserved == {CR, LF, SP, "\t", ":", ";", "=", "&", "%", "+", "?", "/"}

-----------------------------------------------------------------------------
(* What a browser sends.                                                   *)

Code == [c \in {"%", "&", "=", "+", SP} |->
            CASE c = "%" -> <<"%", "2", "5">> [] c = "&" -> <<"%", "2", "6">>
              [] c = "=" -> <<"%", "3", "D">> [] c = "+" -> <<"%", "2", "B">>
              [] c = SP -> <<"+">>]

\* URLSearchParams: what has a meaning in a query is sent as its code.
UrlEncode(s) ==
    FlattenSeq([i \in DOMAIN s |-> IF s[i] \in DOMAIN Code THEN Code[s[i]] ELSE <<s[i]>>])

Query(q) == IF q = <<>> THEN <<>> ELSE <<"?", "k", "=">> \o UrlEncode(q)

Cookies(c) ==
    IF c = <<>> THEN <<>>
    ELSE <<"Cookie", ":", SP>> \o
         FlattenSeq([i \in DOMAIN c |-> (IF i = 1 THEN <<>> ELSE <<";", SP>>) \o
                                        <<c[i][1], "=", c[i][2]>>]) \o CRLF

Digits == <<"0", "1", "2", "3", "4", "5", "6", "7", "8", "9">>
Digit == [k \in 0..9 |-> Digits[k + 1]]

Decimal(n) ==
    LET decimal[k \in 0..n] ==
            IF k < 10 THEN <<Digit[k]>> ELSE decimal[k \div 10] \o <<Digit[k % 10]>>
    IN  decimal[n]

Body(b) ==
    IF b = <<>> THEN <<>>
    ELSE <<"Content-Length", ":", SP>> \o Decimal(Len(b)) \o CRLF

\* A path is written with a slash too many if `odd'.
Target(r) ==
    FlattenSeq([i \in DOMAIN r.path |-> <<"/", r.path[i]>>]) \o
    (IF r.odd THEN <<"/">> ELSE <<>>)

Line(present, name, value) ==
    IF present THEN <<name, ":", SP, value>> \o CRLF ELSE <<>>

Serialize(r) ==
    <<r.method, SP>> \o Target(r) \o Query(r.query) \o <<SP, "HTTP/1.1">> \o CRLF \o
    <<"Host", ":", SP, "h", ":", "1">> \o CRLF \o
    Line(r.named, "X-Username", "u") \o
    Line(r.token # "none", "Authorization", "token") \o
    Cookies(r.cookies) \o Body(r.body) \o CRLF \o r.body

-----------------------------------------------------------------------------
(* The parser.                                                             *)

Before(s, i) == SubSeq(s, 1, i - 1)
From(s, i) == SubSeq(s, i, Len(s))

\* find: the place of the first occurrence, 0 if there is none.
Find(s, c) == IF \E i \in DOMAIN s : s[i] = c
              THEN CHOOSE i \in DOMAIN s : s[i] = c /\ \A j \in 1..(i-1) : s[j] # c
              ELSE 0

\* getline with a separator.
Split(s, sep) ==
    FoldLeft(LAMBDA parts, c : IF c = sep THEN Append(parts, <<>>)
                               ELSE [parts EXCEPT ![Len(parts)] = Append(@, c)],
             << <<>> >>, s)

\* What is behind the blanks at the front.
TrimFront(s) ==
    From(s, 1 + Cardinality({n \in DOMAIN s : \A i \in 1..n : s[i] \in {SP, "\t"}}))

Trim(s) == Reverse(TrimFront(Reverse(TrimFront(s))))

WithoutCR(line) == IF line # <<>> /\ Last(line) = CR THEN Front(line) ELSE line

Hex == {"0", "1", "2", "3", "5", "6", "B", "D"}

\* The characters whose codes are among the bytes a client sends.
Char(a, b) == CHOOSE c \in DOMAIN Code \cup {"?"} :
                 IF c = "?" THEN \A d \in DOMAIN Code : Code[d] # <<"%", a, b>>
                 ELSE Code[c] = <<"%", a, b>>

\* Variant: a code at the very end is not recognised.
CodeBeforeEnd(s, i) == i + 2 < Len(s)

\* i + 2 < length(), counted from 0.
CodeFits(s, i) == i + 2 <= Len(s)

\* From each place on: a code stands for a character, + for a space.
UrlDecode(s) ==
    LET decode[i \in 1..Len(s)+1] ==
            IF i > Len(s) THEN <<>>
            ELSE IF s[i] = "%" /\ CodeFits(s, i) /\ s[i+1] \in Hex /\ s[i+2] \in Hex
                 THEN <<Char(s[i+1], s[i+2])>> \o decode[i + 3]
            ELSE <<IF s[i] = "+" THEN SP ELSE s[i]>> \o decode[i + 1]
    IN  decode[1]

\* The parts that contain the separator, cut at the first one.
CutAt(parts, sep) ==
    [i \in {j \in DOMAIN parts : Find(parts[j], sep) # 0} |->
        [key |-> Before(parts[i], Find(parts[i], sep)),
         value |-> From(parts[i], Find(parts[i], sep) + 1)]]

\* operator>>: what stands between separators; nothing is no word.
Words(parts) ==
    FoldLeft(LAMBDA words, p : IF p = <<>> THEN words ELSE Append(words, p), <<>>, parts)

Decoded(pairs) ==
    [i \in DOMAIN pairs |-> [key |-> UrlDecode(pairs[i].key),
                             value |-> UrlDecode(pairs[i].value)]]

Trimmed(pairs) ==
    [i \in DOMAIN pairs |-> [key |-> Trim(pairs[i].key), value |-> Trim(pairs[i].value)]]

\* Later pairs replace earlier ones of the same key.
LastWith(pairs, k) ==
    CHOOSE i \in DOMAIN pairs :
        pairs[i].key = k /\ \A j \in DOMAIN pairs : pairs[j].key = k => j <= i

Table(pairs) ==
    [k \in {pairs[i].key : i \in DOMAIN pairs} |-> pairs[LastWith(pairs, k)].value]

WithoutSpace(parts) == [i \in DOMAIN parts |-> TrimFront(parts[i])]

\* An empty key is passed over.
Named(f) == Restrict(f, DOMAIN f \ {<<>>})

ParseQueryParams(s) == Named(Table(Decoded(CutAt(Split(s, "&"), "="))))

ParseCookies(s) == Named(Table(CutAt(WithoutSpace(Split(s, ";")), "=")))

ParseHeaders(lines) ==
    Table(Trimmed(CutAt([i \in DOMAIN lines |-> WithoutCR(lines[i])], ":")))

\* stoul of a number that the client has written without a sign.
ToNumber(s) ==
    FoldLeft(LAMBDA n, d : 10 * n + (CHOOSE k \in 0..9 : Digit[k] = d), 0, s)

Missing(raw, start, length) == Len(raw) < start + length - 1

PathOf(word, mark) == IF mark = 0 THEN word ELSE Before(word, mark)

\* substr: what there is of so many bytes.
Substr(s, i, n) == SubSeq(s, i, IF i + n - 1 > Len(s) THEN Len(s) ELSE i + n - 1)

NoRequest == [accepted |-> FALSE, method |-> <<>>, path |-> <<>>, query |-> <<>>,
              cookies |-> <<>>, headers |-> <<>>, body |-> <<>>]

Parse(raw) ==
    LET end == IF \E i \in DOMAIN raw : IsPrefix(CRLF \o CRLF, From(raw, i))
               THEN CHOOSE i \in DOMAIN raw :
                      /\ IsPrefix(CRLF \o CRLF, From(raw, i))
                      /\ \A j \in 1..(i-1) : ~IsPrefix(CRLF \o CRLF, From(raw, j))
               ELSE 0
        lines == Split(Before(raw, end), LF)
        words == Words(Split(WithoutCR(lines[1]), SP))
        mark == Find(words[2], "?")
        headers == ParseHeaders(Tail(lines))
        Header(name) == headers[<<name>>]
        Has(name) == <<name>> \in DOMAIN headers
        start == end + 4
        length == IF Has("Content-Length") THEN ToNumber(Header("Content-Length")) ELSE 0
    IN  IF end = 0 THEN NoRequest
        ELSE IF Len(words) < 3 THEN NoRequest
        ELSE IF Has("Content-Length") /\ Missing(raw, start, length) THEN NoRequest
        ELSE [accepted |-> TRUE,
              method |-> words[1],
              path |-> PathOf(words[2], mark),
              query |-> IF mark = 0 THEN <<>>
                        ELSE ParseQueryParams(From(words[2], mark + 1)),
              cookies |-> IF Has("Cookie") THEN ParseCookies(Header("Cookie")) ELSE <<>>,
              headers |-> headers,
              body |-> Substr(raw, start, length)]
=============================================================================
