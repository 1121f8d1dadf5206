--------------------------- MODULE MCHttpRouting ---------------------------
(* Requests with much data on one path, and requests without data on all      *)
(* paths of up to three segments over the words the routes have at each place *)
(* and one other word.                                                        *)
EXTENDS HttpRouting

QueryChar == {"a", "2", "%", "&", "=", "+", " "}

\* Every query value of up to two characters out of all that are encoded, and
\* bodies of up to four, so that a body can look like the end of the head.
WithData ==
    [method : {"GET", "POST"}, path : {<<"x">>}, odd : {FALSE},
     query : BoundedSeq(QueryChar, 2),
     cookies : {<<>>, << <<"a", "1">> >>, << <<"a", "1">>, <<"b", "2">> >>},
     named : {FALSE}, token : {"none"}, body : BoundedSeq({CR, LF}, 4)]

WordsAt(n) ==
    {"x"} \cup ({Routes[i].path[n] : i \in {j \in DOMAIN Routes : Len(Routes[j].path) >= n}}
              \ Param)

Paths ==
    {<<a>> : a \in WordsAt(1)} \cup {<<a, b>> : a \in WordsAt(1), b \in WordsAt(2)} \cup
    {<<a, b, c>> : a \in WordsAt(1), b \in WordsAt(2), c \in WordsAt(3)}

ForEveryPath ==
    [method : {"GET", "POST", "PUT", "PATCH", "DELETE", "OPTIONS"}, path : Paths,
     odd : BOOLEAN, query : {<<>>}, cookies : {<<>>}, named : BOOLEAN,
     token : {"none", "refused", "valid", "expired"}, body : {<<>>}]

Requests == WithData \cup ForEveryPath

AllWords ==
    UNION {{r.method} \cup Range(r.path) : r \in Requests} \cup {"a", "b", "1", "2"}
=============================================================================
