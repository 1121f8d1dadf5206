---------------------------- MODULE HttpRouting ----------------------------
(***************************************************************************)
(* handleClient and routeRequest, from the bytes of a request to the       *)
(* answer: the request is parsed with what has arrived (HttpMessages),     *)
(* sent to the first of the routes main registers, and handled by a method *)
(* of a service, of which the part is modelled that has to do with who     *)
(* asks: the middleware verifies the bearer token, most handlers verify it *)
(* a second time, and it may expire between the two.                       *)
(*                                                                         *)
(* The prefix /api/v1 all routes have is left out.                          *)
(***************************************************************************)
EXTENDS HttpMessages

CONSTANTS
    Word,     \* methods, segments of paths, names and values of cookies
    Request,  \* what clients ask for
    Nobody

\* A client has no two cookies of one name.
ASSUME RequestAssumption ==
    /\ Word \cap Reserved = {}
    /\ Request \subseteq
        [method : Word, path : Seq(Word) \ {<<>>}, odd : BOOLEAN,
         query : Seq(Word \cup DOMAIN Code), cookies : Seq(Word \X Word),
         named : BOOLEAN, token : {"none", "refused", "valid", "expired"},
         body : Seq(Word \cup Reserved)]
    /\ \A r \in Request : \A i, j \in DOMAIN r.cookies :
          r.cookies[i][1] = r.cookies[j][1] => i = j

VARIABLES
    meant,    \* what the client asks for
    arrived,  \* number of bytes of it that have arrived
    parsed,   \* what the server made of them
    token,    \* state of the token the client holds
    phase,
    route,    \* index of the route that was chosen, 0 for none
    user,     \* whom the answer is made for
    status

request == <<meant, arrived, parsed>>
routingVars == <<request, token, phase, route, user, status>>

R(m, p, h, auth) == [method |-> m, path |-> p, handler |-> h, auth |-> auth]

\* registerRoutes of the five services, in the order main calls them.
AuthRoutes == <<
    R("POST", <<"auth", "register">>, "register", FALSE),
    R("POST", <<"auth", "login">>, "login", FALSE),
    R("POST", <<"auth", "logout">>, "logout", TRUE) >>

RoomRoutes == <<
    R("POST", <<"rooms">>, "create room", TRUE),
    R("GET", <<"rooms">>, "rooms", FALSE),
    R("GET", <<"rooms", "joined">>, "joined rooms", TRUE),
    R("POST", <<"rooms", "join">>, "join", TRUE),
    R("POST", <<"rooms", "leave">>, "leave", TRUE),
    R("PATCH", <<"rooms", "{room_id}">>, "update room", TRUE),
    R("DELETE", <<"rooms", "{room_id}">>, "delete room", TRUE) >>

MessageRoutes == << R("GET", <<"messages">>, "messages", TRUE) >>

\* Variant: the route with the parameter is registered first.
UserRoutesByIdFirst == <<
    R("GET", <<"users", "{userId}">>, "user by id", TRUE),
    R("GET", <<"users", "me">>, "current user", TRUE),
    R("GET", <<"users">>, "users", TRUE),
    R("GET", <<"users", "{userId}", "status">>, "user status", TRUE) >>

UserRoutes == <<
    R("GET", <<"users", "me">>, "current user", TRUE),
    R("GET", <<"users">>, "users", TRUE),
    R("GET", <<"users", "{userId}">>, "user by id", TRUE),
    R("GET", <<"users", "{userId}", "status">>, "user status", TRUE) >>

\* Variant: the flag is missing at the last route.
ServerRoutesOpen == <<
    R("GET", <<"health">>, "health", FALSE), R("GET", <<"info">>, "info", FALSE),
    R("GET", <<"echo">>, "echo", FALSE), R("POST", <<"echo">>, "echo body", FALSE),
    R("GET", <<"protected">>, "protected", FALSE) >>

ServerRoutes == <<
    R("GET", <<"health">>, "health", FALSE), R("GET", <<"info">>, "info", FALSE),
    R("GET", <<"echo">>, "echo", FALSE), R("POST", <<"echo">>, "echo body", FALSE),
    R("GET", <<"protected">>, "protected", TRUE) >>

Routes == AuthRoutes \o RoomRoutes \o MessageRoutes \o UserRoutes \o ServerRoutes

Param == {"{room_id}", "{userId}"}

\* Handlers that take the user from the token themselves.
Rechecking == {"create room", "joined rooms", "join", "leave", "update room",
               "delete room", "messages", "current user", "users", "user by id",
               "user status"}

RoutingTypeOK ==
    /\ meant \in Request
    /\ arrived \in 0..Len(Serialize(meant))
    /\ parsed.accepted \/ parsed = NoRequest
    /\ token \in {"none", "refused", "valid", "expired"}
    /\ phase \in {"arriving", "routing", "handler", "answered"}
    /\ route \in 0..Len(Routes)
    /\ user \in {Nobody, "subject"}
    /\ status \in {"none", "preflight", "file", "404", "400", "401", "done"}

\* "refused": not a bearer token, of another issuer or signed with another key.
RoutingInit ==
    /\ meant \in Request
    /\ arrived = 0
    /\ parsed = NoRequest
    /\ token = meant.token
    /\ phase = "arriving"
    /\ route = 0
    /\ user = Nobody
    /\ status = "none"

Method == parsed.method[1]

HasHeader(name) == <<name>> \in DOMAIN parsed.headers

\* The segments of a path; empty ones do not count.
SegmentsOf(path) ==
    LET words == Words(Split(path, "/"))
    IN  [i \in DOMAIN words |-> words[i][1]]

Segments == SegmentsOf(parsed.path)

\* matchPath: as many segments, and each the same or a parameter.
Matches(pattern) ==
    LET path == Segments
    IN  /\ DOMAIN pattern = DOMAIN path
        /\ \A i \in DOMAIN path : pattern[i] \in Param \cup {path[i]}

Matching == {i \in DOMAIN Routes : Routes[i].method = Method /\ Matches(Routes[i].path)}

First == CHOOSE i \in Matching : \A j \in Matching : i <= j

\* getUserIdFromRequest
Verified == IF HasHeader("Authorization") /\ token = "valid" THEN "subject" ELSE Nobody

AnswerWith(s) == phase' = "answered" /\ status' = s

-----------------------------------------------------------------------------

Arrive ==
    /\ phase = "arriving" /\ arrived < Len(Serialize(meant))
    /\ arrived' = arrived + 1
    /\ UNCHANGED <<meant, parsed, token, phase, route, user, status>>

\* handleClient parses once, with what is there; what it does not understand
\* is answered at once.
Read ==
    /\ phase = "arriving" /\ arrived > 0
    /\ parsed' = Parse(SubSeq(Serialize(meant), 1, arrived))
    /\ IF parsed'.accepted THEN phase' = "routing" /\ UNCHANGED status
                           ELSE AnswerWith("400")
    /\ UNCHANGED <<meant, arrived, token, route, user>>

\* A token is valid for an hour.
Expire ==
    /\ token = "valid" /\ phase \in {"routing", "handler"}
    /\ token' = "expired"
    /\ UNCHANGED <<request, phase, route, user, status>>

Preflight ==
    /\ phase = "routing" /\ Method = "OPTIONS"
    /\ AnswerWith("preflight")
    /\ UNCHANGED <<request, token, route, user>>

\* The first route that matches; middleware::auth before the handler if the
\* route asks for it.
RouteRequest ==
    /\ phase = "routing" /\ Method # "OPTIONS" /\ Matching # {}
    /\ route' = First
    /\ IF Routes[First].auth /\ Verified = Nobody
       THEN AnswerWith("401") /\ user' = Nobody
       ELSE /\ phase' = "handler" /\ UNCHANGED status
            /\ user' = IF Routes[First].auth THEN Verified ELSE Nobody
    /\ UNCHANGED <<request, token>>

\* serveStaticFile for a GET that no route matches: the file is there or not.
\* (A path with ".." is refused; none is among the paths.)
NoRoute ==
    /\ phase = "routing" /\ Method # "OPTIONS" /\ Matching = {}
    /\ \/ Method = "GET" /\ AnswerWith("file")
       \/ AnswerWith("404")
    /\ UNCHANGED <<request, token, route, user>>

Handler == Routes[route].handler

\* logoutUser looks for a header, and the middleware hands the request on as
\* it came.
LogoutRefuses == Handler = "logout" /\ ~HasHeader("X-Username")

\* handleGetUserById takes the path apart with a pattern of its own, which
\* knows no other slashes than those of the route.
IdNotFound ==
    Handler = "user by id" /\ Len(parsed.path) # 2 * Len(Routes[route].path)

\* The handler verifies again whom it works for.
Handle ==
    /\ phase = "handler"
    /\ user' = IF Handler \in Rechecking THEN Verified ELSE user
    /\ IF Handler \in Rechecking /\ Verified = Nobody THEN AnswerWith("401")
       ELSE IF LogoutRefuses THEN AnswerWith("401")
       ELSE IF IdNotFound THEN AnswerWith("400")
       ELSE AnswerWith("done")
    /\ UNCHANGED <<request, token, route>>

RoutingNext ==
    \/ Arrive \/ Read
    \/ Expire
    \/ Preflight \/ RouteRequest \/ NoRoute
    \/ Handle
    \/ phase = "answered" /\ UNCHANGED routingVars

RoutingSpec == RoutingInit /\ [][RoutingNext]_routingVars

-----------------------------------------------------------------------------
(* Properties.                                                             *)

\* A request that was read before all of it had come is refused, wherever it
\* was cut, and a whole one is not.  What is accepted is what the client
\* meant: the path without the query, the query after its decoding, the
\* cookies, and a body that may look like the end of a head.
UnderstoodAsMeant ==
    /\ phase # "arriving" => (parsed.accepted <=> arrived = Len(Serialize(meant)))
    /\ parsed.accepted =>
        /\ parsed.method = <<meant.method>>
        /\ parsed.path = Target(meant)
        /\ parsed.query = IF meant.query = <<>> THEN <<>> ELSE [k \in {<<"k">>} |-> meant.query]
        /\ DOMAIN parsed.cookies = {<<c[1]>> : c \in Range(meant.cookies)}
        /\ \A c \in Range(meant.cookies) : parsed.cookies[<<c[1]>>] = <<c[2]>>
        /\ parsed.body = meant.body

\* docs/API.md marks the other endpoints with "authentication required".
Open == {"register", "login", "rooms", "health", "info", "echo", "echo body"}

\* A handler that is not open to everybody has worked for the subject of the
\* token, although the token is looked at twice and may expire in between.
WorksForSomebody == status = "done" /\ Handler \notin Open => user = "subject"

\* The places where route i spells out what was asked for.
Literals(i) == {k \in DOMAIN Segments : Routes[i].path[k] = Segments[k]}

\* The order of registration never lets a route with a parameter take the
\* requests of a more specific one: what any matching route spells out, the
\* chosen one does.
MostSpecific == route # 0 => \A i \in Matching : Literals(i) \subseteq Literals(route)
=============================================================================
