------------------------------ MODULE Accounts ------------------------------
(***************************************************************************)
(* What registration and login promise: a name is registered once, by the  *)
(* one request that is told so, and whoever logs in gives the password of  *)
(* that request.  Every request is decided at one instant between its      *)
(* arrival and its answer.  AuthService implements this specification.     *)
(***************************************************************************)
CONSTANTS Worker, Name, Password, NoName, NoPassword

VARIABLES
    password,  \* the password of each registered name
    calls      \* the request each worker has in hand

accountVars == <<password, calls>>

NoCall == [op |-> "none", name |-> NoName, password |-> NoPassword,
           status |-> "idle"]

AccountsInit ==
    /\ password = [n \in Name |-> NoPassword]
    /\ calls = [w \in Worker |-> NoCall]

Pending(w, op) == calls[w].op = op /\ calls[w].status = "pending"
Becomes(w, status) == calls' = [calls EXCEPT ![w].status = status]

Arrive(w) ==
    /\ calls[w] = NoCall
    /\ \E op \in {"register", "login"}, n \in Name, p \in Password,
          status \in {"pending", "rejected"} :
           calls' = [calls EXCEPT ![w] = [op |-> op, name |-> n, password |-> p,
                                          status |-> status]]
    /\ UNCHANGED password

Register(w) ==
    LET call == calls[w]
    IN  /\ Pending(w, "register")
        /\ password[call.name] = NoPassword
        /\ password' = [password EXCEPT ![call.name] = call.password]
        /\ Becomes(w, "ok")

\* A registration may fail although the name is free.
Fail(w) ==
    /\ Pending(w, "register")
    /\ \E status \in {"rejected", "failed"} : Becomes(w, status)
    /\ UNCHANGED password

Login(w) ==
    /\ Pending(w, "login")
    /\ IF password[calls[w].name] = calls[w].password
       THEN Becomes(w, "ok")
       ELSE Becomes(w, "unauthorized")
    /\ UNCHANGED password

Return(w) ==
    /\ calls[w].status \in {"ok", "rejected", "failed", "unauthorized"}
    /\ calls' = [calls EXCEPT ![w] = NoCall]
    /\ UNCHANGED password

\* The server is killed: the accounts survive, the requests do not.
Forget ==
    /\ calls' = [w \in Worker |-> NoCall]
    /\ UNCHANGED password

AccountsNext ==
    \/ \E w \in Worker :
           Arrive(w) \/ Register(w) \/ Fail(w) \/ Login(w) \/ Return(w)
    \/ Forget

AccountsSpec == AccountsInit /\ [][AccountsNext]_accountVars
=============================================================================
