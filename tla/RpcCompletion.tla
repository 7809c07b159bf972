--------------------------- MODULE RpcCompletion ---------------------------
(***************************************************************************)
(* What rpc::session promises the issuers of requests, without its locks,  *)
(* tables and threads: the life of each request from async_request to its  *)
(* one completion.  RpcSession implements it.                               *)
(***************************************************************************)
CONSTANT Calls

VARIABLES
    status,     \* where each request is in its life
    replied,    \* the requests the peer answered
    expired     \* the session is over

vars == <<status, replied, expired>>

Statuses == {"idle", "issued", "accepted", "answered", "aborted", "dropped"}

TypeOK ==
    /\ status \in [Calls -> Statuses]
    /\ replied \subseteq Calls
    /\ expired \in BOOLEAN

Init ==
    /\ status = [c \in Calls |-> "idle"]
    /\ replied = {}
    /\ expired = FALSE

Move(c, from, to) ==
    /\ status[c] \in from
    /\ status' = [status EXCEPT ![c] = to]
    /\ UNCHANGED <<replied, expired>>

Issue(c)  == Move(c, {"idle"}, "issued")
Accept(c) == Move(c, {"issued"}, "accepted")

\* async_request returned an empty handle.
Drop(c)   == expired /\ Move(c, {"issued"}, "dropped")

\* The peer answers what it received, be it aborted meanwhile.
Reply(c) ==
    /\ status[c] # "idle"
    /\ replied' = replied \union {c}
    /\ UNCHANGED <<status, expired>>

\* The handler runs with the peer's answer ...
Complete(c) == c \in replied /\ Move(c, {"issued", "accepted"}, "answered")

\* ... or with aborted: the session is over, or the caller gave up the handle
\* it was given.
Abort(c) ==
    \/ expired /\ Move(c, {"issued", "accepted"}, "aborted")
    \/ Move(c, {"accepted"}, "aborted")

Expire ==
    /\ expired' = TRUE
    /\ UNCHANGED <<status, replied>>

Next ==
    \/ Expire
    \/ \E c \in Calls : \/ Issue(c) \/ Accept(c) \/ Drop(c)
                        \/ Reply(c) \/ Complete(c) \/ Abort(c)

Spec == Init /\ [][Next]_vars
=============================================================================
