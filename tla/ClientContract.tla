--------------------------- MODULE ClientContract ---------------------------
(***************************************************************************)
(* What a native client promises its caller, without registry, queues,     *)
(* threads or reference counts: a client is open until it is retired; a    *)
(* call to an open client is accepted and answered once; a call to a       *)
(* retired one is answered at once; the client's memory goes away, and     *)
(* only after every call it accepted has been answered.                    *)
(* ClientLifecycle implements it.                                          *)
(***************************************************************************)
CONSTANTS Clients, Calls, None

VARIABLES
    client,   \* "absent" | "open" | "retired" | "gone"
    call,     \* "unused" | "accepted" | "answered"
    owner     \* the client a call was made on

vars == <<client, call, owner>>

Init ==
    /\ client = [c \in Clients |-> "absent"]
    /\ call = [k \in Calls |-> "unused"]
    /\ owner = [k \in Calls |-> None]

Open(c) ==
    /\ client[c] = "absent"
    /\ client' = [client EXCEPT ![c] = "open"]
    /\ UNCHANGED <<call, owner>>

Accept(k, c) ==
    /\ client[c] = "open" /\ call[k] = "unused"
    /\ call' = [call EXCEPT ![k] = "accepted"]
    /\ owner' = [owner EXCEPT ![k] = c]
    /\ UNCHANGED client

Refuse(k, c) ==
    /\ client[c] \in {"retired", "gone"} /\ call[k] = "unused"
    /\ call' = [call EXCEPT ![k] = "answered"]
    /\ owner' = [owner EXCEPT ![k] = c]
    /\ UNCHANGED client

Answer(k) ==
    /\ call[k] = "accepted"
    /\ call' = [call EXCEPT ![k] = "answered"]
    /\ UNCHANGED <<client, owner>>

Retire(c) ==
    /\ client[c] = "open"
    /\ client' = [client EXCEPT ![c] = "retired"]
    /\ UNCHANGED <<call, owner>>

Forget(c) ==
    /\ client[c] = "retired"
    /\ \A k \in Calls : owner[k] = c => call[k] = "answered"
    /\ client' = [client EXCEPT ![c] = "gone"]
    /\ UNCHANGED <<call, owner>>

Next ==
    \/ \E c \in Clients : Open(c) \/ Retire(c) \/ Forget(c)
    \/ \E k \in Calls, c \in Clients : Accept(k, c) \/ Refuse(k, c)
    \/ \E k \in Calls : Answer(k)

Fairness == /\ \A k \in Calls : WF_vars(Answer(k))
            /\ \A c \in Clients : WF_vars(Forget(c))

Spec == Init /\ [][Next]_vars /\ Fairness

=============================================================================
