----------------------------- MODULE FdRegistry -----------------------------
(***************************************************************************)
(* Ownership of the transport descriptors BlueZ hands out: from the D-Bus  *)
(* reply on a client's worker, through the token kept by the registry, to  *)
(* the Dart object that claims it, closes it or is collected.              *)
(* (native/src/bluez_media_client.cpp, lib/src/bluez_media_client.dart)    *)
(*                                                                         *)
(* A descriptor number is reused by the kernel as soon as it is closed, by *)
(* another acquisition or by unrelated code of the process.  A token is    *)
(* identified with its acquisition: next_fd_token only grows.              *)
(***************************************************************************)
CONSTANTS
    Clients,
    Acquires,    \* acquire calls; also the tokens of what they acquired
    Fds,         \* descriptor numbers of the process
    Free,        \* owner of a closed number
    Foreign,     \* owner of a number opened elsewhere in the process
    None

ASSUME FdAssumption ==
    /\ Free # Foreign
    /\ {Free, Foreign} \cap Acquires = {}
    /\ None \notin Fds \cup Clients

VARIABLES
    client,    \* "registered" | "retired" | "destroyed"
    open,      \* kernel: who opened each descriptor number
    stage,     \* where each acquisition is
    by,        \* the client that made it
    number,    \* the descriptor number of its reply
    fds,       \* ClientRegistry::fds, None for an absent token
    pending    \* BluezMediaClientContext::pending_fds

vars == <<client, open, stage, by, number, fds, pending>>

Stages ==
    {"none",
     "reply",     \* in acquired_fd, a UnixFd of the running operation
     "raw",       \* in a buffer of the synchronous C ABI; the caller owns it
     "retained",  \* retain_fd done, the answer not posted yet
     "unposted",  \* the result port was closed; the worker gives it back
     "posted",    \* answer in the result port
     "lost",      \* answer never read, its isolate is gone
     "refused",   \* claim failed; Dart gives the token back
     "live",      \* claimed; owned by a BlueZMediaAcquireResult
     "closed",    \* closed by number; the result object still exists
     "done"}

\* An operation of the client's worker is still running.
AtWorker == {"reply", "retained", "unposted"}

TypeOK ==
    /\ client \in [Clients -> {"registered", "retired", "destroyed"}]
    /\ open \in [Fds -> Acquires \cup {Free, Foreign}]
    /\ stage \in [Acquires -> Stages]
    /\ by \in [Acquires -> Clients \cup {None}]
    /\ number \in [Acquires -> Fds \cup {None}]
    /\ fds \in [Acquires -> Fds \cup {None}]
    /\ pending \in [Clients -> SUBSET Acquires]

Init ==
    /\ client = [c \in Clients |-> "registered"]
    /\ open = [f \in Fds |-> Free]
    /\ stage = [t \in Acquires |-> "none"]
    /\ by = [t \in Acquires |-> None]
    /\ number = [t \in Acquires |-> None]
    /\ fds = [t \in Acquires |-> None]
    /\ pending = [c \in Clients |-> {}]

----------------------------------------------------------------------------
\* close(2) on every number of F, whoever opened it.
Closed(F) == [f \in Fds |-> IF f \in F THEN Free ELSE open[f]]

\* The token is erased from the pending set of every client in the registry;
\* a retired context is no longer there and keeps it.
Unpend(t) ==
    [c \in Clients |-> IF client[c] = "registered" THEN pending[c] \ {t}
                                                   ELSE pending[c]]

\* Fault: the finalizer closes the number it remembers.
ReleaseToken_ByNumber(t) ==
    /\ open' = Closed({number[t]})
    /\ fds' = [fds EXCEPT ![t] = None]
    /\ pending' = Unpend(t)

\* bluez_media_release_fd_token: one critical section, idempotent.
ReleaseToken(t) ==
    IF fds[t] = None
    THEN UNCHANGED <<open, fds, pending>>
    ELSE /\ open' = Closed({fds[t]})
         /\ fds' = [fds EXCEPT ![t] = None]
         /\ pending' = Unpend(t)

----------------------------------------------------------------------------
(* The worker of client c                                                  *)

\* The Acquire reply brings a duplicated descriptor, owned by a UnixFd.
AcquireReply(c, t, f) ==
    /\ client[c] # "destroyed"
    /\ stage[t] = "none"
    /\ \A u \in Acquires : by[u] = c => stage[u] \notin AtWorker
    /\ open[f] = Free
    /\ open' = [open EXCEPT ![f] = t]
    /\ stage' = [stage EXCEPT ![t] = "reply"]
    /\ by' = [by EXCEPT ![t] = c]
    /\ number' = [number EXCEPT ![t] = f]
    /\ UNCHANGED <<client, fds, pending>>

\* glz::encode throws: the UnixFd closes its descriptor.
ReplyFails(t) ==
    /\ stage[t] = "reply"
    /\ open' = Closed({number[t]})
    /\ stage' = [stage EXCEPT ![t] = "done"]
    /\ UNCHANGED <<client, by, number, fds, pending>>

\* Fault: pending_fds is given the descriptor number for the token.
RetainFd_Number(t) ==
    /\ stage[t] = "reply"
    /\ fds' = [fds EXCEPT ![t] = number[t]]
    /\ pending' = [pending EXCEPT ![by[t]] = @ \cup {number[t]}]
    /\ stage' = [stage EXCEPT ![t] = "retained"]
    /\ UNCHANGED <<client, open, by, number>>

\* Fault: the token is not noted as pending.
RetainFd_NotPending(t) ==
    /\ stage[t] = "reply"
    /\ fds' = [fds EXCEPT ![t] = number[t]]
    /\ stage' = [stage EXCEPT ![t] = "retained"]
    /\ UNCHANGED <<client, open, by, number, pending>>

\* retain_fd.
RetainFd(t) ==
    /\ stage[t] = "reply"
    /\ fds' = [fds EXCEPT ![t] = number[t]]
    /\ pending' = [pending EXCEPT ![by[t]] = @ \cup {t}]
    /\ stage' = [stage EXCEPT ![t] = "retained"]
    /\ UNCHANGED <<client, open, by, number>>

\* post_bytes(result_port, 0x11, ...) succeeded, or the port is closed.
PostResult(t) ==
    /\ stage[t] = "retained"
    /\ \E s \in {"posted", "unposted"} : stage' = [stage EXCEPT ![t] = s]
    /\ UNCHANGED <<client, open, by, number, fds, pending>>

\* The synchronous bluez_media_transport_acquire: the caller gets the number
\* and no token is made.  When the buffer cannot be written the UnixFd closes
\* the descriptor again before the call returns, which leaves no trace.
AcquireRaw(c, t, f) ==
    /\ client[c] # "destroyed"
    /\ stage[t] = "none"
    /\ open[f] = Free
    /\ open' = [open EXCEPT ![f] = t]
    /\ stage' = [stage EXCEPT ![t] = "raw"]
    /\ number' = [number EXCEPT ![t] = f]
    /\ UNCHANGED <<client, by, fds, pending>>

----------------------------------------------------------------------------
(* Dart                                                                    *)

\* _decodeAcquire: the finalizer is attached, then bluez_media_claim_fd.
Claim(t) ==
    /\ stage[t] = "posted"
    /\ client[by[t]] = "registered" /\ fds[t] # None /\ t \in pending[by[t]]
    /\ pending' = [pending EXCEPT ![by[t]] = @ \ {t}]
    /\ stage' = [stage EXCEPT ![t] = "live"]
    /\ UNCHANGED <<client, open, by, number, fds>>

\* The claim fails; the finalizer is detached and the token will be released.
ClaimRefused(t) ==
    /\ stage[t] = "posted"
    /\ ~(client[by[t]] = "registered" /\ fds[t] # None /\ t \in pending[by[t]])
    /\ stage' = [stage EXCEPT ![t] = "refused"]
    /\ UNCHANGED <<client, open, by, number, fds, pending>>

\* The isolate ends with the answer unread.
LoseAnswer(t) ==
    /\ stage[t] = "posted"
    /\ stage' = [stage EXCEPT ![t] = "lost"]
    /\ UNCHANGED <<client, open, by, number, fds, pending>>

\* The worker, or _decodeAcquire, gives the token back.
GiveBack(t) ==
    /\ stage[t] \in {"unposted", "refused"}
    /\ ReleaseToken(t)
    /\ stage' = [stage EXCEPT ![t] = "done"]
    /\ UNCHANGED <<client, by, number>>

\* The NativeFinalizer of a result object, also after an explicit close.
Finalize(t) ==
    /\ stage[t] \in {"live", "closed"}
    /\ ReleaseToken(t)
    /\ stage' = [stage EXCEPT ![t] = "done"]
    /\ UNCHANGED <<client, by, number>>

\* Fault: closing by number leaves the token in the registry.
CloseFd_KeepsToken(t) ==
    /\ stage[t] \in {"live", "raw"}
    /\ open' = Closed({number[t]})
    /\ stage' = [stage EXCEPT ![t] = IF stage[t] = "live" THEN "closed" ELSE "done"]
    /\ UNCHANGED <<client, by, number, fds, pending>>

\* bluez_media_close_fd by number: the token that maps to the number, if any,
\* is forgotten, and the number is closed whether or not there was one.
CloseFd(t) ==
    /\ stage[t] \in {"live", "raw"}
    /\ open' = Closed({number[t]})
    /\ \/ \E u \in Acquires :
            /\ fds[u] = number[t]
            /\ fds' = [fds EXCEPT ![u] = None]
            /\ pending' = Unpend(u)
       \/ /\ \A u \in Acquires : fds[u] # number[t]
          /\ UNCHANGED <<fds, pending>>
    /\ stage' = [stage EXCEPT ![t] = IF stage[t] = "live" THEN "closed" ELSE "done"]
    /\ UNCHANGED <<client, by, number>>

----------------------------------------------------------------------------
(* Clients and the rest of the process                                     *)

\* retire_context.
Retire(c) ==
    /\ client[c] = "registered"
    /\ client' = [client EXCEPT ![c] = "retired"]
    /\ UNCHANGED <<open, stage, by, number, fds, pending>>

\* Fault: the destructor forgets its pending tokens without closing them.
DestroyClient_Forgets(c) ==
    /\ client[c] = "retired"
    /\ \A t \in Acquires : by[t] = c => stage[t] \notin AtWorker
    /\ pending' = [pending EXCEPT ![c] = {}]
    /\ client' = [client EXCEPT ![c] = "destroyed"]
    /\ UNCHANGED <<open, fds, stage, by, number>>

\* ~BluezMediaClientContext once its workers have joined: release_pending_fds.
DestroyClient(c) ==
    LET entries == {t \in pending[c] : fds[t] # None}
    IN /\ client[c] = "retired"
       /\ \A t \in Acquires : by[t] = c => stage[t] \notin AtWorker
       /\ open' = Closed({fds[t] : t \in entries})
       /\ fds' = [t \in Acquires |-> IF t \in entries THEN None ELSE fds[t]]
       /\ pending' = [pending EXCEPT ![c] = {}]
       /\ client' = [client EXCEPT ![c] = "destroyed"]
       /\ UNCHANGED <<stage, by, number>>

ForeignOpen(f) ==
    /\ open[f] = Free
    /\ open' = [open EXCEPT ![f] = Foreign]
    /\ UNCHANGED <<client, stage, by, number, fds, pending>>

ForeignClose(f) ==
    /\ open[f] = Foreign
    /\ open' = [open EXCEPT ![f] = Free]
    /\ UNCHANGED <<client, stage, by, number, fds, pending>>

Settle(t) ==
    \/ ReplyFails(t) \/ RetainFd(t) \/ PostResult(t)
    \/ Claim(t) \/ ClaimRefused(t) \/ LoseAnswer(t) \/ GiveBack(t)

Next ==
    \/ \E c \in Clients : Retire(c) \/ DestroyClient(c)
    \/ \E c \in Clients, t \in Acquires, f \in Fds :
         AcquireReply(c, t, f) \/ AcquireRaw(c, t, f)
    \/ \E t \in Acquires : Settle(t) \/ Finalize(t) \/ CloseFd(t)
    \/ \E f \in Fds : ForeignOpen(f) \/ ForeignClose(f)

\* The worker and the isolate go on with a reply they have; a retired client
\* is destroyed (ClientLifecycle: a retired context does go).  Nothing makes
\* the user close a descriptor or the collector run.
Fairness ==
    /\ \A t \in Acquires : WF_vars(Settle(t))
    /\ \A c \in Clients : WF_vars(DestroyClient(c))

Spec == Init /\ [][Next]_vars /\ Fairness

----------------------------------------------------------------------------
(* Properties                                                              *)

IsOpen(t) == \E f \in Fds : open[f] = t

\* A token of the registry stands for a descriptor that is still open and
\* still the one that was acquired, so that closing it hits nothing else; and
\* one handed to its owner stays open until that owner closes it or is
\* collected, also when the client it came from is closed.
RegistryOwns ==
    \A t \in Acquires :
        /\ fds[t] # None => open[fds[t]] = t
        /\ stage[t] \in {"live", "raw"} => open[number[t]] = t

\* Every open descriptor has somebody left to close it: the running operation,
\* the caller, the result object, a pending release, or its client's destructor.
NoOrphan ==
    \A t \in Acquires : IsOpen(t) =>
        \/ stage[t] \in {"reply", "raw"}
        \/ /\ fds[t] # None
           /\ \/ stage[t] \in {"live", "unposted", "refused"}
              \/ client[by[t]] # "destroyed" /\ t \in pending[by[t]]

\* The library never closes a descriptor that other code of the process
\* opened, although numbers are reused as soon as they are closed.
NeverClosesForeign ==
    [][\A f \in Fds : open[f] = Foreign /\ open'[f] # Foreign
                        => UNCHANGED <<client, stage, fds, pending>>]_vars

\* Closing a client closes what it acquired and nobody claimed, also when the
\* answer is lost or the claim races with the destructor.
UnclaimedIsClosed ==
    \A t \in Acquires :
        (by[t] # None /\ client[by[t]] # "registered" /\ stage[t] # "live")
            ~> ~IsOpen(t)

=============================================================================
