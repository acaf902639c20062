------------------------- MODULE CoverArtTransfers -------------------------
(***************************************************************************)
(* Fetching an image over OBEX into a file: CoverArtService::get_impl, the *)
(* transfers it starts in obexd, its deadline, its two attempts and the    *)
(* partial files it removes.  (native/src/cover_art_service.cpp)           *)
(*                                                                         *)
(* The requests of one service exclude each other (transfer_mutex_); all   *)
(* of them are well formed and name the same target file.  A session is a  *)
(* found or an owned one here; CoverArtSessions has the sessions.          *)
(***************************************************************************)
EXTENDS Naturals

CONSTANTS
    Fetches,      \* requests to one service
    Existing,     \* those made with existing_session_only
    Transfers,    \* numbers of transfer objects
    Size,         \* length of an image, in pieces obexd writes at once
    MaxFaults,    \* bound on errors of obexd and BlueZ
    None

ASSUME TransferAssumption ==
    /\ Existing \subseteq Fetches
    /\ Transfers \subseteq Nat \ {0}
    /\ Size \in Nat \ {0} /\ MaxFaults \in Nat
    /\ None \notin Transfers

VARIABLES
    call,        \* the request that holds transfer_mutex_
    expired,     \* its deadline has passed
    result,      \* how each request ended
    transfers,   \* obexd's transfer objects
    file,        \* what the target's path names
    stray,       \* history: running transfers whose Cancel or path was lost
    lost,        \* history: there has been one
    faults

obex == <<transfers, file, stray, lost>>
vars == <<call, expired, result, obex, faults>>

Places == {"source", "address", "session", "handle", "thumbnail", "waitThumbnail",
           "describe", "image", "waitImage", "retry"}
Results == {"waiting", "success", "invalid", "notFound", "failed", "error",
            "timeout"}
Transfer == [status : {"active", "complete", "error"}, ours : BOOLEAN,
             open : BOOLEAN, written : 0..Size]
File == [open : SUBSET Transfers, by : Transfers \cup {None}, size : 0..Size,
         torn : BOOLEAN]
Call == [id : Fetches, at : Places, attempt : 1..2, handle : BOOLEAN,
         owned : BOOLEAN, mine : Transfers \cup {None}, sized : BOOLEAN,
         error : BOOLEAN]

ASSUME NoneAssumption == None \notin Transfer \cup File \cup Call

TypeOK ==
    /\ call \in Call \cup {None} /\ expired \in BOOLEAN
    /\ result \in [Fetches -> Results]
    /\ transfers \in [Transfers -> Transfer \cup {None}]
    /\ file \in File \cup {None}
    /\ stray \subseteq Transfers /\ lost \in BOOLEAN
    /\ faults \in 0..MaxFaults

Init ==
    /\ call = None /\ expired = FALSE
    /\ result = [f \in Fetches |-> "waiting"]
    /\ transfers = [x \in Transfers |-> None]
    /\ file = None
    /\ stray = {} /\ lost = FALSE
    /\ faults = 0

\* What obexd says of a transfer.
Status(x) == IF transfers[x] = None THEN "unknown" ELSE transfers[x].status

Running(x) == Status(x) = "active"

----------------------------------------------------------------------------
(* Helpers of the fetching thread                                          *)

At(place) == call # None /\ call.at = place

Go(place) == call' = [call EXCEPT !.at = place]

\* The file once the transfers in S are over and write no more.
Released(S) ==
    IF file = None THEN None
    ELSE [file EXCEPT !.open = @ \ S, !.by = IF @ \in S THEN None ELSE @]

\* Fault: the answer leaves the partial file behind.
Return_KeepsFile(outcome) ==
    /\ result' = [result EXCEPT ![call.id] = outcome]
    /\ call' = None
    /\ file' = file

\* get_impl returns or throws: ~PartialFile removes what is not complete.
Return(outcome) ==
    /\ result' = [result EXCEPT ![call.id] = outcome]
    /\ call' = None
    /\ file' = IF outcome = "success" THEN Released({call.mine}) ELSE None

\* A D-Bus call ends with an error: the peer's own, or a timeout, which is at
\* the deadline since the call was given the time that remains.
CallFails ==
    \/ /\ faults < MaxFaults
       /\ faults' = faults + 1 /\ UNCHANGED expired
    \/ expired' = TRUE /\ UNCHANGED faults

\* remaining_timeout throws before the call is made.
NoTimeLeft ==
    /\ expired
    /\ Return("timeout")
    /\ UNCHANGED <<expired, transfers, stray, lost, faults>>

\* The call is made and fails, and the error leaves get_impl.
Throws ==
    /\ ~expired /\ CallFails
    /\ Return("error")
    /\ UNCHANGED <<transfers, stray, lost>>

\* transfer_file_complete.
FileComplete ==
    /\ file # None
    /\ IF call.sized THEN file.size = Size ELSE file.size > 0

----------------------------------------------------------------------------
(* The way to a transfer                                                   *)

\* The target exists already.
Reject(f) ==
    /\ call = None /\ result[f] = "waiting"
    /\ file # None
    /\ result' = [result EXCEPT ![f] = "invalid"]
    /\ UNCHANGED <<call, expired, obex, faults>>

\* The deadline starts with the lock, not with the request.
Begin(f) ==
    /\ call = None /\ result[f] = "waiting"
    /\ file = None
    /\ call' = [id |-> f, at |-> "source", attempt |-> 1, handle |-> FALSE,
                owned |-> FALSE, mine |-> None, sized |-> FALSE,
                error |-> FALSE]
    /\ expired' = FALSE
    /\ UNCHANGED <<result, obex, faults>>

NotFound ==
    /\ Return("notFound")
    /\ UNCHANGED <<expired, transfers, stray, lost, faults>>

\* get_cover_art_source: one GetAll, or two for an item.
ReadSource ==
    /\ At("source")
    /\ \/ /\ ~expired
          /\ \E h \in BOOLEAN : call' = [call EXCEPT !.at = "address",
                                                     !.handle = h]
          /\ UNCHANGED <<expired, result, obex, faults>>
       \/ ~expired /\ NotFound
       \/ NoTimeLeft \/ Throws

\* get_device_address.
ReadAddress ==
    /\ At("address")
    /\ \/ ~expired /\ Go("session") /\ UNCHANGED <<expired, result, obex, faults>>
       \/ ~expired /\ NotFound
       \/ NoTimeLeft \/ Throws

\* find_session, or register_player and the look-up of its session, which
\* another thread may have removed in between.  A player that is served already
\* needs no call, and no time.
GetSession ==
    /\ At("session")
    /\ \/ /\ expired => call.id \notin Existing
          /\ \E o \in IF call.id \in Existing THEN {FALSE} ELSE BOOLEAN :
               call' = [call EXCEPT !.at = "handle", !.owned = o]
          /\ UNCHANGED <<expired, result, obex, faults>>
       \/ (expired => call.id \notin Existing) /\ NotFound
       \/ NoTimeLeft \/ Throws

\* wait_for_image_handle, which looks at the clock before each round.
GetHandle ==
    /\ At("handle")
    /\ \/ /\ call.handle \/ ~expired
          /\ call' = [call EXCEPT !.at = "thumbnail", !.handle = TRUE]
          /\ UNCHANGED <<expired, result, obex, faults>>
       \/ ~call.handle /\ expired /\ NotFound
       \/ ~call.handle /\ (NoTimeLeft \/ Throws)

----------------------------------------------------------------------------
(* Transfers                                                               *)

\* obexd makes transfer x, the one with the lowest free number.
Make(x) ==
    /\ transfers[x] = None
    /\ \A y \in Transfers : transfers[y] = None => x <= y
    /\ transfers' = [transfers EXCEPT ![x] =
                       [status |-> "active", ours |-> call.owned,
                        open |-> FALSE, written |-> 0]]

\* get_thumbnail or get_image up to the reply with the transfer's path, which
\* comes with its Size or without.  An error is remembered; when the reply is
\* lost obexd has started a transfer all the same.
Request(wait, next) ==
    \/ /\ ~expired
       /\ \E x \in Transfers, s \in BOOLEAN :
            /\ Make(x)
            /\ call' = [call EXCEPT !.at = wait, !.sized = s, !.mine = x]
       /\ UNCHANGED <<expired, result, file, stray, lost, faults>>
    \/ /\ ~expired /\ CallFails
       /\ call' = [call EXCEPT !.at = next, !.error = TRUE]
       /\ file' = None
       /\ UNCHANGED <<transfers, stray, lost, result>>
    \/ /\ ~expired /\ expired' = TRUE
       /\ \E x \in Transfers : Make(x) /\ stray' = stray \cup {x}
       /\ lost' = TRUE
       /\ call' = [call EXCEPT !.at = next, !.error = TRUE]
       /\ file' = None
       /\ UNCHANGED <<result, faults>>
    \/ NoTimeLeft

\* Fault: the guard of a transfer that timed out does not cancel it.
Cancel_Skipped(x) == UNCHANGED <<transfers, stray, lost, faults>>

\* ~TransferCleanup: Cancel ends a transfer that runs, unless obexd does not
\* answer within its time or refuses.
Cancel(x) ==
    \/ /\ transfers' = [transfers EXCEPT ![x] = None]
       /\ UNCHANGED <<stray, lost, faults>>
    \/ /\ Running(x) /\ faults < MaxFaults
       /\ faults' = faults + 1 /\ stray' = stray \cup {x} /\ lost' = TRUE
       /\ UNCHANGED transfers

\* The wait ends without an image; remove_partial_file.
GiveUp(next) ==
    /\ call' = [call EXCEPT !.at = next, !.mine = None]
    /\ file' = None
    /\ UNCHANGED result

\* Fault: the loop does not look at the clock, nor does its request.
Wait_Forever(next) ==
    LET x == call.mine IN
    \/ /\ Status(x) \in {"unknown", "complete"}
       /\ IF FileComplete THEN Return("success") ELSE GiveUp(next)
       /\ transfers' = [transfers EXCEPT ![x] = None]
       /\ UNCHANGED <<expired, stray, lost, faults>>
    \/ /\ Status(x) = "error"
       /\ GiveUp(next)
       /\ transfers' = [transfers EXCEPT ![x] = None]
       /\ UNCHANGED <<expired, stray, lost, faults>>

\* Fault: a transfer object that is gone has completed.
Wait_GoneIsDone(next) ==
    LET x == call.mine IN
    \/ /\ Status(x) \in {"unknown", "complete"}
       /\ IF Status(x) = "unknown" \/ FileComplete
          THEN Return("success") ELSE GiveUp(next)
       /\ transfers' = [transfers EXCEPT ![x] = None]
       /\ UNCHANGED <<expired, stray, lost, faults>>
    \/ /\ Status(x) = "error"
       /\ GiveUp(next)
       /\ transfers' = [transfers EXCEPT ![x] = None]
       /\ UNCHANGED <<expired, stray, lost, faults>>
    \/ expired /\ GiveUp(next) /\ Cancel(x) /\ UNCHANGED expired

\* wait_for_transfer, one round of the loop that decides: the transfer has
\* completed or is unknown to obexd, and the file is looked at; it has failed;
\* the status cannot be read, or the time is up, and it is cancelled.
Wait(next) ==
    LET x == call.mine IN
    \/ /\ ~expired
       /\ Status(x) \in {"unknown", "complete"}
       /\ IF FileComplete THEN Return("success") ELSE GiveUp(next)
       /\ transfers' = [transfers EXCEPT ![x] = None]
       /\ UNCHANGED <<expired, stray, lost, faults>>
    \/ /\ ~expired
       /\ Status(x) = "error"
       /\ GiveUp(next)
       /\ transfers' = [transfers EXCEPT ![x] = None]
       /\ UNCHANGED <<expired, stray, lost, faults>>
    \/ /\ ~expired /\ expired' \in BOOLEAN
       /\ GiveUp(next) /\ Cancel(x)
    \/ /\ expired
       /\ GiveUp(next) \/ Return("timeout")
       /\ Cancel(x) /\ UNCHANGED expired

GetThumbnail  == At("thumbnail") /\ Request("waitThumbnail", "describe")
WaitThumbnail == At("waitThumbnail") /\ Wait("describe")

\* preferred_description: without a native format there is nothing to get.
Describe ==
    /\ At("describe")
    /\ \/ /\ ~expired
          /\ Go("image") \/ Go("retry")
          /\ UNCHANGED <<expired, result, obex, faults>>
       \/ /\ ~expired /\ CallFails
          /\ call' = [call EXCEPT !.at = "retry", !.error = TRUE]
          /\ UNCHANGED <<result, obex>>
       \/ NoTimeLeft

GetImage  == At("image") /\ Request("waitImage", "retry")
WaitImage == At("waitImage") /\ Wait("retry")

\* Fault: the loop makes one attempt too many.
Retry_Thrice ==
    /\ At("retry")
    /\ call' = [call EXCEPT !.at = "session", !.attempt = @ + 1]
    /\ file' = None
    /\ UNCHANGED <<expired, result, transfers, stray, lost, faults>>

\* invalidate_player_session closes the session if it is owned, which ends its
\* transfers, unless RemoveSession fails unseen; then the second attempt, or
\* the error that was remembered.
Retry ==
    LET ours == {x \in Transfers : transfers[x] # None /\ transfers[x].ours} IN
    /\ At("retry")
    /\ \/ /\ call.owned
          /\ transfers' = [x \in Transfers |-> IF x \in ours THEN None
                                                             ELSE transfers[x]]
          /\ stray' = stray \ ours
          /\ UNCHANGED <<lost, faults>>
       \/ /\ call.owned => faults < MaxFaults
          /\ faults' = IF call.owned THEN faults + 1 ELSE faults
          /\ UNCHANGED <<transfers, stray, lost>>
    /\ IF call.attempt = 1 /\ call.id \notin Existing
       THEN /\ call' = [call EXCEPT !.at = "session", !.attempt = 2]
            /\ file' = None /\ UNCHANGED result
       ELSE Return(IF call.error THEN "error" ELSE "failed")
    /\ UNCHANGED expired

\* The clock passes the deadline.
Expire ==
    /\ call # None /\ ~expired
    /\ expired' = TRUE
    /\ UNCHANGED <<call, result, obex, faults>>

----------------------------------------------------------------------------
(* obexd                                                                   *)

\* The target is created or, if it is there, truncated.
Open(x) ==
    /\ Running(x) /\ ~transfers[x].open
    /\ transfers' = [transfers EXCEPT ![x].open = TRUE]
    /\ file' = [open |-> {x} \cup IF file = None THEN {} ELSE file.open,
                by |-> x, size |-> 0, torn |-> FALSE]
    /\ UNCHANGED <<call, expired, result, stray, lost, faults>>

\* A piece of the image arrives; it is lost if the file was unlinked since.
Write(x) ==
    LET end == transfers[x].written + 1 IN
    /\ Running(x) /\ transfers[x].open /\ end <= Size
    /\ transfers' = [transfers EXCEPT ![x].written = end]
    /\ file' = IF file = None \/ x \notin file.open THEN file
               ELSE [file EXCEPT !.size = IF @ > end THEN @ ELSE end,
                                 !.torn = @ \/ file.by # x]
    /\ UNCHANGED <<call, expired, result, stray, lost, faults>>

\* The transfer ends.  Its object says so for a while; that of a stray transfer
\* is of interest to nobody.
Finish(x) ==
    /\ Running(x)
    /\ \E outcome \in {"complete", "error"} :
         /\ outcome = "complete" => transfers[x].written = Size
         /\ outcome = "error" => faults < MaxFaults
         /\ faults' = IF outcome = "error" THEN faults + 1 ELSE faults
         /\ IF x \in stray
            THEN transfers' = [transfers EXCEPT ![x] = None]
                 /\ file' = Released({x})
            ELSE transfers' = [transfers EXCEPT ![x].status = outcome]
                 /\ UNCHANGED file
    /\ stray' = stray \ {x}
    /\ UNCHANGED <<call, expired, result, lost>>

\* Its object goes away.
Forget(x) ==
    /\ Status(x) \in {"complete", "error"}
    /\ transfers' = [transfers EXCEPT ![x] = None]
    /\ file' = Released({x})
    /\ UNCHANGED <<call, expired, result, stray, lost, faults>>

\* obexd drops a session, or crashes: its transfers are gone at once.
Drop(S) ==
    /\ S # {} /\ faults < MaxFaults
    /\ faults' = faults + 1
    /\ transfers' = [x \in Transfers |-> IF x \in S THEN None ELSE transfers[x]]
    /\ stray' = stray \ S
    /\ file' = Released(S)
    /\ UNCHANGED <<call, expired, result, lost>>

----------------------------------------------------------------------------
Fetch ==
    \/ \E f \in Fetches : Begin(f) \/ Reject(f)
    \/ ReadSource \/ ReadAddress \/ GetSession \/ GetHandle
    \/ GetThumbnail \/ WaitThumbnail \/ Describe \/ GetImage \/ WaitImage
    \/ Retry

Obexd ==
    \/ \E x \in Transfers : Open(x) \/ Write(x) \/ Finish(x) \/ Forget(x)
    \/ \E o \in SUBSET BOOLEAN :
         Drop({x \in Transfers : transfers[x] # None /\ transfers[x].ours \in o})

AllAnswered == \A f \in Fetches : result[f] # "waiting"

\* Nobody asks for anything any more.
Stop == AllAnswered /\ UNCHANGED vars

Next == Fetch \/ Expire \/ Obexd \/ Stop

\* The fetching thread runs and the clock goes on; nothing is asked of obexd.
Fairness == WF_vars(Fetch) /\ WF_vars(Expire)

Spec == Init /\ [][Next]_vars /\ Fairness

----------------------------------------------------------------------------
(* Properties                                                              *)

\* No transfer is left behind: whatever obexd is still receiving belongs to
\* the request that waits for it, or its Cancel or the reply with its path was
\* lost (TransferCleanup).
RunningIsOurs ==
    \A x \in Transfers : Running(x) =>
        x \in stray \/ (call # None /\ call.mine = x)

\* The file of a success is there for its caller; an answer other than success
\* leaves no file, unless a transfer was lost, whose file obexd may create after
\* the request has removed its own (PartialFile).
FileIsAnswer ==
    LET succeeded == \E f \in Fetches : result[f] = "success" IN
    call = None => /\ succeeded => file # None
                   /\ file # None => succeeded \/ lost

\* A success is the image of the transfer that was waited for, whole and from
\* one transfer, over leftovers of earlier requests and of the thumbnail; only
\* of a transfer that vanished and had told no Size, part may be missing, and
\* only a lost one may have written to the same file (transfer_file_complete).
SuccessIsImage ==
    [][\A f \in Fetches :
         result[f] # "success" /\ result'[f] = "success" =>
           /\ file # None /\ file.size > 0
           /\ \/ file.size = Size
              \/ ~call.sized /\ Status(call.mine) = "unknown"
              \/ ~call.sized /\ lost
           /\ file.torn => lost]_vars

=============================================================================
