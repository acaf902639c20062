----------------------------- MODULE MediaCalls -----------------------------
(***************************************************************************)
(* One request to BlueZ through both surfaces of the library: a thread     *)
(* makes it through the blocking C entry point and owns the buffer it      *)
(* fills; a Dart isolate makes it through bluez_media_call_async, gets a   *)
(* message on a port and decodes it.  Both run at the same time, on the    *)
(* same client, which may be closed at any moment, and BlueZ answers each  *)
(* of them as it likes.  An event of the object manager takes the second   *)
(* way only.  (native/src/bluez_media_client.cpp,                          *)
(* lib/src/bluez_media_client.dart)                                        *)
(*                                                                         *)
(* The queues are in ClientLifecycle, the ownership of an acquired         *)
(* descriptor after the answer in FdRegistry, the registrations of local   *)
(* players in LocalPlayers and the fetching of an image in                 *)
(* CoverArtTransfers: what those return is a reply here.                   *)
(***************************************************************************)
EXTENDS DbusProxies, FiniteSets

CONSTANTS
    Requests,     \* a sequence of requests [op, path, argument, timeout,
                  \* content]: the texts may be None (nullptr); content is
                  \* what BlueZ has
    Fds,          \* descriptor numbers the kernel may give
    None

VARIABLES
    request,      \* the request of this behaviour
    alive,        \* get_context finds the handle
    sync,         \* the blocking call
    out,          \* the caller's BluezMediaBuffer: its data
    heap,         \* allocations of write_payload not freed
    async,        \* the queued call
    message,      \* what was posted to the result port
    view,         \* how Dart's future completed
    fds           \* open descriptors

vars == <<request, alive, sync, out, heap, async, message, view, fds>>

Op == request.op

(* ------------------------------ operations ----------------------------- *)
PlayerCommands == {"PLAYER_PLAY", "PLAYER_PAUSE", "PLAYER_STOP", "PLAYER_NEXT",
                   "PLAYER_PREVIOUS", "PLAYER_FAST_FORWARD", "PLAYER_REWIND"}
PlayerSettings == {"PLAYER_SET_REPEAT", "PLAYER_SET_SHUFFLE"}
ControlCommands == {"CONTROL_PLAY", "CONTROL_PAUSE", "CONTROL_STOP",
                    "CONTROL_NEXT", "CONTROL_PREVIOUS", "CONTROL_VOLUME_UP",
                    "CONTROL_VOLUME_DOWN", "CONTROL_FAST_FORWARD", "CONTROL_REWIND"}
BrowserCommands == {"FOLDER_CHANGE_FOLDER", "ITEM_PLAY", "ITEM_ADD_TO_NOW_PLAYING"}
TransportCommands == {"TRANSPORT_RELEASE", "TRANSPORT_SET_VOLUME"}
CoverFetches == {"PLAYER_GET_COVER_ART", "ITEM_GET_COVER_ART",
                 "PLAYER_GET_COVER_ART_FROM_EXISTING_SESSION",
                 "ITEM_GET_COVER_ART_FROM_EXISTING_SESSION"}
Acquires == {"TRANSPORT_ACQUIRE", "TRANSPORT_TRY_ACQUIRE"}
Registrations == {"REGISTER_PLAYER", "UNREGISTER_PLAYER"}

\* The getters, each with the struct it answers with.
Struct == [PLAYER_GET_PROPERTIES |-> "PlayerProps",
           CONTROL_GET_PROPERTIES |-> "ControlProps",
           TRANSPORT_GET_PROPERTIES |-> "TransportProps",
           FOLDER_GET_PROPERTIES |-> "FolderProps", FOLDER_SEARCH |-> "FolderProps",
           ITEM_GET_PROPERTIES |-> "ItemProps", FOLDER_LIST_ITEMS |-> "FolderItems",
           GET_MANAGED_OBJECTS |-> "ManagedObjects",
           TRANSPORT_ACQUIRE |-> "AcquireResult",
           TRANSPORT_TRY_ACQUIRE |-> "AcquireResult"]

\* post_properties, post_removed: the tag of an event, and Dart's
\* _dispatchEvent: the struct it decodes for a tag.
EventTag == [PlayerProps |-> 1, ControlProps |-> 2, TransportProps |-> 4,
             FolderProps |-> 5, ItemProps |-> 6, ObjectRemoved |-> 126]

EventStruct(tag) ==
    CASE tag = 1 -> "PlayerProps" [] tag = 2 -> "ControlProps"
      [] tag = 4 -> "TransportProps" [] tag = 5 -> "FolderProps"
      [] tag = 6 -> "ItemProps" [] tag = 126 -> "ObjectRemoved"

IsEvent == Op = "EVENT"

Buffered == Op \in DOMAIN Struct
OfProxy == Op \in PlayerCommands \cup PlayerSettings \cup ControlCommands
                  \cup BrowserCommands \cup TransportCommands
                  \cup (DOMAIN Struct \ {"GET_MANAGED_OBJECTS"})
\* Operations without an entry point of the other kind.
Blocking == ~IsEvent /\ Op \notin {"MPRIS_GET_COVER_ART", "UNKNOWN"}

\* The struct made of BlueZ's content.
Made(r, struct, path, fd) ==
    LET c == r.content IN
    CASE struct = "PlayerProps"    -> PlayerProps(path, c)
      [] struct = "ControlProps"   -> ControlProps(path, c)
      [] struct = "TransportProps" -> TransportProps(path, c)
      [] struct = "FolderProps"    -> IF r.op = "FOLDER_SEARCH" THEN FolderSearch(c)
                                      ELSE FolderProps(path, c)
      [] struct = "ItemProps"      -> ItemProps(path, c)
      [] struct = "FolderItems"    -> FolderItems(path, c)
      [] struct = "ManagedObjects" -> ManagedObjects(c)
      [] struct = "AcquireResult"  -> AcquireResult(path, fd, c)
      [] struct = "ObjectRemoved"  -> ObjectRemoved(path, c)

Text(value) == IF value = None THEN <<>> ELSE value

\* The types of C++: what BlueZ sends, and so what is made of it, is a value of
\* the struct it is put into, and no text or list is as long as a uint32_t can
\* count (a D-Bus message has at most 2^27 bytes).  An event is about an object.
ASSUME RequestAssumption ==
    \A i \in DOMAIN Requests :
        LET r == Requests[i] IN
        /\ r.path = None \/ Holds("text", r.path)
        /\ r.op \in DOMAIN Struct =>
              \A fd \in IF r.op \in Acquires THEN Fds ELSE {None} :
                 Holds(Struct[r.op], Made(r, Struct[r.op], Text(r.path), fd))
        /\ r.op = "EVENT" =>
              /\ r.path # None /\ r.argument \in DOMAIN EventTag
              /\ Holds(r.argument, Made(r, r.argument, r.path, None))
        /\ r.op = "MPRIS_GET_COVER_ART" => r.content \in Seq(Byte)

\* A descriptor is an int32_t, and not negative.
ASSUME FdAssumption == \A fd \in Fds : fd \in Nat /\ Holds("i32", fd)

Payload(path, fd) == Encode(Struct[Op], Made(request, Struct[Op], path, fd))

(* ------------------------------- replies ------------------------------- *)
\* Texts that stand for the names and messages of errors.
InvalidArguments == <<1>>
NotSupported == <<2>>
AlreadyExists == <<3>>
DoesNotExist == <<4>>
Failed == <<5>>
InvalidParameter == <<6>>
OtherName == <<7>>

Done == [kind |-> "done", status |-> "SUCCESS", name |-> <<>>, text |-> <<>>]
Returned(status) == [Done EXCEPT !.status = status]
Threw(name, text) == [kind |-> "error", status |-> "", name |-> name, text |-> text]

\* What a call of BlueZ, or the component behind the operation, may do.
\* sd-bus ends a call that is not answered with an error of its own.
Replies ==
    CASE Op = "REGISTER_PLAYER" ->
            {Done, Returned("ALREADY_EXISTS"), Returned("INVALID_ARGUMENT"),
             Threw(OtherName, <<>>)}
      [] Op = "UNREGISTER_PLAYER" -> {Done, Returned("NOT_FOUND")}
      [] Op \in CoverFetches ->
            {Done, Returned("NOT_FOUND"), Returned("INVALID_ARGUMENT"),
             Threw(Failed, <<>>)}
      [] Op = "MPRIS_GET_COVER_ART" -> {Done, Threw(Failed, <<>>)}
      [] OTHER -> {Done, Threw(OtherName, <<>>), Threw(Failed, InvalidParameter)}

Statuses == {"SUCCESS", "INVALID_ARGUMENT", "OPERATION_FAILED",
             "UNSUPPORTED_SETTING", "ALREADY_EXISTS", "NOT_FOUND"}

\* nullptr is no descriptor, text or answer, and a null view no completion.
ASSUME NoneAssumption ==
    /\ None \notin Fds /\ None \notin Seq(Byte)
    /\ None \notin [kind : {"done", "error"}, status : Statuses \cup {""},
                     name : Seq(Byte), text : Seq(Byte)]
ASSUME ViewAssumption == None # [kind |-> "StateError", value |-> <<>>]

Init ==
    /\ \E i \in DOMAIN Requests : request = Requests[i]
    /\ alive = TRUE
    /\ sync = [at |-> "idle", status |-> "", reply |-> None, fd |-> None,
               short |-> FALSE]
    /\ out = None
    /\ heap = 0
    /\ async = [at |-> "idle", reply |-> None, fd |-> None]
    /\ message = <<>>
    /\ view = None
    /\ fds = {}

(* ------------------------ the blocking entry points -------------------- *)
\* The arguments an entry point refuses before it does anything.
NullArgument ==
    \/ Op \notin Registrations \cup {"GET_MANAGED_OBJECTS"} /\ request.path = None
    \/ Op \in PlayerSettings \cup CoverFetches \cup {"FOLDER_CHANGE_FOLDER"}
         /\ request.argument = None
    \/ Op \in CoverFetches /\ request.timeout <= 0

\* MediaClient's own checks of the two paths of a registration.
NullRegistration ==
    /\ Op \in Registrations
    /\ request.path = None \/ (Op = "UNREGISTER_PLAYER" /\ request.argument = None)

SyncReturns(status) == sync' = [sync EXCEPT !.at = "returned", !.status = status]

\* prepare_buffer, the checks, get_context, the proxy's constructor, and the
\* call of BlueZ.  A caller does not reuse a buffer it has not freed.
SyncCall ==
    /\ Blocking /\ sync.at \in {"idle", "freed"}
    /\ out' = None
    /\ IF NullArgument \/ ~alive \/ NullRegistration THEN SyncReturns("INVALID_ARGUMENT")
       ELSE IF OfProxy /\ request.path = <<>> THEN SyncReturns("OPERATION_FAILED")
       ELSE sync' = [sync EXCEPT !.at = "bluez"]
    /\ UNCHANGED <<request, alive, heap, async, message, view, fds>>

\* The mapping of exceptions to status codes.
StatusOf(reply) ==
    IF reply.kind = "done" THEN reply.status
    ELSE IF Op \in PlayerSettings /\ reply.name = Failed /\ reply.text = InvalidParameter
         THEN "UNSUPPORTED_SETTING"
    ELSE "OPERATION_FAILED"

\* write_payload; the allocation may fail.
WritePayload(payload, memory) ==
    IF memory THEN out' = payload /\ heap' = heap + 1 ELSE UNCHANGED <<out, heap>>

Ended(reply, status, memory) ==
    sync' = [sync EXCEPT !.at = "returned", !.status = status, !.reply = reply,
                         !.short = ~memory]

SyncReply(reply) ==
    /\ sync.at = "bluez" /\ Op \notin Acquires
    /\ \E memory \in BOOLEAN :
        IF reply = Done /\ Buffered
        THEN /\ WritePayload(Payload(request.path, None), memory)
             /\ Ended(reply, IF memory THEN "SUCCESS" ELSE "OPERATION_FAILED", memory)
        ELSE memory /\ Ended(reply, StatusOf(reply), TRUE) /\ UNCHANGED <<out, heap>>
    /\ UNCHANGED <<request, alive, async, message, view, fds>>

\* acquire, try_acquire: take_fd owns the descriptor or closes it.
SyncAcquired(reply) ==
    /\ sync.at = "bluez" /\ Op \in Acquires
    /\ IF reply = Done
       THEN \/ \E fd \in Fds \ fds :
                 /\ sync' = [sync EXCEPT !.at = "holding", !.fd = fd, !.reply = reply]
                 /\ fds' = fds \cup {fd}
            \/ Ended(Threw(Failed, <<>>), "OPERATION_FAILED", TRUE) /\ UNCHANGED fds
       ELSE Ended(reply, StatusOf(reply), TRUE) /\ UNCHANGED fds
    /\ UNCHANGED <<request, alive, out, heap, async, message, view>>

\* The descriptor is the caller's once the payload is written.
SyncWrite ==
    /\ sync.at = "holding"
    /\ \/ /\ WritePayload(Payload(request.path, sync.fd), TRUE)
          /\ SyncReturns("SUCCESS")
          /\ UNCHANGED fds
       \/ \* no memory for the copy: BlueZ is asked to release the transport
          /\ WritePayload(Payload(request.path, sync.fd), FALSE)
          /\ sync' = [sync EXCEPT !.at = "releasing", !.short = TRUE]
          /\ UNCHANGED fds
       \/ \* glz::encode throws
          /\ sync' = [sync EXCEPT !.at = "returned", !.status = "OPERATION_FAILED",
                                  !.short = TRUE, !.fd = None]
          /\ fds' = fds \ {sync.fd}
          /\ UNCHANGED <<out, heap>>
    /\ UNCHANGED <<request, alive, async, message, view>>

SyncReleased_FdLeft ==
    /\ sync.at = "releasing"
    /\ sync' = [sync EXCEPT !.at = "returned", !.status = "OPERATION_FAILED",
                            !.fd = None]
    /\ UNCHANGED <<request, alive, out, heap, async, message, view, fds>>

\* proxy.release() has returned or thrown; owned_fd closes the descriptor.
SyncReleased ==
    /\ sync.at = "releasing"
    /\ sync' = [sync EXCEPT !.at = "returned", !.status = "OPERATION_FAILED",
                            !.fd = None]
    /\ fds' = fds \ {sync.fd}
    /\ UNCHANGED <<request, alive, out, heap, async, message, view>>

\* std::free and the reset of the buffer's fields.
FreeBuffer ==
    /\ heap' = heap - (IF out = None THEN 0 ELSE 1)
    /\ out' = None

\* The caller frees the buffer whatever the status was, and may do so again;
\* it closes a descriptor it was given.
BufferFree ==
    /\ Blocking /\ sync.at \in {"returned", "freed"}
    /\ FreeBuffer
    /\ sync' = [sync EXCEPT !.at = "freed", !.status = "", !.reply = None,
                            !.fd = None, !.short = FALSE]
    /\ fds' = fds \ {sync.fd}
    /\ UNCHANGED <<request, alive, async, message, view>>

(* --------------------------- the queued call --------------------------- *)
PostBytes(tag, payload) == message' = <<tag>> \o payload

PostError(path, name, text) ==
    PostBytes(32, Encode("Error", [objectPath |-> path, name |-> name, message |-> text]))

PostStatus_Swallowed(path, status) == PostBytes(255, <<>>)

ErrorName(status) ==
    CASE status = "INVALID_ARGUMENT" -> InvalidArguments
      [] status = "UNSUPPORTED_SETTING" -> NotSupported
      [] status = "ALREADY_EXISTS" -> AlreadyExists
      [] status = "NOT_FOUND" -> DoesNotExist
      [] OTHER -> Failed

\* post_status; the fixed messages of the statuses are the empty text here.
PostStatus(path, status) ==
    IF status = "SUCCESS" THEN PostBytes(255, <<>>)
    ELSE PostError(path, ErrorName(status), <<>>)

AsyncAnswers(reply) == async' = [async EXCEPT !.at = "answered", !.reply = reply]

\* register_player_async refuses a null member, the name included; its
\* answers to that have no path.
RegistrationRefused ==
    Op = "REGISTER_PLAYER" /\ (request.path = None \/ request.argument = None)

\* bluez_media_call_async, register_player_async
AsyncCall ==
    /\ ~IsEvent /\ async.at = "idle"
    /\ IF ~alive \/ RegistrationRefused
       THEN /\ PostStatus(IF Op = "REGISTER_PLAYER" THEN <<>> ELSE Text(request.path),
                          "INVALID_ARGUMENT")
            /\ AsyncAnswers(None)
       ELSE async' = [async EXCEPT !.at = "queued"] /\ UNCHANGED message
    /\ UNCHANGED <<request, alive, sync, out, heap, view, fds>>

\* The worker runs the operation as far as its call of BlueZ.  The arguments
\* of a queued cover-art call are checked by get_impl: a reply.
AsyncTake ==
    /\ async.at = "queued"
    /\ \/ /\ OfProxy /\ Text(request.path) = <<>>
          /\ PostError(<<>>, InvalidArguments, <<>>)
          /\ AsyncAnswers(None)
       \/ /\ Op = "UNKNOWN"
          /\ PostStatus(Text(request.path), "INVALID_ARGUMENT")
          /\ AsyncAnswers(None)
       \/ /\ Op # "UNKNOWN" /\ ~(OfProxy /\ Text(request.path) = <<>>)
          /\ async' = [async EXCEPT !.at = "bluez"]
          /\ UNCHANGED message
    /\ UNCHANGED <<request, alive, sync, out, heap, view, fds>>

\* A call that is not about a descriptor is answered by its exception, its
\* status or its payload.
AsyncReply(reply) ==
    /\ async.at = "bluez" /\ Op \notin Acquires
    /\ IF reply.kind = "error"
       THEN PostError(Text(request.path), reply.name, reply.text)
       ELSE IF reply # Done THEN PostStatus(Text(request.path), reply.status)
       ELSE IF Buffered THEN PostBytes(16, Payload(Text(request.path), None))
       ELSE IF Op = "MPRIS_GET_COVER_ART" THEN PostBytes(16, request.content)
       ELSE PostBytes(255, <<>>)
    /\ AsyncAnswers(reply)
    /\ UNCHANGED <<request, alive, sync, out, heap, view, fds>>

\* An acquired descriptor is retained under a token (its number here).
AsyncAcquired(reply) ==
    /\ async.at = "bluez" /\ Op \in Acquires
    /\ IF reply = Done
       THEN \/ \E fd \in Fds \ fds :
                 /\ PostBytes(17, WriteInteger(fd, Width.u64) \o Payload(request.path, fd))
                 /\ async' = [async EXCEPT !.at = "answered", !.reply = reply, !.fd = fd]
                 /\ fds' = fds \cup {fd}
            \/ /\ PostError(request.path, Failed, <<>>)
               /\ AsyncAnswers(Threw(Failed, <<>>))
               /\ UNCHANGED fds
       ELSE /\ PostError(request.path, reply.name, reply.text)
            /\ AsyncAnswers(reply)
            /\ UNCHANGED fds
    /\ UNCHANGED <<request, alive, sync, out, heap, view>>

\* MediaObjectManager::post_properties, post_removed
PostEvent ==
    /\ IsEvent /\ async.at = "idle"
    /\ PostBytes(EventTag[request.argument],
                 Encode(request.argument,
                        Made(request, request.argument, request.path, None)))
    /\ AsyncAnswers(Done)
    /\ UNCHANGED <<request, alive, sync, out, heap, view, fds>>

(* -------------------------------- Dart --------------------------------- *)
Completed(kind, value) == view' = [kind |-> kind, value |-> value]

\* The end of a decoding: its value, or the RangeError it threw.
Decoded(r) == IF r.ok THEN Completed("value", r.value) ELSE Completed("RangeError", <<>>)

Body == Tail(message)

\* BluezMediaClient._decodeAcquire: the token, the result after it, the
\* claim, which a client closed in the meantime refuses.
DecodeAcquire ==
    LET token == ReadInteger(Body, 1, 8).value
        result == Decode("AcquireResult", Body, 8)
    IN  IF result.ok /\ alive THEN Decoded(result) /\ UNCHANGED <<fds, async>>
        ELSE /\ Completed(IF result.ok THEN "StateError" ELSE "RangeError", <<>>)
             /\ fds' = fds \ {token}
             /\ async' = [async EXCEPT !.fd = None]

\* _awaitNativeResult and what the caller makes of the payload.
ReceiveResult ==
    /\ ~IsEvent /\ async.at = "answered" /\ view = None
    /\ CASE message[1] = 32 -> LET r == Decode("Error", message, 1)
                               IN  IF r.ok THEN Completed("exception", r.value)
                                   ELSE Completed("RangeError", <<>>)
         [] message[1] = 255 -> Completed("null", <<>>)
         [] message[1] \in {16, 17} /\ Op \in DOMAIN Struct \ Acquires ->
                Decoded(Decode(Struct[Op], Body, 0))
         [] message[1] \in {16, 17} /\ Op \in Acquires -> DecodeAcquire
         [] OTHER -> Completed("value", Body)
    /\ (message[1] # 17 => UNCHANGED <<fds, async>>)
    /\ UNCHANGED <<request, alive, sync, out, heap, message>>

\* _onEvent, _dispatchEvent
ReceiveEvent ==
    /\ IsEvent /\ async.at = "answered" /\ view = None /\ alive
    /\ Decoded(Decode(EventStruct(message[1]), message, 1))
    /\ UNCHANGED <<request, alive, sync, out, heap, async, message, fds>>

\* The client is closed by either side.
Retire ==
    /\ alive
    /\ alive' = FALSE
    /\ UNCHANGED <<request, sync, out, heap, async, message, view, fds>>

Next ==
    \/ SyncCall
    \/ \E reply \in Replies : SyncReply(reply)
    \/ \E reply \in Replies : SyncAcquired(reply)
    \/ SyncWrite
    \/ SyncReleased
    \/ BufferFree
    \/ AsyncCall
    \/ AsyncTake
    \/ \E reply \in Replies : AsyncReply(reply)
    \/ \E reply \in Replies : AsyncAcquired(reply)
    \/ PostEvent
    \/ ReceiveResult
    \/ ReceiveEvent
    \/ Retire

Spec == Init /\ [][Next]_vars

(* ------------------------------ properties ----------------------------- *)
\* Types; what is written into a buffer or a message are bytes.
TypeOK ==
    /\ alive \in BOOLEAN
    /\ sync.at \in {"idle", "bluez", "holding", "releasing", "returned", "freed"}
    /\ sync.status \in Statuses \cup {""}
    /\ sync.reply \in Replies \cup {None, Threw(Failed, <<>>)}
    /\ sync.fd \in Fds \cup {None} /\ sync.short \in BOOLEAN
    /\ out = None \/ ToSet(out) \subseteq Byte
    /\ heap \in 0..1
    /\ async.at \in {"idle", "queued", "bluez", "answered"}
    /\ async.reply \in Replies \cup {None, Threw(Failed, <<>>)}
    /\ async.fd \in Fds \cup {None}
    /\ message # <<>> => ToSet(Body) \subseteq Byte
    /\ fds \subseteq Fds

Succeeded == view.kind \in {"null", "value"}

\* Repeat and Shuffle only: BlueZ refused the value.  The blocking call says
\* UNSUPPORTED_SETTING, the queued one passes BlueZ's own error on, although
\* post_status has a name for that status: dispatch_async never makes it.
SettingRefused == sync.status = "UNSUPPORTED_SETTING"

\* The one error that the queued call may report where the blocking call
\* failed: nothing was asked of BlueZ; the blocking call only says that the
\* operation failed, and the queued one why; or they report the same status.
ErrorExpected ==
    CASE sync.reply = None -> InvalidArguments
      [] sync.reply # None /\ sync.status = "OPERATION_FAILED" -> sync.reply.name
      [] OTHER -> ErrorName(sync.status)

\* A request that BlueZ answers in the same way, or that neither call passes on
\* to BlueZ, is reported in the same way by the blocking and the queued call
\* (bluez_media_client.cpp, the entry points and dispatch_async): both succeed,
\* with the same value but for the descriptor, or both fail, the queued one
\* with the one error expected.  Exempt are a blocking call that ran out of
\* memory, a result whose client was closed before Dart could claim it, and,
\* as to the name of the error, a setting that BlueZ refused.
SameOutcome ==
    LET compared == /\ sync.at = "returned" /\ view # None
                    /\ sync.reply = async.reply
                    /\ ~sync.short /\ view.kind # "StateError"
    IN  compared =>
          /\ sync.status = "SUCCESS" <=> Succeeded
          /\ sync.status = "SUCCESS" /\ Buffered =>
                LET value == Decode(Struct[Op], out, 0).value
                IN  IF Op \in Acquires
                    THEN [value EXCEPT !.fd = 0] = [view.value EXCEPT !.fd = 0]
                    ELSE value = view.value
          /\ sync.status # "SUCCESS" =>
                /\ view.kind = "exception"
                /\ SettingRefused \/ view.value.name = ErrorExpected

\* Nothing is lost or owned twice.  The buffer of a blocking getter holds an
\* allocation exactly when the last call succeeded and it was not freed: a
\* caller that frees it once or twice, whatever the status, neither leaks nor
\* frees twice.  The open descriptors are those of a blocking acquire still
\* under way or successful, and of an answer that Dart has not refused: no
\* failure between BlueZ's reply and the caller leaves one open (write_payload,
\* bluez_media_transport_acquire, dispatch_async, _decodeAcquire).
NothingLost ==
    /\ heap = (IF out = None THEN 0 ELSE 1)
    /\ out # None <=> sync.at = "returned" /\ sync.status = "SUCCESS" /\ Buffered
    /\ fds = {sync.fd, async.fd} \ {None}

\* What Dart's future completes with is what BlueZ sent: the properties, each
\* in its place and in full, with the defaults for those that are missing or of
\* another type, or the error with its name, message and path; no message of
\* the library is ever too short for its decoder (glaze_meta.h,
\* bluez_media_types.h against codec.dart).
ViewIsReply ==
    view # None =>
        LET path == Text(request.path) IN
        /\ view.kind # "RangeError"
        /\ view.kind = "value" =>
              view.value = (IF IsEvent THEN Made(request, request.argument, path, None)
                            ELSE IF Op = "MPRIS_GET_COVER_ART" THEN request.content
                            ELSE Made(request, Struct[Op], path, async.fd))
        /\ ~IsEvent /\ async.reply # None /\ async.reply.kind = "error" =>
              /\ view.kind = "exception"
              /\ view.value = [objectPath |-> path, name |-> async.reply.name,
                               message |-> async.reply.text]
=============================================================================
