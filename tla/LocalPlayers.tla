---------------------------- MODULE LocalPlayers ----------------------------
(***************************************************************************)
(* Players this client registers with BlueZ: MediaClient's players_, the   *)
(* RegisterPlayer and UnregisterPlayer calls made under players_mutex_,    *)
(* and the invalidation that follows the loss of an adapter or of BlueZ.   *)
(* (native/src/media_client.cpp, native/src/local_player.cpp and their     *)
(* callers in native/src/bluez_media_client.cpp)                           *)
(*                                                                         *)
(* The worker of the operations queue takes requests and invalidations in  *)
(* order; a synchronous caller goes straight to players_mutex_.            *)
(***************************************************************************)
EXTENDS Naturals, Sequences

CONSTANTS
    Paths,        \* object paths of local players
    Adapters,
    All,          \* "", which invalidates the players of every adapter
    None,
    MaxRequests,  \* bound on register and unregister requests
    MaxLosses,    \* bound on lost adapters and BlueZ restarts
    MaxErrors     \* bound on calls that fail or are answered too late

Player == Adapters \X Paths
Request == [type : {"register", "unregister"}, adapter : Adapters, path : Paths]
Invalidation == [type : {"invalidate"}, adapter : Adapters \cup {All}]

ASSUME PlayersAssumption ==
    /\ All \notin Adapters /\ None \notin Adapters \cup Request
    /\ MaxRequests \in Nat /\ MaxLosses \in Nat /\ MaxErrors \in Nat

VARIABLES
    owner,        \* BlueZ runs
    adapters,     \* its adapters
    registered,   \* the players it has for this client
    events,       \* signals the event loop has not handled
    operations,   \* the operations queue
    busy,         \* what the holder of players_mutex_ asks of BlueZ
    players,      \* MediaClient::players_: the adapter of each player
    spent,        \* how much of each bound is used
    late          \* history: an answer came too late, or BlueZ kept a player
                  \* it was asked to unregister

bluez == <<owner, adapters, registered>>
vars == <<bluez, events, operations, busy, players, spent, late>>

TypeOK ==
    /\ owner \in BOOLEAN /\ late \in BOOLEAN
    /\ adapters \subseteq Adapters /\ (~owner => adapters = {})
    /\ registered \subseteq adapters \X Paths
    /\ events \in Seq(Adapters \cup {All})
    /\ operations \in Seq(Request \cup Invalidation)
    /\ busy \in Request \cup {None}
    /\ players \in [Paths -> Adapters \cup {None}]
    /\ spent \in [requests : 0..MaxRequests, losses : 0..MaxLosses,
                  errors : 0..MaxErrors]
    \* The constructor fills players_, the destructor runs after the erase.
    /\ busy # None => players[busy.path] = None

Init ==
    /\ owner = TRUE /\ adapters = Adapters /\ registered = {}
    /\ events = <<>> /\ operations = <<>>
    /\ busy = None
    /\ players = [p \in Paths |-> None]
    /\ spent = [requests |-> 0, losses |-> 0, errors |-> 0]
    /\ late = FALSE

Known == {<<players[p], p>> : p \in {q \in Paths : players[q] # None}}

----------------------------------------------------------------------------
(* Requests                                                                *)

Ask ==
    /\ spent.requests < MaxRequests
    /\ spent' = [spent EXCEPT !.requests = @ + 1]

\* bluez_media_register_player_async, or UNREGISTER_PLAYER in dispatch_async.
PostRequest(request) ==
    /\ Ask
    /\ operations' = Append(operations, request)
    /\ UNCHANGED <<bluez, events, busy, players, late>>

\* A path that is known may not be registered again, whatever its adapter.
Accepts(request) ==
    players[request.path] = IF request.type = "register" THEN None
                                                         ELSE request.adapter

\* Fault: an unregistered player is erased when BlueZ has answered.
Begin_ErasesLate(request) ==
    /\ busy = None
    /\ busy' = IF Accepts(request) THEN request ELSE None
    /\ UNCHANGED players

\* Under players_mutex_: a refused request ends here, an accepted one goes on
\* to BlueZ; an unregistered player is erased before BlueZ is asked.
Begin(request) ==
    /\ busy = None
    /\ IF Accepts(request)
       THEN /\ busy' = request
            /\ players' = [players EXCEPT ![request.path] = None]
       ELSE UNCHANGED <<busy, players>>

\* The worker runs the request at the head of the queue.
TakeRequest ==
    /\ operations # <<>> /\ Head(operations).type # "invalidate"
    /\ Begin(Head(operations))
    /\ operations' = Tail(operations)
    /\ UNCHANGED <<bluez, events, spent, late>>

\* bluez_media_register_player and bluez_media_unregister_player.
SyncRequest(request) ==
    /\ Ask
    /\ Begin(request)
    /\ UNCHANGED <<bluez, events, operations, late>>

\* Fault: the destructor does not tell BlueZ.
Answered_Abandoned(inserted) ==
    LET p == busy.path
        accepted == /\ busy.adapter \in adapters
                    /\ <<busy.adapter, p>> \notin registered
    IN IF busy.type = "register" /\ accepted
       THEN /\ registered' = registered \cup {<<busy.adapter, p>>}
            /\ players' = IF inserted
                          THEN [players EXCEPT ![p] = busy.adapter]
                          ELSE players
       ELSE UNCHANGED <<registered, players>>

\* BlueZ handles the call: it refuses a player it already has for this client
\* and an adapter it does not have; a refused player is not inserted.
Answered(inserted) ==
    LET p == busy.path
        accepted == /\ busy.adapter \in adapters
                    /\ <<busy.adapter, p>> \notin registered
    IN IF busy.type = "register"
       THEN IF accepted
            THEN /\ registered' = registered \cup {<<busy.adapter, p>>}
                 /\ players' = IF inserted
                               THEN [players EXCEPT ![p] = busy.adapter]
                               ELSE players
            ELSE UNCHANGED <<registered, players>>
       ELSE /\ registered' = registered \ {<<busy.adapter, p>>}
            /\ UNCHANGED players

Answer ==
    /\ busy # None
    /\ Answered(TRUE)
    /\ busy' = None
    /\ UNCHANGED <<owner, adapters, events, operations, spent, late>>

\* The call times out here but succeeds there: the constructor throws.
AnswerLate ==
    /\ busy # None /\ busy.type = "register" /\ spent.errors < MaxErrors
    /\ spent' = [spent EXCEPT !.errors = @ + 1]
    /\ Answered(FALSE)
    /\ busy' = None
    /\ late' = TRUE
    /\ UNCHANGED <<owner, adapters, events, operations>>

\* BlueZ refuses the call for a reason of its own, or never handles it: the
\* constructor throws, but the destructor only logs it and the player is gone
\* from players_ all the same.
CallFails ==
    /\ busy # None /\ spent.errors < MaxErrors
    /\ spent' = [spent EXCEPT !.errors = @ + 1]
    /\ busy' = None
    /\ late' = (late \/ busy.type = "unregister")
    /\ UNCHANGED <<bluez, events, operations, players>>

\* The BlueZ that got the call stopped before it answered.
CallLost ==
    /\ busy # None /\ spent.losses > 0
    /\ busy' = None
    /\ UNCHANGED <<bluez, events, operations, players, spent, late>>

----------------------------------------------------------------------------
(* Invalidation                                                            *)

\* The removed callback, on the event loop: an adapter's Media1 has gone, or
\* the owner changed ("").
HandleLoss ==
    /\ events # <<>>
    /\ events' = Tail(events)
    /\ operations' = Append(operations, [type |-> "invalidate",
                                         adapter |-> Head(events)])
    /\ UNCHANGED <<bluez, busy, players, spent, late>>

\* Fault: only the owner's loss is acted on.
Invalidate_AllOnly ==
    LET a == Head(operations).adapter IN
    /\ operations # <<>> /\ Head(operations).type = "invalidate"
    /\ busy = None
    /\ players' = [p \in Paths |-> IF a = All THEN None ELSE players[p]]
    /\ operations' = Tail(operations)
    /\ UNCHANGED <<bluez, events, busy, spent, late>>

\* invalidate_registrations, on the worker: the players are abandoned, BlueZ
\* is not told.
Invalidate ==
    LET a == Head(operations).adapter IN
    /\ operations # <<>> /\ Head(operations).type = "invalidate"
    /\ busy = None
    /\ players' = [p \in Paths |-> IF a \in {All, players[p]}
                                   THEN None ELSE players[p]]
    /\ operations' = Tail(operations)
    /\ UNCHANGED <<bluez, events, busy, spent, late>>

----------------------------------------------------------------------------
(* BlueZ                                                                   *)

Lose(lost, event) ==
    /\ spent.losses < MaxLosses
    /\ spent' = [spent EXCEPT !.losses = @ + 1]
    /\ adapters' = adapters \ lost
    /\ registered' = {r \in registered : r[1] \notin lost}
    /\ events' = Append(events, event)

RemoveAdapter(a) ==
    /\ a \in adapters
    /\ Lose({a}, a)
    /\ UNCHANGED <<owner, operations, busy, players, late>>

AddAdapter(a) ==
    /\ owner /\ a \notin adapters
    /\ adapters' = adapters \cup {a}
    /\ UNCHANGED <<owner, registered, events, operations, busy, players, spent,
                   late>>

StopBluez ==
    /\ owner /\ owner' = FALSE
    /\ Lose(adapters, All)
    /\ UNCHANGED <<operations, busy, players, late>>

StartBluez ==
    /\ ~owner /\ owner' = TRUE
    /\ adapters' = Adapters
    /\ events' = Append(events, All)
    /\ UNCHANGED <<registered, operations, busy, players, spent, late>>

Next ==
    \/ \E request \in Request : PostRequest(request) \/ SyncRequest(request)
    \/ TakeRequest \/ Answer \/ AnswerLate \/ CallFails \/ CallLost
    \/ HandleLoss \/ Invalidate
    \/ \E a \in Adapters : RemoveAdapter(a) \/ AddAdapter(a)
    \/ StopBluez \/ StartBluez

Spec == Init /\ [][Next]_vars

----------------------------------------------------------------------------
(* Properties                                                              *)

Quiet == events = <<>> /\ operations = <<>> /\ busy = None

\* No registration outlives its BlueZ or its adapter: when every loss has been
\* handled, BlueZ has each player that players_ has, whatever request ran
\* before, between or after the losses.
KnownIsRegistered == Quiet => Known \subseteq registered

\* "Local registrations are invalidated on owner/adapter loss. Register them
\* again": a player that is not in players_ can be registered, because BlueZ
\* does not have it either (unless an answer was late or an unregistration
\* failed).
UnknownIsFree == Quiet /\ ~late => registered \subseteq Known

\* While nothing is lost, no answer is late and no unregistration fails, BlueZ
\* and players_ agree as soon as players_mutex_ is free.
AgreeWhenStable ==
    busy = None /\ spent.losses = 0 /\ ~late => registered = Known

=============================================================================
