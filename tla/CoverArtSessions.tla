-------------------------- MODULE CoverArtSessions --------------------------
(***************************************************************************)
(* The OBEX sessions that serve cover art: CoverArtService's players_ and  *)
(* sessions_, the tasks that reach it from the object manager, obexd, and  *)
(* the transfers.  (native/src/cover_art_service.cpp and the callbacks of  *)
(* create_context in native/src/bluez_media_client.cpp)                    *)
(*                                                                         *)
(* Three threads meet at mutex_: the worker of cover_operations, the       *)
(* session bus's event loop, and a thread that fetches an image (there is  *)
(* one at a time, transfer_mutex_ is held throughout; a fetch that runs on *)
(* the worker is one during which the worker takes no task).               *)
(***************************************************************************)
EXTENDS Naturals, SequencesExt

CONSTANTS
    Players,      \* object paths of players
    Devices,      \* device addresses
    Adapters,
    AdapterOf,    \* the adapter of each device
    ObexPorts,    \* values of ObexPort, not 0
    Paths,        \* object paths of OBEX sessions
    None,
    Layouts       \* the situations BlueZ may present, with their bounds

\* A session of obexd: whether this client asked for it, so that it may ask for
\* its removal, and whether it came after the client had given up waiting.
Live == [device : Devices, port : ObexPorts, ours : BOOLEAN, late : BOOLEAN]
Session == [path : Paths, port : ObexPorts, users : Nat, owned : BOOLEAN]

ASSUME CoverArtAssumption ==
    /\ IsFiniteSet(Players) /\ IsFiniteSet(Devices)
    /\ AdapterOf \in [Devices -> Adapters]
    /\ ObexPorts \subseteq Nat \ {0} /\ None \notin Players \cup Nat \cup Session \cup Live
    /\ {"started", "stopped"} \cap Paths = {}
    /\ Layouts # {}
    /\ \A l \in Layouts : /\ l.device \in [Players -> Devices]
                         /\ l.obexPorts \subseteq ObexPorts
                         /\ {l.adds, l.ports, l.starts, l.drops, l.errors,
                             l.gets} \subseteq Nat

VARIABLES
    layout,      \* the situation, chosen at the start
    obexd,       \* obexd owns its name
    live,        \* its sessions
    used,        \* paths this obexd has given to sessions
    deaf,        \* sessions it does not remove when asked, or not in time
    pending,     \* CreateSession calls that timed out here and that it still has
    signals,     \* signals the session bus's event loop has not handled
    port,        \* ObexPort of BlueZ's players, 0 before it is known
    operations,  \* removals on the client's operations queue
    tasks,       \* the cover_operations queue
    todo,        \* the registrations left in the task the worker executes
    players,     \* players_: the obex_port stored, 0 for an unknown player
    sessions,    \* sessions_
    get,         \* the fetch under way
    spent,       \* how much of each bound is used
    failed       \* history: some registration failed

service == <<players, sessions>>
strays == <<deaf, pending>>
obex == <<obexd, live, used, signals, strays>>
bluez == <<layout, port, operations>>
vars == <<obex, bluez, tasks, todo, service, get, spent, failed>>

\* The device of each player, which has its address, and the bounds: additions
\* of one player, changes of a player's properties, obexd processes, sessions
\* obexd closes itself, errors of a living obexd or BlueZ, fetches.
DeviceOf  == layout.device
MaxAdds   == layout.adds
MaxPorts  == layout.ports
MaxStarts == layout.starts
MaxDrops  == layout.drops
MaxErrors == layout.errors
MaxGets   == layout.gets

Budget == [adds |-> [p \in Players |-> MaxAdds], ports |-> MaxPorts,
           starts |-> MaxStarts, drops |-> MaxDrops, errors |-> MaxErrors,
           gets |-> MaxGets]

Registration == Players \X (ObexPorts \cup {0})
Of(d) == {p \in Players : players[p] # 0 /\ DeviceOf[p] = d}

Signal == {"started", "stopped"} \cup Paths
Task == [type : {"register"}, player : Players, port : ObexPorts \cup {0}]
          \cup [type : {"unregister"}, player : Players]
          \cup [type : {"reconnect", "reset"}]
Get == [player : Players, port : ObexPorts, attempt : 1..2,
        at : {"register", "look", "transfer"}, path : Paths \cup {None}]
Request == [device : Devices, port : ObexPorts]
Spent == [adds : [Players -> Nat], ports : Nat, starts : Nat, drops : Nat,
          errors : Nat, gets : Nat]

TypeOK ==
    /\ layout \in Layouts
    /\ obexd \in BOOLEAN /\ failed \in BOOLEAN
    /\ live \in [Paths -> Live \cup {None}]
    /\ {s \in Paths : live[s] # None} \subseteq used /\ used \subseteq Paths
    /\ deaf \subseteq Paths /\ pending \subseteq Request
    /\ signals \in Seq(Signal)
    /\ port \in [Players -> ObexPorts \cup {0, None}]
    /\ operations \in Seq(Players \cup {"reset"})
    /\ tasks \in Seq(Task)
    /\ todo \subseteq Registration
    /\ players \in [Players -> ObexPorts \cup {0}]
    /\ sessions \in [Devices -> Session \cup {None}]
    /\ get \in Get \cup {None}
    /\ spent \in Spent

\* BlueZ's first snapshot has been posted; another client may have a session.
Init ==
    /\ layout \in Layouts
    /\ obexd = TRUE
    /\ \E s \in Paths,
          theirs \in [device : {DeviceOf[p] : p \in Players},
                     port : layout.obexPorts, ours : {FALSE}, late : {FALSE}] \cup {None} :
         /\ live = [x \in Paths |-> IF x = s THEN theirs ELSE None]
         /\ used = {x \in Paths : live[x] # None}
    /\ deaf = {} /\ pending = {} /\ signals = <<>>
    /\ port = [p \in Players |-> None] /\ operations = <<>>
    /\ tasks = <<>> /\ todo = {}
    /\ players = [p \in Players |-> 0]
    /\ sessions = [d \in Devices |-> None]
    /\ get = None
    /\ spent = [Budget EXCEPT !.starts = 1, !.drops = 0, !.errors = 0,
                              !.gets = 0, !.ports = 0,
                              !.adds = [p \in Players |-> 0]]
    /\ failed = FALSE

----------------------------------------------------------------------------
(* Critical sections of mutex_, as functions of a record s of the state.   *)

State == [players |-> players, sessions |-> sessions, live |-> live,
          signals |-> signals]

Become(s) ==
    /\ players' = s.players /\ sessions' = s.sessions
    /\ live' = s.live /\ signals' = s.signals

\* remove_session: obexd closes the session if it is ours and says so; a call
\* that fails or takes too long is one that nobody hears of.
RemoveSession(s, path) ==
    IF s.live[path] = None \/ ~s.live[path].ours \/ path \in deaf THEN s
    ELSE [s EXCEPT !.live[path] = None, !.signals = Append(@, path)]

\* Ends the record of a device's session, and the session if it is owned.
Close(s, d) ==
    LET session == s.sessions[d]
        forgotten == [s EXCEPT !.sessions[d] = None]
    IN IF session.owned THEN RemoveSession(forgotten, session.path) ELSE forgotten

\* Fault: the session stays when its last user goes.
Unregistered_Keeps(s, p) ==
    LET d == DeviceOf[p]
        left == [s EXCEPT !.players[p] = 0]
    IN IF s.players[p] = 0 \/ s.sessions[d] = None THEN left
       ELSE [left EXCEPT !.sessions[d].users = @ - 1]

\* Fault: the user is not subtracted while others remain.
Unregistered_Uncounted(s, p) ==
    LET d == DeviceOf[p]
        left == [s EXCEPT !.players[p] = 0]
        others == {q \in Players \ {p} : s.players[q] # 0 /\ DeviceOf[q] = d}
    IN IF s.players[p] = 0 THEN s
       ELSE IF s.sessions[d] = None \/ others # {} THEN left
       ELSE Close(left, d)

\* unregister_player_locked.
Unregistered(s, p) ==
    LET d == DeviceOf[p]
        left == [s EXCEPT !.players[p] = 0]
    IN IF s.players[p] = 0 THEN s
       ELSE IF s.sessions[d] = None THEN left
       ELSE IF s.sessions[d].users > 1
            THEN [left EXCEPT !.sessions[d].users = @ - 1]
            ELSE Close(left, d)

\* The checks that let register_player return at once.
Served(p, n) ==
    /\ players[p] # 0
    /\ sessions[DeviceOf[p]] # None
    /\ sessions[DeviceOf[p]].port = n

\* Fault: only the recorded session is looked up.
Matching_Recorded(s, d, n) ==
    {x \in Paths : /\ s.live[x] # None /\ s.live[x].device = d
                   /\ s.live[x].port = n
                   /\ \/ s.sessions[d] # None /\ s.sessions[d].path = x
                      \/ ~s.live[x].ours}

\* find_session: the sessions to this address with this PSM.
Matching(s, d, n) ==
    {x \in Paths : s.live[x] # None /\ s.live[x].device = d /\ s.live[x].port = n}

\* The session create_session makes.
Fresh(d, n) == [device |-> d, port |-> n, ours |-> TRUE, late |-> FALSE]

\* Fault: a session that is replaced is not closed.
Registered_KeepsOld(s, p, n, path) ==
    LET d == DeviceOf[p]
        u == Unregistered(s, p)
        old == u.sessions[d]
        owned == Matching(u, d, n) = {}
        made == IF owned THEN [u EXCEPT !.live[path] = Fresh(d, n)] ELSE u
        new == [path |-> path, port |-> n, owned |-> owned,
                users |-> IF old = None THEN 1 ELSE old.users + 1]
        opened == IF old # None /\ old.port = n
                  THEN [u EXCEPT !.sessions[d].users = @ + 1]
                  ELSE [made EXCEPT !.sessions[d] = new]
    IN [opened EXCEPT !.players[p] = n]

\* register_player past its checks, with the session at `path`: found, or
\* created.  An old session of another port is replaced and keeps its users.
Registered(s, p, n, path) ==
    LET d == DeviceOf[p]
        u == Unregistered(s, p)
        old == u.sessions[d]
        owned == Matching(u, d, n) = {}
        made == IF owned THEN [u EXCEPT !.live[path] = Fresh(d, n)] ELSE u
        new == [path |-> path, port |-> n, owned |-> owned,
                users |-> IF old = None THEN 1 ELSE old.users + 1]
        opened == IF old # None /\ old.port = n
                  THEN [u EXCEPT !.sessions[d].users = @ + 1]
                  ELSE [(IF old = None THEN made ELSE Close(made, d))
                          EXCEPT !.sessions[d] = new]
    IN [opened EXCEPT !.players[p] = n]

\* The paths find_session may return, or those obexd may give a new session.
Candidates(p, n) ==
    LET found == Matching(Unregistered(State, p), DeviceOf[p], n)
    IN IF found # {} THEN found ELSE Paths \ used

\* register_player returns: the two checks are the same, so one is enough.
RegisterReturns(p, n) ==
    \/ /\ n = 0
       /\ Become(Unregistered(State, p)) /\ UNCHANGED used
    \/ /\ n # 0 /\ Served(p, n)
       /\ UNCHANGED <<service, live, signals, used>>
    \/ /\ n # 0 /\ ~Served(p, n) /\ obexd
       /\ \E path \in Candidates(p, n) :
            /\ Become(Registered(State, p, n, path))
            /\ used' = used \cup {x \in {path} : live'[x] # None}

\* register_player throws: the device's Address cannot be read (nothing has
\* changed), or find_session or create_session fails (the player is gone); a
\* create_session that has only timed out here obexd may still execute.  An
\* empty Address ends the same way, without the exception.
RegisterThrows(p, n) ==
    LET d == DeviceOf[p]
        u == Unregistered(State, p)
    IN /\ n # 0 /\ ~Served(p, n)
       /\ \/ Become(State) /\ UNCHANGED pending
          \/ Become(u) /\ UNCHANGED pending
          \/ /\ obexd /\ Matching(u, d, n) = {}
             /\ Become(u)
             /\ pending' = pending \cup {[device |-> d, port |-> n]}
       /\ IF obexd
          THEN /\ spent.errors < MaxErrors
               /\ spent' = [spent EXCEPT !.errors = @ + 1]
               /\ failed' = TRUE
          ELSE UNCHANGED <<spent, failed>>
       /\ UNCHANGED used

----------------------------------------------------------------------------
(* The worker of cover_operations                                          *)

TakeTask(type) ==
    /\ todo = {} /\ tasks # <<>> /\ Head(tasks).type = type
    /\ tasks' = Tail(tasks)

\* A registration, or reconnect_players, which registers a copy of players_.
TakeRegister ==
    /\ TakeTask("register")
    /\ todo' = {<<Head(tasks).player, Head(tasks).port>>}
    /\ UNCHANGED <<obex, bluez, service, get, spent, failed>>

TakeReconnect ==
    /\ TakeTask("reconnect")
    /\ todo' = {<<p, players[p]>> : p \in {q \in Players : players[q] # 0}}
    /\ UNCHANGED <<obex, bluez, service, get, spent, failed>>

TakeUnregister ==
    /\ TakeTask("unregister")
    /\ Become(Unregistered(State, Head(tasks).player))
    /\ UNCHANGED <<obexd, used, strays, bluez, todo, get, spent, failed>>

\* reset waits for the fetch under way, and closes the sessions in any order.
TakeReset ==
    LET recorded == {sessions[d] : d \in {e \in Devices : sessions[e] # None}}
        closed == {s \in Paths : /\ live[s] # None /\ live[s].ours /\ s \notin deaf
                                 /\ \E r \in recorded : r.owned /\ r.path = s}
    IN /\ get = None
       /\ TakeTask("reset")
       /\ players' = [p \in Players |-> 0]
       /\ sessions' = [d \in Devices |-> None]
       /\ live' = [s \in Paths |-> IF s \in closed THEN None ELSE live[s]]
       /\ \E order \in SetToSeqs(closed) : signals' = signals \o order
       /\ UNCHANGED <<obexd, used, strays, bluez, todo, get, spent, failed>>

\* A failed registration does not stop reconnect_players.
Register(p, n) ==
    /\ <<p, n>> \in todo
    /\ todo' = todo \ {<<p, n>>}
    /\ \/ RegisterReturns(p, n) /\ UNCHANGED <<pending, spent, failed>>
       \/ RegisterThrows(p, n)
    /\ UNCHANGED <<obexd, deaf, bluez, tasks, get>>

\* The removed callback's work on the operations queue posts its cover task.
Forward ==
    /\ operations # <<>>
    /\ operations' = Tail(operations)
    /\ tasks' = Append(tasks, IF Head(operations) = "reset"
                              THEN [type |-> "reset"]
                              ELSE [type |-> "unregister",
                                    player |-> Head(operations)])
    /\ UNCHANGED <<layout, obex, port, todo, service, get, spent, failed>>

----------------------------------------------------------------------------
(* The session bus's event loop                                            *)

NextSignal(S) == signals # <<>> /\ Head(signals) \in S /\ signals' = Tail(signals)

\* obexd came or went: nothing it served is left.
HandleObexOwner ==
    /\ NextSignal({"started", "stopped"})
    /\ sessions' = [d \in Devices |-> None]
    /\ tasks' = IF Head(signals) = "started"
                THEN Append(tasks, [type |-> "reconnect"]) ELSE tasks
    /\ UNCHANGED <<obexd, live, used, strays, bluez, todo, players, get, spent,
                   failed>>

\* Fault: the loss of a session does not reconnect its players.
HandleSessionRemoved_Silent ==
    LET D == {d \in Devices : sessions[d] # None
                              /\ sessions[d].path = Head(signals)}
    IN /\ NextSignal(Paths)
       /\ sessions' = [d \in Devices |-> IF d \in D THEN None ELSE sessions[d]]
       /\ UNCHANGED <<obexd, live, used, strays, bluez, tasks, todo, players, get,
                      spent, failed>>

HandleSessionRemoved ==
    LET D == {d \in Devices : sessions[d] # None
                              /\ sessions[d].path = Head(signals)}
    IN /\ NextSignal(Paths)
       /\ IF D = {} THEN UNCHANGED <<sessions, tasks>>
          ELSE /\ \E d \in D : sessions' = [sessions EXCEPT ![d] = None]
               /\ tasks' = Append(tasks, [type |-> "reconnect"])
       /\ UNCHANGED <<obexd, live, used, strays, bluez, todo, players, get, spent,
                   failed>>

----------------------------------------------------------------------------
(* A fetch: get_impl, not from an existing session                         *)

\* The source's device and port are read before the first attempt.
StartGet(p) ==
    /\ get = None /\ port[p] \in ObexPorts /\ spent.gets < MaxGets
    /\ spent' = [spent EXCEPT !.gets = @ + 1]
    /\ get' = [player |-> p, port |-> port[p], attempt |-> 1,
                at |-> "register", path |-> None]
    /\ UNCHANGED <<obex, bluez, tasks, todo, service, failed>>

GetRegister ==
    /\ get # None /\ get.at = "register"
    /\ \/ /\ RegisterReturns(get.player, get.port)
          /\ get' = [get EXCEPT !.at = "look"]
          /\ UNCHANGED <<pending, spent, failed>>
       \/ RegisterThrows(get.player, get.port) /\ get' = None
    /\ UNCHANGED <<obexd, deaf, bluez, tasks, todo>>

\* The player and the session are looked up again, and may be gone.
GetLooks ==
    LET session == sessions[DeviceOf[get.player]] IN
    /\ get # None /\ get.at = "look"
    /\ get' = IF players[get.player] = 0 \/ session = None THEN None
              ELSE [get EXCEPT !.at = "transfer", !.path = session.path]
    /\ UNCHANGED <<obex, bluez, tasks, todo, service, spent, failed>>

\* The image arrives, or there is none.
GetEnds ==
    /\ get # None /\ get.at = "transfer"
    /\ get' = None
    /\ UNCHANGED <<obex, bluez, tasks, todo, service, spent, failed>>

\* The transfer fails, as it must when the session has gone.
\* invalidate_player_session forgets every player of the device and its
\* session, if this player is still known, before the next attempt, which
\* registers this player only.
GetFails ==
    LET p == get.player
        d == DeviceOf[p]
        none == [State EXCEPT !.players = [q \in Players |->
                                 IF DeviceOf[q] = d THEN 0 ELSE players[q]]]
    IN /\ get # None /\ get.at = "transfer"
       /\ IF live[get.path] = None THEN UNCHANGED spent
          ELSE /\ spent.errors < MaxErrors
               /\ spent' = [spent EXCEPT !.errors = @ + 1]
       /\ Become(IF players[p] = 0 THEN State
                 ELSE IF sessions[d] = None THEN none ELSE Close(none, d))
       /\ get' = IF get.attempt = 2 THEN None
                 ELSE [get EXCEPT !.attempt = 2, !.at = "register"]
       /\ UNCHANGED <<obexd, used, strays, bluez, tasks, todo, failed>>

----------------------------------------------------------------------------
(* obexd and BlueZ                                                         *)

StartObexd ==
    /\ ~obexd /\ spent.starts < MaxStarts
    /\ spent' = [spent EXCEPT !.starts = @ + 1]
    /\ obexd' = TRUE
    /\ signals' = Append(signals, "started")
    /\ UNCHANGED <<live, used, strays, bluez, tasks, todo, service, get, failed>>

\* The sessions of an obexd that stops end without a signal of their own.
StopObexd ==
    /\ obexd /\ spent.starts < MaxStarts
    /\ obexd' = FALSE
    /\ live' = [s \in Paths |-> None] /\ used' = {}
    /\ deaf' = {} /\ pending' = {}
    /\ signals' = Append(signals, "stopped")
    /\ UNCHANGED <<bluez, tasks, todo, service, get, spent, failed>>

\* obexd closes a session, for instance because the device dropped it; or it
\* removes one at last that it was asked to.
DropSession(s) ==
    /\ live[s] # None
    /\ IF s \in deaf THEN UNCHANGED spent
       ELSE /\ spent.drops < MaxDrops
            /\ spent' = [spent EXCEPT !.drops = @ + 1]
    /\ live' = [live EXCEPT ![s] = None]
    /\ signals' = Append(signals, s)
    /\ UNCHANGED <<obexd, used, strays, bluez, tasks, todo, service, get, failed>>

\* From now on a call that removes the session fails, or times out.
Refuse(s) ==
    /\ live[s] # None /\ live[s].ours /\ s \notin deaf
    /\ spent.errors < MaxErrors
    /\ spent' = [spent EXCEPT !.errors = @ + 1]
    /\ deaf' = deaf \cup {s}
    /\ UNCHANGED <<obexd, live, used, signals, pending, bluez, tasks, todo, service,
                   get, failed>>

\* obexd makes the session of a call whose caller has gone.
LateSession(s) ==
    /\ obexd /\ s \notin used
    /\ \E r \in pending :
         /\ pending' = pending \ {r}
         /\ live' = [live EXCEPT ![s] = [device |-> r.device, port |-> r.port,
                                        ours |-> TRUE, late |-> TRUE]]
    /\ used' = used \cup {s}
    /\ UNCHANGED <<obexd, signals, deaf, bluez, tasks, todo, service, get, spent,
                   failed>>

PostRegister(p, n) ==
    tasks' = Append(tasks, [type |-> "register", player |-> p, port |-> n])

AddPlayer(p, n) ==
    /\ port[p] = None /\ spent.adds[p] < MaxAdds
    /\ spent' = [spent EXCEPT !.adds[p] = @ + 1]
    /\ port' = [port EXCEPT ![p] = n]
    /\ PostRegister(p, n)
    /\ UNCHANGED <<layout, obex, operations, todo, service, get, failed>>

\* Any property of the player changes, its ObexPort perhaps.
ChangePlayer(p, n) ==
    /\ port[p] # None /\ spent.ports < MaxPorts
    /\ spent' = [spent EXCEPT !.ports = @ + 1]
    /\ port' = [port EXCEPT ![p] = n]
    /\ PostRegister(p, n)
    /\ UNCHANGED <<layout, obex, operations, todo, service, get, failed>>

RemovePlayer(p) ==
    /\ port[p] # None
    /\ port' = [port EXCEPT ![p] = None]
    /\ operations' = Append(operations, p)
    /\ UNCHANGED <<layout, obex, tasks, todo, service, get, spent, failed>>

\* An adapter without players goes; its Media1 was exported once.
RemoveAdapter(a) ==
    /\ \E p \in Players : AdapterOf[DeviceOf[p]] = a /\ spent.adds[p] > 0
    /\ \A p \in Players : AdapterOf[DeviceOf[p]] = a =>
         port[p] = None /\ spent.adds[p] < MaxAdds + 1
    /\ spent' = [spent EXCEPT !.adds = [p \in Players |->
                    IF AdapterOf[DeviceOf[p]] = a THEN MaxAdds + 1 ELSE @[p]]]
    /\ operations' = Append(operations, "reset")
    /\ UNCHANGED <<layout, obex, port, tasks, todo, service, get, failed>>

Next ==
    \/ TakeRegister \/ TakeReconnect \/ TakeUnregister \/ TakeReset
    \/ \E r \in todo : Register(r[1], r[2])
    \/ Forward
    \/ HandleObexOwner \/ HandleSessionRemoved
    \/ GetRegister \/ GetLooks \/ GetEnds \/ GetFails
    \/ StartObexd \/ StopObexd
    \/ \E s \in Paths : DropSession(s) \/ Refuse(s) \/ LateSession(s)
    \/ \E p \in Players : StartGet(p) \/ RemovePlayer(p)
    \/ \E p \in Players, n \in layout.obexPorts \cup {0} :
         AddPlayer(p, n) \/ ChangePlayer(p, n)
    \/ \E a \in Adapters : RemoveAdapter(a)

Spec == Init /\ [][Next]_vars

----------------------------------------------------------------------------
(* Properties                                                              *)

Idle == signals = <<>> /\ operations = <<>> /\ tasks = <<>> /\ todo = {}
        /\ get = None

\* A recorded session is used by at least one player and never by more than
\* the registered players of its device: the unsigned count cannot wrap, and
\* no session outlives its last player (unregister_player_locked).
UsersBounded ==
    \A d \in Devices : sessions[d] # None =>
      /\ sessions[d].users >= 1
      /\ sessions[d].users <= Cardinality(Of(d))

\* When nothing is under way, a registered player that shares its device with no
\* other has a session of this obexd, over restarts of obexd, sessions it drops
\* and changes of the player (register_player, reconnect_players).
SoleIsServed ==
    Idle /\ obexd /\ ~failed =>
      \A p \in Players : players[p] # 0 /\ (\A q \in Players \ {p} :
                                                DeviceOf[q] # DeviceOf[p]) =>
        LET session == sessions[DeviceOf[p]] IN
        session # None /\ live[session.path] # None

\* A session of obexd to this device.
Reached(d) == \E s \in Paths : live[s] # None /\ live[s].device = d

\* "Maintained one OBEX BIP cover-art session per device while media clients
\* are active, including recovery after obexd restarts": when nothing is under
\* way, obexd has a session, of whatever client, to the device of every
\* registered player.
RegisteredIsServed ==
    Idle /\ obexd /\ ~failed =>
      \A p \in Players : players[p] # 0 => Reached(DeviceOf[p])

\* The same promise, for every player that BlueZ shows.
PresentIsServed ==
    Idle /\ obexd /\ ~failed =>
      \A p \in Players : port[p] \in ObexPorts => Reached(DeviceOf[p])

\* Until obexd is started again, every session this client was told it has made
\* is recorded, and recorded as owned, so that the last player's removal, a
\* reset or a replacement closes it.  Not one that obexd makes after
\* create_session has timed out, nor one that it does not remove when
\* remove_session asks, which swallows the failure: these stay behind.
OwnSessionsRecorded ==
    \A s \in Paths : spent.starts = 1 /\ live[s] # None /\ live[s].ours
                     /\ ~live[s].late /\ s \notin deaf =>
      \E d \in Devices : sessions[d] # None /\ sessions[d].path = s
                         /\ sessions[d].owned

\* There are never two sessions to one device and port, though a restart makes
\* the client forget the session it made and register its players once more:
\* find_session asks obexd and not sessions_.  Only a session that came after
\* create_session had timed out may be a second one.
NoSecondSession ==
    \A s, t \in Paths :
      s # t /\ live[s] # None /\ live[t] # None /\ ~live[s].late /\ ~live[t].late =>
        live[s].device # live[t].device \/ live[s].port # live[t].port

=============================================================================
