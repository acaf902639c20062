----------------------------- MODULE MediaProxy -----------------------------
(***************************************************************************)
(* The Dart side: the proxies a BluezMediaClient keeps, the events that    *)
(* create, update and remove them, and the asynchronous fetches that       *)
(* update them as well.  (lib/src/bluez_media_client.dart and the proxies  *)
(* beside it; folder, item, player, control and transport proxies treat    *)
(* their properties alike)                                                 *)
(*                                                                         *)
(* An isolate runs one callback at a time.  The native event loop posts    *)
(* events in BlueZ's order, the native worker answers fetches in the order *)
(* they were made, and the two threads are not ordered with each other.    *)
(* A version is the number of the change that gave an object its           *)
(* properties; 0 is an absent object or a proxy that has no properties.    *)
(***************************************************************************)
EXTENDS Naturals, Sequences

CONSTANTS
    Objects,     \* object paths
    Folders,     \* those whose contents can be listed or searched
    MaxChanges,  \* bound on BlueZ's changes
    MaxFetches,  \* bound on refreshes
    MaxLists,    \* bound on listings and searches
    MaxGets      \* bound on proxies asked for by path

ASSUME ProxyAssumption ==
    /\ Folders \subseteq Objects
    /\ {MaxChanges, MaxFetches, MaxLists, MaxGets} \subseteq Nat

VARIABLES
    version,    \* BlueZ: the version of each object
    changes,    \* BlueZ: changes so far
    events,     \* events posted to the isolate's events port
    asked,      \* fetches on their way to BlueZ
    replies,    \* fetches answered, on their way to the isolate
    proxy,      \* the proxy of each path in the client's maps, 0 for none
    made,       \* proxies made so far for each path
    props,      \* the version in _props of the proxy in the map
    revision,   \* its _revision
    announced,  \* objects whose last stream event was Added
    wanted,     \* objects whose proxy was asked for by path or listed
    spent,      \* how much of each bound is used
    closed      \* _closed

bluez == <<version, changes>>
maps == <<proxy, made, props, revision, announced, wanted>>
vars == <<bluez, events, asked, replies, maps, spent, closed>>

Present == {o \in Objects : version[o] # 0}

Event == [object : Objects, version : Nat]
Fetch == [type : {"refresh", "list"}, object : Objects, proxy : Nat \ {0},
          revision : Nat]
Reply == [fetch : Fetch, seen : [Objects -> Nat], found : SUBSET Objects]

TypeOK ==
    /\ changes \in 0..MaxChanges /\ version \in [Objects -> Nat]
    /\ events \in Seq(Event) /\ asked \in Seq(Fetch) /\ replies \in Seq(Reply)
    /\ proxy \in [Objects -> Nat] /\ made \in [Objects -> Nat]
    /\ props \in [Objects -> Nat] /\ revision \in [Objects -> Nat]
    /\ \A o \in Objects : proxy[o] \in {0, made[o]} /\ (proxy[o] = 0 => props[o] = 0)
    /\ announced \subseteq {o \in Objects : proxy[o] # 0}
    /\ wanted \subseteq Objects
    /\ spent \in [fetches : 0..MaxFetches, lists : 0..MaxLists, gets : 0..MaxGets]
    /\ closed \in BOOLEAN

Init ==
    /\ version = [o \in Objects |-> 0] /\ changes = 0
    /\ events = <<>> /\ asked = <<>> /\ replies = <<>>
    /\ proxy = [o \in Objects |-> 0] /\ made = [o \in Objects |-> 0]
    /\ props = [o \in Objects |-> 0] /\ revision = [o \in Objects |-> 0]
    /\ announced = {} /\ wanted = {}
    /\ spent = [fetches |-> 0, lists |-> 0, gets |-> 0]
    /\ closed = FALSE

----------------------------------------------------------------------------
(* Proxies                                                                 *)

\* putIfAbsent in the client's maps for the objects of S.
Made(S) ==
    LET new == {o \in S : proxy[o] = 0} IN
    /\ made' = [o \in Objects |-> IF o \in new THEN made[o] + 1 ELSE made[o]]
    /\ proxy' = [o \in Objects |-> IF o \in new THEN made'[o] ELSE proxy[o]]

\* Fault: an update does not count as a revision.
Updated_SameRevision(S, v) ==
    /\ Made(S)
    /\ props' = [o \in Objects |-> IF o \in S THEN v[o] ELSE props[o]]
    /\ revision' = [o \in Objects |->
                      IF o \in S /\ proxy[o] = 0 THEN 0 ELSE revision[o]]

\* updateProps of the proxies of S, which are made when they are missing.
Updated(S, v) ==
    /\ Made(S)
    /\ props' = [o \in Objects |-> IF o \in S THEN v[o] ELSE props[o]]
    /\ revision' = [o \in Objects |->
                      IF o \notin S THEN revision[o]
                      ELSE IF proxy[o] = 0 THEN 1 ELSE revision[o] + 1]

\* Fault: the Removed streams are not told.
Disposed_Untold(S) ==
    /\ proxy' = [o \in Objects |-> IF o \in S THEN 0 ELSE proxy[o]]
    /\ props' = [o \in Objects |-> IF o \in S THEN 0 ELSE props[o]]
    /\ revision' = [o \in Objects |-> IF o \in S THEN 0 ELSE revision[o]]
    /\ UNCHANGED <<made, announced, wanted>>

\* The proxies of S leave the maps and are disposed: they answer StateError.
Disposed(S) ==
    /\ proxy' = [o \in Objects |-> IF o \in S THEN 0 ELSE proxy[o]]
    /\ props' = [o \in Objects |-> IF o \in S THEN 0 ELSE props[o]]
    /\ revision' = [o \in Objects |-> IF o \in S THEN 0 ELSE revision[o]]
    /\ announced' = announced \ S
    /\ UNCHANGED <<made, wanted>>

----------------------------------------------------------------------------
(* Events                                                                  *)

\* Fault: the proxy is made before the map is asked whether it exists.
HandleProperties_ExistsAlready ==
    LET e == Head(events) IN
    /\ events # <<>> /\ e.version # 0
    /\ events' = Tail(events)
    /\ IF closed THEN UNCHANGED maps
       ELSE /\ Updated({e.object}, [o \in Objects |-> e.version])
            /\ UNCHANGED <<announced, wanted>>
    /\ UNCHANGED <<bluez, asked, replies, spent, closed>>

\* 0x01 to 0x06: the proxy is made if need be, updated, and announced if new.
HandleProperties ==
    LET e == Head(events) IN
    /\ events # <<>> /\ e.version # 0
    /\ events' = Tail(events)
    /\ IF closed THEN UNCHANGED maps
       ELSE /\ Updated({e.object}, [o \in Objects |-> e.version])
            /\ announced' = IF proxy[e.object] = 0
                            THEN announced \cup {e.object} ELSE announced
            /\ UNCHANGED wanted
    /\ UNCHANGED <<bluez, asked, replies, spent, closed>>

\* 0x7E.
HandleRemoved ==
    LET e == Head(events) IN
    /\ events # <<>> /\ e.version = 0
    /\ events' = Tail(events)
    /\ IF closed THEN UNCHANGED maps ELSE Disposed({e.object})
    /\ UNCHANGED <<bluez, asked, replies, spent, closed>>

----------------------------------------------------------------------------
(* The application                                                         *)

\* client.player(path) and its like.
GetProxy(o) ==
    /\ ~closed /\ spent.gets < MaxGets
    /\ spent' = [spent EXCEPT !.gets = @ + 1]
    /\ Made({o})
    /\ wanted' = wanted \cup {o}
    /\ UNCHANGED <<bluez, events, asked, replies, props, revision, announced,
                   closed>>

Ask(fetch) == ~closed /\ asked' = Append(asked, fetch)

\* refresh takes a revision before it waits.
Refresh(o) ==
    /\ proxy[o] # 0 /\ spent.fetches < MaxFetches
    /\ spent' = [spent EXCEPT !.fetches = @ + 1]
    /\ revision' = [revision EXCEPT ![o] = @ + 1]
    /\ Ask([type |-> "refresh", object |-> o, proxy |-> proxy[o],
            revision |-> revision[o] + 1])
    /\ UNCHANGED <<bluez, events, replies, proxy, made, props, announced, wanted,
                   closed>>

\* listItems and search.
List(f) ==
    /\ proxy[f] # 0 /\ spent.lists < MaxLists
    /\ spent' = [spent EXCEPT !.lists = @ + 1]
    /\ Ask([type |-> "list", object |-> f, proxy |-> proxy[f], revision |-> 0])
    /\ UNCHANGED <<bluez, events, replies, maps, closed>>

\* Fault: the revision is not compared.
ApplyRefresh_Unguarded ==
    LET r == Head(replies)
        o == r.fetch.object IN
    /\ replies # <<>> /\ r.fetch.type = "refresh"
    /\ replies' = Tail(replies)
    /\ IF r.seen[o] # 0 /\ proxy[o] = r.fetch.proxy
       THEN /\ Updated({o}, r.seen)
            /\ UNCHANGED <<announced, wanted>>
       ELSE UNCHANGED maps
    /\ UNCHANGED <<bluez, events, asked, spent, closed>>

\* The reply of a refresh: an error, late, or installed.  A disposed proxy
\* ignores it; its path may have another proxy by now.
ApplyRefresh ==
    LET r == Head(replies)
        o == r.fetch.object IN
    /\ replies # <<>> /\ r.fetch.type = "refresh"
    /\ replies' = Tail(replies)
    /\ IF r.seen[o] # 0 /\ proxy[o] = r.fetch.proxy
          /\ revision[o] = r.fetch.revision
       THEN /\ Updated({o}, r.seen)
            /\ UNCHANGED <<announced, wanted>>
       ELSE UNCHANGED maps
    /\ UNCHANGED <<bluez, events, asked, spent, closed>>

\* Fault: a folder that was disposed meanwhile fills the maps all the same.
ApplyList_Disposed ==
    LET r == Head(replies)
        S == {o \in r.found : r.seen[o] # 0} IN
    /\ replies # <<>> /\ r.fetch.type = "list"
    /\ replies' = Tail(replies)
    /\ IF r.seen[r.fetch.object] # 0
       THEN /\ Updated(S, r.seen)
            /\ wanted' = wanted \cup S
            /\ UNCHANGED announced
       ELSE UNCHANGED maps
    /\ UNCHANGED <<bluez, events, asked, spent, closed>>

\* The reply of listItems or search: every object in it gets its proxy and its
\* properties, whatever has happened since; a disposed folder throws instead.
ApplyList ==
    LET r == Head(replies)
        S == {o \in r.found : r.seen[o] # 0} IN
    /\ replies # <<>> /\ r.fetch.type = "list"
    /\ replies' = Tail(replies)
    /\ IF r.seen[r.fetch.object] # 0
          /\ proxy[r.fetch.object] = r.fetch.proxy
       THEN /\ Updated(S, r.seen)
            /\ wanted' = wanted \cup S
            /\ UNCHANGED announced
       ELSE UNCHANGED maps
    /\ UNCHANGED <<bluez, events, asked, spent, closed>>

\* _close, up to its wait for the native side.
Close ==
    /\ ~closed /\ closed' = TRUE
    /\ Disposed(Objects)
    /\ UNCHANGED <<bluez, events, asked, replies, spent>>

----------------------------------------------------------------------------
(* The native side and BlueZ                                               *)

\* BlueZ adds, changes or removes an object; its event is posted in order.
Change(o, present) ==
    /\ changes < MaxChanges /\ (present \/ o \in Present)
    /\ changes' = changes + 1
    /\ version' = [version EXCEPT ![o] = IF present THEN changes' ELSE 0]
    /\ events' = Append(events, [object |-> o, version |-> version'[o]])
    /\ UNCHANGED <<asked, replies, maps, spent, closed>>

\* The worker's blocking call: BlueZ answers with what it has now.
Answer ==
    /\ asked # <<>>
    /\ asked' = Tail(asked)
    /\ \E found \in IF Head(asked).type = "list"
                    THEN SUBSET (Present \ {Head(asked).object}) ELSE {{}} :
         replies' = Append(replies, [fetch |-> Head(asked), seen |-> version,
                                     found |-> found])
    /\ UNCHANGED <<bluez, events, maps, spent, closed>>

Next ==
    \/ HandleProperties \/ HandleRemoved
    \/ \E o \in Objects : GetProxy(o) \/ Refresh(o)
    \/ \E f \in Folders : List(f)
    \/ ApplyRefresh \/ ApplyList
    \/ Close
    \/ \E o \in Objects, present \in BOOLEAN : Change(o, present)
    \/ Answer

Spec == Init /\ [][Next]_vars

----------------------------------------------------------------------------
(* Properties                                                              *)

Quiet == events = <<>> /\ asked = <<>> /\ replies = <<>> /\ ~closed

\* When every event and every refresh has been handled, each object of BlueZ
\* has a proxy with its latest properties, and no other proxy is left but one
\* that was asked for by path: no late refresh wins over a newer event.  (A
\* listing may: see README.)
ProxiesMatchBluez ==
    Quiet /\ spent.lists = 0 => \A o \in Objects :
      IF version[o] # 0 THEN proxy[o] # 0 /\ props[o] = version[o]
                        ELSE proxy[o] # 0 => o \in wanted

\* Each object that appeared has been announced on its Added stream, unless
\* the application had asked for its proxy, or listed it, before.
PresentIsAnnounced ==
    Quiet => \A o \in Present \ wanted : o \in announced

\* "Prevented delayed asynchronous property refreshes from overwriting newer
\* proxy states": no refresh takes a proxy back to older properties, whatever
\* events, listings and other refreshes updated it meanwhile.
RefreshNeverOlder ==
    [][\A o \in Objects :
         Len(replies') < Len(replies) /\ Head(replies).fetch.type = "refresh"
           /\ proxy[o] # 0 /\ proxy'[o] = proxy[o]
           => props'[o] >= props[o]]_vars

\* A closed client has no proxy, also when a fetch that was under way ends.
ClosedIsEmpty == closed => \A o \in Objects : proxy[o] = 0

=============================================================================
