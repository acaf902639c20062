------------------------- MODULE MediaObjectManager -------------------------
(***************************************************************************)
(* The client's copy of BlueZ's object tree: the first snapshot, the       *)
(* signals, the replacement snapshot after BlueZ restarts, and the GetAll  *)
(* requests that replace invalidated properties.                           *)
(* (native/src/media_object_manager.cpp)                                   *)
(*                                                                         *)
(* All handlers run one after the other on the connection's event loop.    *)
(* The bus delivers signals, replies and owner changes in the order they   *)
(* were sent.  A member of Objects is one interface of one object path.    *)
(***************************************************************************)
EXTENDS Naturals, Sequences, FiniteSets, SequencesExt

CONSTANTS
    Objects,      \* media interfaces BlueZ may export
    Players,      \* those that are org.bluez.MediaPlayer1
    Paths,
    PathOf,       \* the object path of each
    Adapter,      \* org.bluez.Media1 of an adapter, not a media interface
    Properties,   \* of an interface
    Data,         \* the values a property may have
    Trees,        \* the objects BlueZ may have when the client starts
    Absent,       \* no interface
    Error,        \* an error reply
    MaxOwners,    \* bound on BlueZ processes
    MaxChanges,   \* bound on changes BlueZ makes to its objects
    MaxErrors     \* bound on errors returned by a living BlueZ

Values == [Properties -> Data]
Tree == [Objects -> Values \cup {Absent}]

ASSUME ManagerAssumption ==
    /\ IsFiniteSet(Objects) /\ Players \subseteq Objects
    /\ PathOf \in [Objects -> Paths]
    /\ Adapter \notin Objects
    /\ Absent \notin Values
    /\ Error \notin Values \cup Tree \cup {Absent}
    /\ Trees \subseteq Tree
    /\ MaxOwners \in Nat \ {0} /\ MaxChanges \in Nat /\ MaxErrors \in Nat

VARIABLES
    owner,       \* the BlueZ process that owns org.bluez, 0 for none
    bluez,       \* its objects and their values
    calls,       \* method calls on their way to BlueZ, oldest first
    inbox,       \* messages the event loop has not handled yet
    spent,       \* how much of each bound is used
    started,     \* get_managed_objects has returned
    generation,  \* owner_generation_
    resync,      \* resynchronizing_
    deferred,    \* pending_updates_
    cache,       \* interfaces_by_path_ and properties_by_path_
    revision,    \* revisions_, 0 where there is none
    lastRev,     \* next_revision_
    view,        \* objects after the events posted to Dart so far
    available,   \* the last of 0x30 and 0x31 (Dart starts with true)
    callbacks,   \* callbacks made by the last handler, in order
    failed       \* history: BlueZ refused a request since the last owner change

bus == <<owner, bluez, spent>>
manager == <<generation, resync, deferred, cache, revision, lastRev, view,
             available, callbacks>>
vars == <<bus, calls, inbox, started, manager, failed>>

Nothing == [o \in Objects |-> Absent]
Present(tree) == {o \in Objects : tree[o] # Absent}

Call ==
    [type : {"snapshot"}, gen : Nat, to : 0..MaxOwners]
    \cup [type : {"getall"}, object : Objects, rev : Nat, to : 0..MaxOwners]

\* The signals that apply_update handles.
Updates == {"added", "removed", "changed"}
Update ==
    [type : {"added"}, tree : Tree]
    \cup [type : {"removed"}, objects : SUBSET (Objects \cup {Adapter})]
    \cup [type : {"changed"}, object : Objects, invalidated : BOOLEAN,
          changed : UNION {[C -> Data] : C \in SUBSET Properties}]

Message ==
    Update
    \cup [type : {"owner"}, owner : 0..MaxOwners]
    \cup [type : {"snapshot"}, gen : Nat, tree : Tree \cup {Error}]
    \cup [type : {"getall"}, object : Objects, rev : Nat,
          value : Values \cup {Error}]

Callback == {"player", "removed"} \X (Objects \cup {Adapter})

TypeOK ==
    /\ owner \in 0..MaxOwners
    /\ bluez \in Tree /\ cache \in Tree /\ view \in Tree
    /\ calls \in Seq(Call)
    /\ inbox \in Seq(Message)
    /\ deferred \in Seq(Update)
    /\ callbacks \in Seq(Callback)
    /\ spent \in [owners : 1..MaxOwners, changes : 0..MaxChanges,
                  errors : 0..MaxErrors]
    /\ started \in BOOLEAN /\ resync \in BOOLEAN /\ available \in BOOLEAN
    /\ failed \in BOOLEAN
    /\ generation \in Nat /\ lastRev \in Nat
    /\ revision \in [Objects -> 0..lastRev]
    /\ \A o \in Objects : revision[o] = 0 <=> cache[o] = Absent

Init ==
    /\ owner = 1
    /\ bluez \in Trees
    /\ calls = <<>> /\ inbox = <<>>
    /\ spent = [owners |-> 1, changes |-> 0, errors |-> 0]
    /\ started = FALSE
    /\ generation = 0 /\ resync = FALSE /\ deferred = <<>>
    /\ cache = Nothing /\ view = Nothing
    /\ revision = [o \in Objects |-> 0] /\ lastRev = 0
    /\ available = TRUE
    /\ callbacks = <<>>
    /\ failed = FALSE

----------------------------------------------------------------------------
(* What the handlers do to the manager, as functions of a record s of its  *)
(* containers, so that deferred updates can be replayed in one step.       *)

State == [cache |-> cache, view |-> view, revision |-> revision,
          lastRev |-> lastRev, calls |-> calls, callbacks |-> <<>>,
          dropped |-> {}]

\* post_properties of the objects in D: the player callback, then the event.
Post(s, D) ==
    [s EXCEPT !.view = [o \in Objects |-> IF o \in D THEN s.cache[o] ELSE @[o]],
              !.callbacks = @ \o SetToSeq({<<"player", o>> : o \in D \cap Players})]

\* on_interfaces_added.
Added(s, tree) ==
    LET D == Present(tree) IN
    Post([s EXCEPT
            !.cache = [o \in Objects |-> IF o \in D THEN tree[o] ELSE @[o]],
            !.revision = [o \in Objects |-> IF o \in D THEN s.lastRev + 1
                                                       ELSE @[o]],
            !.lastRev = @ + 1], D)

\* Destroying the property proxy of a path cancels its GetAll calls.
Uncancelled(messages, P) ==
    LET cancelled(m) == m.type = "getall" /\ PathOf[m.object] \in P
        kept[n \in 0..Len(messages)] ==
            IF n = 0 THEN <<>>
            ELSE IF cancelled(messages[n]) THEN kept[n - 1]
            ELSE Append(kept[n - 1], messages[n])
    IN kept[Len(messages)]

\* Fault: only the event of a path's last interface is posted.
Dropped_LastOnly(s, D) ==
    LET left == Present(s.cache) \ D
        gone == {PathOf[o] : o \in Present(s.cache) \cap D}
                  \ {PathOf[o] : o \in left}
    IN [s EXCEPT
          !.cache = [o \in Objects |-> IF o \in left THEN @[o] ELSE Absent],
          !.view = [o \in Objects |-> IF PathOf[o] \in gone
                                      THEN Absent ELSE @[o]],
          !.revision = [o \in Objects |-> IF o \in left THEN @[o] ELSE 0],
          !.calls = Uncancelled(@, gone),
          !.dropped = @ \cup gone,
          !.callbacks = @ \o SetToSeq({<<"removed", o>> : o \in D})]

\* Fault: the revisions of a path are erased with its last interface only.
Dropped_KeepsRevision(s, D) ==
    LET left == Present(s.cache) \ D
        gone == {PathOf[o] : o \in Present(s.cache) \cap D}
                  \ {PathOf[o] : o \in left}
    IN [s EXCEPT
          !.cache = [o \in Objects |-> IF o \in left THEN @[o] ELSE Absent],
          !.view = [o \in Objects |-> IF o \in Present(s.cache) \cap D
                                      THEN Absent ELSE @[o]],
          !.revision = [o \in Objects |-> IF PathOf[o] \in gone THEN 0 ELSE @[o]],
          !.calls = Uncancelled(@, gone),
          !.dropped = @ \cup gone,
          !.callbacks = @ \o SetToSeq({<<"removed", o>> : o \in D})]

\* on_interfaces_removed: the removed callback for every name in the signal,
\* the event for the known ones; a path without interfaces is forgotten.
Dropped(s, D) ==
    LET left == Present(s.cache) \ D
        gone == {PathOf[o] : o \in Present(s.cache) \cap D}
                  \ {PathOf[o] : o \in left}
    IN [s EXCEPT
          !.cache = [o \in Objects |-> IF o \in left THEN @[o] ELSE Absent],
          !.view = [o \in Objects |-> IF o \in Present(s.cache) \cap D
                                      THEN Absent ELSE @[o]],
          !.revision = [o \in Objects |-> IF o \in left THEN @[o] ELSE 0],
          !.calls = Uncancelled(@, gone),
          !.dropped = @ \cup gone,
          !.callbacks = @ \o SetToSeq({<<"removed", o>> : o \in D})]

\* refresh_properties.
Refresh(s, o) ==
    [s EXCEPT !.calls = Append(@, [type |-> "getall", object |-> o,
                                   rev |-> s.revision[o], to |-> owner])]

\* The changed values replace or join the cached ones.
Merged(values, changed) ==
    [p \in Properties |-> IF p \in DOMAIN changed THEN changed[p] ELSE values[p]]

\* PropertiesChanged of one known interface: the changed values, if any, are
\* merged and posted; invalidated ones keep their last value until GetAll.
Changed(s, o, changed, invalidated) ==
    LET newer == [s EXCEPT !.revision[o] = s.lastRev + 1, !.lastRev = @ + 1]
        posted == IF DOMAIN changed = {} THEN newer
                  ELSE Post([newer EXCEPT !.cache[o] = Merged(@, changed)], {o})
    IN IF s.cache[o] = Absent THEN s
       ELSE IF invalidated THEN Refresh(posted, o)
       ELSE posted

Apply(s, m) ==
    CASE m.type = "added"   -> Added(s, m.tree)
      [] m.type = "removed" -> Dropped(s, m.objects)
      [] m.type = "changed" -> Changed(s, m.object, m.changed, m.invalidated)

\* The updates q applied to s, oldest first.
Replayed(s, q) ==
    LET after[n \in 0..Len(q)] ==
            IF n = 0 THEN s ELSE Apply(after[n - 1], q[n])
    IN after[Len(q)]

\* The handler of the message at the head leaves the manager in s.
Commit(s) ==
    /\ cache' = s.cache /\ view' = s.view
    /\ revision' = s.revision /\ lastRev' = s.lastRev
    /\ calls' = s.calls
    /\ callbacks' = s.callbacks
    /\ inbox' = Uncancelled(Tail(inbox), s.dropped)

----------------------------------------------------------------------------
(* The event loop                                                          *)

Next1(type) == started /\ inbox # <<>> /\ Head(inbox).type = type

\* The constructor has subscribed; get_managed_objects blocks for the first
\* snapshot before the event loop runs, so earlier signals are still queued.
Start ==
    /\ ~started /\ owner # 0
    /\ started' = TRUE
    /\ LET s == Added(State, bluez)
       IN /\ cache' = s.cache /\ view' = s.view
          /\ revision' = s.revision /\ lastRev' = s.lastRev
          /\ callbacks' = s.callbacks
    /\ UNCHANGED <<bus, calls, inbox, generation, resync, deferred, available,
                   failed>>

\* apply_update, outside a resynchronisation.
HandleUpdate ==
    /\ \E type \in Updates : Next1(type)
    /\ ~resync
    /\ Commit(Apply(State, Head(inbox)))
    /\ UNCHANGED <<bus, started, generation, resync, deferred, available, failed>>

\* apply_update, while the replacement snapshot is awaited.
DeferUpdate ==
    /\ \E type \in Updates : Next1(type)
    /\ resync
    /\ deferred' = Append(deferred, Head(inbox))
    /\ Commit(State)
    /\ UNCHANGED <<bus, started, generation, resync, available, failed>>

\* NameOwnerChanged: everything known is removed and all registrations are
\* invalidated before the loss is posted; a new owner is asked for a snapshot.
HandleOwner ==
    LET new == Head(inbox).owner
        s == Dropped(State, Present(cache))
        request == [type |-> "snapshot", gen |-> generation + 1, to |-> owner]
    IN /\ Next1("owner")
       /\ generation' = generation + 1
       /\ deferred' = <<>>
       /\ resync' = (new # 0)
       /\ available' = FALSE
       /\ Commit([s EXCEPT
                    !.callbacks = Append(@, <<"removed", Adapter>>),
                    !.calls = IF new = 0 THEN @ ELSE Append(@, request)])
       /\ failed' = FALSE
       /\ UNCHANGED <<bus, started>>

\* The reply to a request of an earlier generation is ignored.
HandleStaleSnapshot ==
    /\ Next1("snapshot")
    /\ Head(inbox).gen # generation
    /\ Commit(State)
    /\ UNCHANGED <<bus, started, generation, resync, deferred, available, failed>>

\* Fault: 0x31 is posted only when updates were deferred.
HandleSnapshot_Quiet ==
    /\ Next1("snapshot")
    /\ Head(inbox).gen = generation /\ Head(inbox).tree # Error
    /\ Commit(Replayed(Added(State, Head(inbox).tree), deferred))
    /\ resync' = FALSE /\ deferred' = <<>> /\ available' = (deferred # <<>>)
    /\ UNCHANGED <<bus, started, generation, failed>>

\* The replacement snapshot, then the updates deferred meanwhile, then 0x31.
HandleSnapshot ==
    /\ Next1("snapshot")
    /\ Head(inbox).gen = generation /\ Head(inbox).tree # Error
    /\ Commit(Replayed(Added(State, Head(inbox).tree), deferred))
    /\ resync' = FALSE /\ deferred' = <<>> /\ available' = TRUE
    /\ UNCHANGED <<bus, started, generation, failed>>

\* An error ends the resynchronisation; the deferred updates are discarded.
HandleSnapshotError ==
    /\ Next1("snapshot")
    /\ Head(inbox).gen = generation /\ Head(inbox).tree = Error
    /\ Commit(State)
    /\ resync' = FALSE /\ deferred' = <<>>
    /\ UNCHANGED <<bus, started, generation, available, failed>>

\* Fault: a reply overtaken by a newer change is dropped, not asked for again.
HandleGetAll_NoRetry ==
    LET m == Head(inbox) IN
    /\ Next1("getall")
    /\ Commit(IF m.value = Error \/ revision[m.object] # m.rev THEN State
              ELSE Post([State EXCEPT !.cache[m.object] = m.value],
                        {m.object}))
    /\ UNCHANGED <<bus, started, generation, resync, deferred, available,
                   failed>>

\* A GetAll reply: dropped on error or when the interface is gone, asked for
\* again when a newer change overtook it, installed otherwise.
HandleGetAll ==
    LET m == Head(inbox)
        current == revision[m.object]
    IN /\ Next1("getall")
       /\ Commit(CASE m.value = Error \/ current = 0 -> State
                   [] m.value # Error /\ current \notin {0, m.rev} ->
                        Refresh(State, m.object)
                   [] m.value # Error /\ current # 0 /\ current = m.rev ->
                        Post([State EXCEPT !.cache[m.object] = m.value],
                             {m.object}))
       /\ UNCHANGED <<bus, started, generation, resync, deferred, available,
                      failed>>

Handle == HandleUpdate \/ DeferUpdate \/ HandleOwner \/ HandleStaleSnapshot
          \/ HandleSnapshot \/ HandleSnapshotError \/ HandleGetAll

----------------------------------------------------------------------------
(* BlueZ and the bus                                                       *)

Send(m) == inbox' = Append(inbox, m)

\* BlueZ stops, starts, or is replaced; its objects go without a signal.
ChangeOwner ==
    /\ \/ owner # 0 /\ owner' = 0 /\ UNCHANGED spent
       \/ /\ spent.owners < MaxOwners
          /\ owner' = spent.owners + 1
          /\ spent' = [spent EXCEPT !.owners = @ + 1]
    /\ bluez' = Nothing
    /\ Send([type |-> "owner", owner |-> owner'])
    /\ UNCHANGED <<calls, started, manager, failed>>

Alter(tree, m) ==
    /\ owner # 0 /\ spent.changes < MaxChanges
    /\ spent' = [spent EXCEPT !.changes = @ + 1]
    /\ bluez' = tree
    /\ Send(m)
    /\ UNCHANGED <<owner, calls, started, manager, failed>>

\* InterfacesAdded: some interfaces of one path.
AddObjects(D, v) ==
    LET tree == [o \in Objects |-> IF o \in D THEN v ELSE Absent] IN
    /\ D # {} /\ D \cap Present(bluez) = {}
    /\ \A o, p \in D : PathOf[o] = PathOf[p]
    /\ Alter([o \in Objects |-> IF o \in D THEN v ELSE bluez[o]],
             [type |-> "added", tree |-> tree])

\* InterfacesRemoved.
RemoveObjects(D) ==
    /\ D # {} /\ D \subseteq Present(bluez)
    /\ \A o, p \in D : PathOf[o] = PathOf[p]
    /\ Alter([o \in Objects |-> IF o \in D THEN Absent ELSE bluez[o]],
             [type |-> "removed", objects |-> D])

\* An adapter goes: InterfacesRemoved with org.bluez.Media1.
RemoveAdapter ==
    Alter(bluez, [type |-> "removed", objects |-> {Adapter}])

\* PropertiesChanged: the new value of o's properties; those in I are named
\* in the signal without their values.
ChangeObject(o, v, I) ==
    LET C == {p \in Properties : v[p] # bluez[o][p]} IN
    /\ o \in Present(bluez) /\ C # {} /\ I \subseteq C
    /\ Alter([bluez EXCEPT ![o] = v],
             [type |-> "changed", object |-> o,
              changed |-> [p \in C \ I |-> v[p]], invalidated |-> I # {}])

\* BlueZ answers the oldest call.
Answer ==
    LET m == Head(calls) IN
    /\ calls # <<>> /\ owner # 0
    /\ calls' = Tail(calls)
    /\ IF m.type = "snapshot"
       THEN Send([type |-> "snapshot", gen |-> m.gen, tree |-> bluez])
       ELSE Send([type |-> "getall", object |-> m.object, rev |-> m.rev,
                  value |-> IF bluez[m.object] = Absent THEN Error
                                                        ELSE bluez[m.object]])
    /\ UNCHANGED <<bus, started, manager, failed>>

Refusal(m) ==
    IF m.type = "snapshot"
    THEN [type |-> "snapshot", gen |-> m.gen, tree |-> Error]
    ELSE [type |-> "getall", object |-> m.object, rev |-> m.rev, value |-> Error]

\* The bus answers for a callee that is gone.
NoReply ==
    /\ calls # <<>> /\ (owner = 0 \/ Head(calls).to # owner)
    /\ calls' = Tail(calls)
    /\ Send(Refusal(Head(calls)))
    /\ UNCHANGED <<bus, started, manager, failed>>

\* BlueZ answers with an error, or does not answer in time.
Refuse ==
    /\ calls # <<>> /\ spent.errors < MaxErrors
    /\ owner # 0 /\ Head(calls).to = owner
    /\ spent' = [spent EXCEPT !.errors = @ + 1]
    /\ calls' = Tail(calls)
    /\ Send(Refusal(Head(calls)))
    /\ failed' = TRUE
    /\ UNCHANGED <<owner, bluez, started, manager>>

Bluez ==
    \/ ChangeOwner
    \/ \E D \in SUBSET Objects : RemoveObjects(D)
                                 \/ \E v \in Values : AddObjects(D, v)
    \/ RemoveAdapter
    \/ \E o \in Objects, v \in Values, I \in SUBSET Properties :
         ChangeObject(o, v, I)
    \/ Refuse

Reply == Answer \/ NoReply

Next == Start \/ Handle \/ Bluez \/ Reply

\* The event loop runs, and every call is answered: by BlueZ, by the bus when
\* its callee is gone, or by sdbus-c++ when it times out.
Fairness == WF_vars(Start) /\ WF_vars(Handle) /\ WF_vars(Reply)

Spec == Init /\ [][Next]_vars /\ Fairness

----------------------------------------------------------------------------
(* Properties                                                              *)

Quiet == started /\ calls = <<>> /\ inbox = <<>>

\* The events posted to Dart always add up to the cache.  While the service is
\* reported unavailable they show no object, unless the replacement snapshot was
\* refused: later signals are then applied and posted although 0x31 never was.
EventsMatchCache ==
    /\ view = cache
    /\ ~available /\ ~failed => view = Nothing

\* When nothing is under way the cache is BlueZ's tree, whatever signals were
\* replayed over a later snapshot, whatever was invalidated, and whoever owns
\* the name; a refused request does harm until the next owner change only.
Converged == Quiet /\ ~failed => cache = bluez

\* Once BlueZ leaves its objects alone the client settles; it shows nothing
\* without an owner, and with one, unless a request was refused, it reports the
\* service available.
Settles ==
    started ~> [](Quiet /\ (owner = 0 => view = Nothing)
                        /\ (owner # 0 /\ ~failed => available))

=============================================================================
