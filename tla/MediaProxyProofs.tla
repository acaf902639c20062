-------------------------- MODULE MediaProxyProofs --------------------------
(***************************************************************************)
(* What MediaProxy promises, for any objects, changes and fetches.  The    *)
(* proof follows a version from BlueZ to the proxy: events and replies     *)
(* carry versions that were once BlueZ's (Delivered), the last event       *)
(* queued for an object carries its latest one (LastEvent), and a refresh  *)
(* that still may be installed was answered after everything its proxy     *)
(* has (Current), because each update and each refresh takes a revision    *)
(* and each new proxy a number of its own (Asked).                         *)
(***************************************************************************)
EXTENDS MediaProxy, Functions, TLAPS

\* No event of the object is queued.
Settled(o) == \A e \in Range(events) : e.object # o

\* Every version on its way, or in a proxy, was BlueZ's: none is newer than
\* what BlueZ has.
Behind(v, o) == v <= changes /\ (version[o] # 0 => v <= version[o])

Delivered ==
    /\ \A o \in Objects : Behind(props[o], o) /\ version[o] <= changes
    /\ \A e \in Range(events) : Behind(e.version, e.object)
    /\ \A r \in Range(replies), o \in Objects : Behind(r.seen[o], o)

\* The last event queued for an object carries its latest version.
Latest(s, o, v) ==
    \A i \in 1..Len(s) :
        s[i].object = o /\ (\A j \in 1..Len(s) : j > i => s[j].object # o)
            => s[i].version = v

LastEvent == \A o \in Objects : Latest(events, o, version[o])

\* A fetch was made by a proxy that exists or existed; the proxy's revision is
\* no older than the fetch.
Known(f) ==
    /\ f.proxy <= made[f.object]
    /\ proxy[f.object] = f.proxy => f.revision <= revision[f.object]
    /\ f.type = "list" => spent.lists # 0

Asked ==
    /\ \A f \in Range(asked) : Known(f)
    /\ \A r \in Range(replies) : Known(r.fetch)

\* A refresh that may be installed is no older than what it replaces.
Newer(r) ==
    LET o == r.fetch.object IN
    r.fetch.type = "refresh" /\ proxy[o] = r.fetch.proxy
      /\ revision[o] = r.fetch.revision /\ r.seen[o] # 0 => props[o] <= r.seen[o]

Current == \A r \in Range(replies) : Newer(r)

\* A proxy was announced or asked for, and an object whose events have been
\* handled has one.
Accounted(o) ==
    /\ proxy[o] # 0 => o \in announced \cup wanted
    /\ ~closed /\ Settled(o) /\ version[o] # 0 => proxy[o] # 0

\* Without listings, a proxy whose events have been handled is BlueZ's object.
UpToDate(o) ==
    ~closed /\ spent.lists = 0 /\ Settled(o) =>
        /\ version[o] # 0 => props[o] = version[o]
        /\ version[o] = 0 /\ proxy[o] # 0 => o \in wanted

Followed == \A o \in Objects : Accounted(o) /\ UpToDate(o)

IInv ==
    /\ TypeOK /\ ClosedIsEmpty
    /\ Delivered /\ LastEvent /\ Asked /\ Current /\ Followed

----------------------------------------------------------------------------
(* Queues                                                                  *)

LEMMA InRange == ASSUME NEW T, NEW s \in Seq(T) PROVE Range(s) \subseteq T
BY DEF Range

\* What is left after an element has been taken.
LEMMA Taken ==
    ASSUME NEW T, NEW s \in Seq(T), s # <<>>
    PROVE  /\ Head(s) \in T /\ Head(s) \in Range(s) /\ Tail(s) \in Seq(T)
           /\ Range(Tail(s)) \subseteq Range(s)
           /\ Range(s) \subseteq Range(Tail(s)) \cup {Head(s)}
<1>1. Head(s) \in T /\ Tail(s) \in Seq(T)
  OBVIOUS
<1>2. Head(s) \in Range(s)
  BY DEF Range
<1>3. ASSUME NEW x \in Range(Tail(s)) PROVE x \in Range(s)
  <2>1. PICK i \in 1..Len(Tail(s)) : x = Tail(s)[i]
    BY <1>1, <1>3 DEF Range
  <2>2. i + 1 \in 1..Len(s) /\ s[i + 1] = x
    BY <2>1
  <2> QED BY <2>2 DEF Range
<1>4. ASSUME NEW x \in Range(s), x # Head(s) PROVE x \in Range(Tail(s))
  <2>1. PICK i \in 1..Len(s) : x = s[i]
    BY <1>4 DEF Range
  <2>2. i - 1 \in 1..Len(Tail(s)) /\ Tail(s)[i - 1] = x
    BY <1>4, <2>1
  <2>3. DOMAIN Tail(s) = 1..Len(Tail(s))
    BY <1>1
  <2> QED BY <2>2, <2>3 DEF Range
<1> QED BY <1>1, <1>2, <1>3, <1>4

LEMMA Put ==
    ASSUME NEW T, NEW s \in Seq(T), NEW e \in T
    PROVE  Append(s, e) \in Seq(T) /\ Range(Append(s, e)) = Range(s) \cup {e}
<1>1. Append(s, e) \in Seq(T) /\ Len(Append(s, e)) = Len(s) + 1 /\ Len(s) \in Nat
  OBVIOUS
<1>2. \A i \in 1..Len(s) : Append(s, e)[i] = s[i]
  OBVIOUS
<1>3. Append(s, e)[Len(s) + 1] = e
  OBVIOUS
<1>4. 1..Len(Append(s, e)) = 1..Len(s) \cup {Len(s) + 1}
  BY <1>1
<1> QED BY <1>1, <1>2, <1>3, <1>4 DEF Range

\* The event taken is the last one of its object when no other is queued.
LEMMA TakenLatest ==
    ASSUME NEW s \in Seq(Event), s # <<>>, NEW o, NEW v, Latest(s, o, v)
    PROVE  /\ Latest(Tail(s), o, v)
           /\ Head(s).object = o /\ (\A e \in Range(Tail(s)) : e.object # o)
                => Head(s).version = v
<1>1. /\ Len(Tail(s)) = Len(s) - 1 /\ Len(s) \in Nat
      /\ \A i \in 1..Len(Tail(s)) : i + 1 \in 1..Len(s) /\ Tail(s)[i] = s[i + 1]
      /\ \A j \in 1..Len(s) : j > 1 => j - 1 \in 1..Len(Tail(s)) /\ s[j] = Tail(s)[j - 1]
      /\ 1 \in 1..Len(s) /\ Head(s) = s[1]
  OBVIOUS
<1>2. Latest(Tail(s), o, v)
  <2> SUFFICES ASSUME NEW i \in 1..Len(Tail(s)), Tail(s)[i].object = o,
                      \A j \in 1..Len(Tail(s)) : j > i => Tail(s)[j].object # o
               PROVE  Tail(s)[i].version = v
    BY DEF Latest
  <2>1. ASSUME NEW j \in 1..Len(s), j > i + 1 PROVE s[j].object # o
    <3>1. j - 1 \in 1..Len(Tail(s)) /\ s[j] = Tail(s)[j - 1] /\ j - 1 > i
      BY <1>1, <2>1
    <3> QED BY <3>1
  <2> QED BY <1>1, <2>1 DEF Latest
<1>3. ASSUME Head(s).object = o, \A e \in Range(Tail(s)) : e.object # o
      PROVE  Head(s).version = v
  <2>1. ASSUME NEW j \in 1..Len(s), j > 1 PROVE s[j].object # o
    <3>1. Tail(s) \in Seq(Event) /\ DOMAIN Tail(s) = 1..Len(Tail(s))
      BY Taken
    <3>2. s[j] \in Range(Tail(s))
      BY <1>1, <2>1, <3>1 DEF Range
    <3> QED BY <1>3, <3>2
  <2> QED BY <1>1, <1>3, <2>1 DEF Latest
<1> QED BY <1>2, <1>3

LEMMA PutLatest ==
    ASSUME NEW s \in Seq(Event), NEW e \in Event, NEW o, NEW v,
           IF e.object = o THEN e.version = v ELSE Latest(s, o, v)
    PROVE  Latest(Append(s, e), o, v)
<1>1. /\ Len(Append(s, e)) = Len(s) + 1 /\ Len(s) \in Nat
      /\ \A i \in 1..Len(s) : i \in 1..Len(Append(s, e)) /\ Append(s, e)[i] = s[i]
      /\ Len(s) + 1 \in 1..Len(Append(s, e)) /\ Append(s, e)[Len(s) + 1] = e
      /\ \A i \in 1..Len(Append(s, e)) : i \in 1..Len(s) \/ i = Len(s) + 1
  OBVIOUS
<1> SUFFICES ASSUME NEW i \in 1..Len(Append(s, e)), Append(s, e)[i].object = o,
                    \A j \in 1..Len(Append(s, e)) : j > i => Append(s, e)[j].object # o
             PROVE  Append(s, e)[i].version = v
  BY DEF Latest
<1>2. CASE i = Len(s) + 1
  BY <1>1, <1>2
<1>3. CASE i \in 1..Len(s)
  <2>1. e.object # o
    BY <1>1, <1>3
  <2>2. \A j \in 1..Len(s) : j > i => s[j].object # o
    BY <1>1
  <2> QED BY <1>1, <1>3, <2>1, <2>2 DEF Latest
<1> QED BY <1>1, <1>2, <1>3

----------------------------------------------------------------------------
(* The maps                                                                *)

Versions == [Objects -> Nat]

\* What TypeOK says of the maps.
MapsOK ==
    /\ proxy \in Versions /\ made \in Versions
    /\ props \in Versions /\ revision \in Versions
    /\ \A o \in Objects : proxy[o] \in {0, made[o]} /\ (proxy[o] = 0 => props[o] = 0)
    /\ announced \subseteq {o \in Objects : proxy[o] # 0}
    /\ wanted \subseteq Objects

\* How a step may change the maps at o: a proxy that stays counts what updates it.
Moved(o) ==
    /\ made[o] <= made'[o]
    /\ proxy'[o] \in {0, proxy[o]} \/ proxy'[o] > made[o]
    /\ proxy'[o] = proxy[o] /\ proxy[o] # 0 =>
         revision[o] <= revision'[o] /\ (props'[o] = props[o] \/ revision[o] < revision'[o])

LEMMA MadeMoves ==
    ASSUME MapsOK, NEW S \in SUBSET Objects, Made(S)
    PROVE  /\ proxy' \in Versions /\ made' \in Versions
           /\ \A o \in Objects :
                /\ made[o] <= made'[o] /\ proxy'[o] \in {0, made'[o]}
                /\ o \in S => proxy'[o] # 0
                /\ o \notin S \/ proxy[o] # 0 => proxy'[o] = proxy[o]
                /\ o \in S /\ proxy[o] = 0 => proxy'[o] > made[o]
<1>1. made' = [o \in Objects |->
                 IF o \in S /\ proxy[o] = 0 THEN made[o] + 1 ELSE made[o]]
  BY DEF Made
<1>2. proxy' = [o \in Objects |->
                 IF o \in S /\ proxy[o] = 0 THEN made'[o] ELSE proxy[o]]
  BY DEF Made
<1>3. made' \in Versions /\ \A o \in Objects : made[o] <= made'[o]
  BY <1>1 DEF MapsOK, Versions
<1>4. proxy' \in Versions
  BY <1>2, <1>3 DEF MapsOK, Versions
<1>5. ASSUME NEW o \in Objects
      PROVE  /\ proxy'[o] \in {0, made'[o]} /\ (o \in S => proxy'[o] # 0)
             /\ o \notin S \/ proxy[o] # 0 => proxy'[o] = proxy[o]
             /\ o \in S /\ proxy[o] = 0 => proxy'[o] > made[o]
  <2>1. CASE o \in S /\ proxy[o] = 0
    BY <1>1, <1>2, <2>1 DEF MapsOK, Versions
  <2>2. CASE ~(o \in S /\ proxy[o] = 0)
    BY <1>1, <1>2, <2>2 DEF MapsOK, Versions
  <2> QED BY <2>1, <2>2
<1> QED BY <1>3, <1>4, <1>5

LEMMA UpdatedMoves ==
    ASSUME MapsOK, NEW S \in SUBSET Objects, NEW v \in Versions, Updated(S, v),
           wanted' \subseteq Objects, announced' \subseteq announced \cup S
    PROVE  /\ MapsOK'
           /\ \A o \in Objects :
                /\ Moved(o) /\ props'[o] = (IF o \in S THEN v[o] ELSE props[o])
                /\ o \in S => proxy'[o] # 0
                /\ o \notin S \/ proxy[o] # 0 => proxy'[o] = proxy[o]
<1>1. Made(S)
  BY DEF Updated
<1>2. props' \in Versions /\ \A o \in Objects :
        props'[o] = IF o \in S THEN v[o] ELSE props[o]
  BY DEF Updated, MapsOK, Versions
<1>3. revision' \in Versions /\ \A o \in Objects :
        /\ o \notin S => revision'[o] = revision[o]
        /\ o \in S /\ proxy[o] # 0 => revision'[o] = revision[o] + 1
  BY DEF Updated, MapsOK, Versions
<1>4. MapsOK'
  BY <1>1, <1>2, <1>3, MadeMoves DEF MapsOK
<1>5. ASSUME NEW o \in Objects PROVE Moved(o)
  <2>1. /\ made[o] \in Nat /\ made'[o] \in Nat /\ revision[o] \in Nat
        /\ made[o] <= made'[o]
    BY <1>1, MadeMoves DEF MapsOK, Versions
  <2>2. CASE o \notin S
    BY <1>1, <1>2, <1>3, <2>1, <2>2, MadeMoves DEF Moved
  <2>3. CASE o \in S /\ proxy[o] # 0
    BY <1>1, <1>3, <2>1, <2>3, MadeMoves DEF Moved
  <2>4. CASE o \in S /\ proxy[o] = 0
    BY <1>1, <2>1, <2>4, MadeMoves DEF Moved
  <2> QED BY <2>2, <2>3, <2>4
<1> QED BY <1>1, <1>2, <1>4, <1>5, MadeMoves

LEMMA DisposedMoves ==
    ASSUME MapsOK, NEW S \in SUBSET Objects, Disposed(S)
    PROVE  /\ MapsOK'
           /\ \A o \in Objects :
                /\ Moved(o) /\ (o \in S => proxy'[o] = 0 /\ props'[o] = 0)
                /\ o \notin S => proxy'[o] = proxy[o] /\ props'[o] = props[o]
<1>1. \A o \in Objects :
        /\ o \in S => proxy'[o] = 0 /\ props'[o] = 0 /\ revision'[o] = 0
        /\ o \notin S => proxy'[o] = proxy[o] /\ props'[o] = props[o]
                          /\ revision'[o] = revision[o]
  BY DEF Disposed
<1>2. proxy' \in Versions /\ props' \in Versions /\ revision' \in Versions
  BY DEF Disposed, MapsOK, Versions
<1>3. made' = made /\ wanted' = wanted /\ announced' = announced \ S
  BY DEF Disposed
<1>4. MapsOK'
  BY <1>1, <1>2, <1>3 DEF MapsOK
<1>5. ASSUME NEW o \in Objects PROVE Moved(o)
  <2>1. made[o] \in Nat /\ revision[o] \in Nat
    BY DEF MapsOK, Versions
  <2> QED BY <1>1, <1>3, <2>1 DEF Moved
<1> QED BY <1>1, <1>4, <1>5

\* Where the properties of a proxy come from.
PropsFrom(o) ==
    \/ props'[o] \in {props[o], 0}
    \/ events # <<>> /\ Head(events).object = o /\ props'[o] = Head(events).version
    \/ replies # <<>> /\ props'[o] = Head(replies).seen[o]

LEMMA Unmoved ==
    ASSUME TypeOK, UNCHANGED maps
    PROVE  MapsOK' /\ \A o \in Objects : Moved(o) /\ PropsFrom(o)
<1>1. /\ proxy' = proxy /\ made' = made /\ props' = props /\ revision' = revision
      /\ announced' = announced /\ wanted' = wanted
  BY DEF maps
<1>2. MapsOK'
  BY <1>1 DEF TypeOK, MapsOK, Versions
<1>3. ASSUME NEW o \in Objects PROVE Moved(o)
  BY <1>1, <1>3 DEF TypeOK, Moved
<1> QED BY <1>1, <1>2, <1>3 DEF PropsFrom

\* What the queues hold, one by one.
LEMMA Heads ==
    ASSUME TypeOK
    PROVE  /\ events # <<>> => Head(events) \in Event /\ Tail(events) \in Seq(Event)
           /\ asked # <<>> => Head(asked) \in Fetch /\ Tail(asked) \in Seq(Fetch)
           /\ replies # <<>> => /\ Head(replies) \in Reply /\ Tail(replies) \in Seq(Reply)
                               /\ Head(replies).fetch \in Fetch
<1>1. /\ events # <<>> => Head(events) \in Event /\ Tail(events) \in Seq(Event)
      /\ asked # <<>> => Head(asked) \in Fetch /\ Tail(asked) \in Seq(Fetch)
      /\ replies # <<>> => Head(replies) \in Reply /\ Tail(replies) \in Seq(Reply)
  BY Taken DEF TypeOK
<1>2. \A r \in Reply : r.fetch \in Fetch
  BY DEF Reply
<1> QED BY <1>1, <1>2

LEMMA MapsStep ==
    ASSUME TypeOK, [Next]_vars
    PROVE  MapsOK' /\ \A o \in Objects : Moved(o) /\ PropsFrom(o)
<1> DEFINE Goal == MapsOK' /\ \A o \in Objects : Moved(o) /\ PropsFrom(o)
<1>0. MapsOK
  BY DEF TypeOK, MapsOK, Versions
<1> SUFFICES Goal
  OBVIOUS
<1>1. CASE HandleProperties
  <2>1. CASE closed
    BY <1>1, <2>1, Unmoved DEF HandleProperties
  <2>2. CASE ~closed
    <3> DEFINE e == Head(events)
               v == [o \in Objects |-> e.version]
    <3>1. events # <<>> /\ e.object \in Objects /\ e.version \in Nat
      BY <1>1, Heads DEF HandleProperties, Event
    <3>2. v \in Versions
      BY <3>1 DEF Versions
    <3>3. /\ Updated({e.object}, v) /\ wanted' = wanted
          /\ announced' \subseteq announced \cup {e.object}
      BY <1>1, <2>2 DEF HandleProperties
    <3>4. wanted' \subseteq Objects /\ {e.object} \in SUBSET Objects
      BY <1>0, <3>1, <3>3 DEF MapsOK
    <3> HIDE DEF v
    <3>5. MapsOK' /\ \A o \in Objects : /\ Moved(o)
              /\ props'[o] = IF o \in {e.object} THEN v[o] ELSE props[o]
      BY <1>0, <3>2, <3>3, <3>4, UpdatedMoves
    <3>6. \A o \in Objects : v[o] = e.version
      BY DEF v
    <3> QED BY <3>1, <3>5, <3>6 DEF PropsFrom
  <2> QED BY <2>1, <2>2
<1>2. CASE HandleRemoved
  <2>1. CASE closed
    BY <1>2, <2>1, Unmoved DEF HandleRemoved
  <2>2. CASE ~closed
    <3>1. Disposed({Head(events).object}) /\ Head(events).object \in Objects
      BY <1>2, <2>2, Heads DEF HandleRemoved, Event
    <3>2. MapsOK' /\ \A o \in Objects : Moved(o) /\ props'[o] \in {props[o], 0}
      BY <1>0, <3>1, DisposedMoves
    <3> QED BY <3>2 DEF PropsFrom
  <2> QED BY <2>1, <2>2
<1>3. ASSUME NEW o \in Objects, GetProxy(o) PROVE Goal
  <2>1. /\ Made({o}) /\ props' = props /\ revision' = revision
        /\ announced' = announced /\ wanted' = wanted \cup {o}
    BY <1>3 DEF GetProxy
  <2>2. MapsOK'
    BY <1>0, <2>1, MadeMoves DEF MapsOK
  <2>3. ASSUME NEW q \in Objects PROVE Moved(q)
    <3>1. /\ made[q] \in Nat /\ made'[q] \in Nat /\ revision[q] \in Nat
          /\ made[q] <= made'[q] /\ (proxy'[q] \in {0, proxy[q]} \/ proxy'[q] > made[q])
      BY <1>0, <2>1, MadeMoves DEF MapsOK, Versions
    <3> QED BY <2>1, <3>1 DEF Moved
  <2> QED BY <2>1, <2>2, <2>3 DEF PropsFrom
<1>4. ASSUME NEW o \in Objects, Refresh(o) PROVE Goal
  <2>1. /\ proxy' = proxy /\ made' = made /\ props' = props
        /\ announced' = announced /\ wanted' = wanted
        /\ revision' = [revision EXCEPT ![o] = @ + 1]
    BY <1>4 DEF Refresh
  <2>2. revision' \in Versions
    BY <1>0, <2>1 DEF MapsOK, Versions
  <2>3. MapsOK'
    BY <1>0, <2>1, <2>2 DEF MapsOK
  <2>4. ASSUME NEW q \in Objects PROVE Moved(q)
    BY <1>0, <2>1 DEF Moved, MapsOK, Versions
  <2> QED BY <2>1, <2>3, <2>4 DEF PropsFrom
<1>5. ASSUME NEW f \in Folders, List(f) PROVE Goal
  BY <1>5, Unmoved DEF List
<1>6. CASE ApplyRefresh
  <2> DEFINE r == Head(replies)
             o == r.fetch.object
  <2>1. replies # <<>> /\ r \in Reply /\ o \in Objects /\ r.seen \in Versions
    BY <1>6, Heads DEF ApplyRefresh, Reply, Fetch, Versions
  <2>2. CASE UNCHANGED maps
    BY <2>2, Unmoved
  <2>3. CASE Updated({o}, r.seen) /\ UNCHANGED <<announced, wanted>>
    <3>1. wanted' \subseteq Objects /\ {o} \in SUBSET Objects
      BY <1>0, <2>1, <2>3 DEF MapsOK
    <3>2. MapsOK' /\ \A q \in Objects : /\ Moved(q)
            /\ props'[q] = IF q \in {o} THEN r.seen[q] ELSE props[q]
      BY <1>0, <2>1, <2>3, <3>1, UpdatedMoves
    <3> QED BY <2>1, <3>2 DEF PropsFrom
  <2> QED BY <1>6, <2>2, <2>3 DEF ApplyRefresh
<1>7. CASE ApplyList
  <2> DEFINE r == Head(replies)
             S == {o \in r.found : r.seen[o] # 0}
  <2>1. replies # <<>> /\ r \in Reply /\ S \in SUBSET Objects /\ r.seen \in Versions
    BY <1>7, Heads DEF ApplyList, Reply, Versions
  <2>2. CASE UNCHANGED maps
    BY <2>2, Unmoved
  <2>3. CASE Updated(S, r.seen) /\ wanted' = wanted \cup S /\ announced' = announced
    <3> HIDE DEF S
    <3>1. wanted' \subseteq Objects
      BY <1>0, <2>1, <2>3 DEF MapsOK
    <3>2. MapsOK' /\ \A q \in Objects : /\ Moved(q)
            /\ props'[q] = IF q \in S THEN r.seen[q] ELSE props[q]
      BY <1>0, <2>1, <2>3, <3>1, UpdatedMoves
    <3> QED BY <2>1, <3>2 DEF PropsFrom
  <2> QED BY <1>7, <2>2, <2>3 DEF ApplyList
<1>8. CASE Close
  <2>1. MapsOK' /\ \A o \in Objects : Moved(o) /\ props'[o] = 0
    BY <1>0, <1>8, DisposedMoves DEF Close
  <2> QED BY <2>1 DEF PropsFrom
<1>9. ASSUME NEW o \in Objects, NEW present \in BOOLEAN, Change(o, present) PROVE Goal
  BY <1>9, Unmoved DEF Change
<1>10. CASE Answer
  BY <1>10, Unmoved DEF Answer
<1>11. CASE UNCHANGED vars
  BY <1>11, Unmoved DEF vars
<1> QED
  BY <1>1, <1>2, <1>3, <1>4, <1>5, <1>6, <1>7, <1>8, <1>9, <1>10, <1>11 DEF Next

----------------------------------------------------------------------------
(* Types                                                                   *)

Spending == [fetches : 0..MaxFetches, lists : 0..MaxLists, gets : 0..MaxGets]

\* A fetch that is put is a fetch.
LEMMA AskType ==
    ASSUME TypeOK, NEW o \in Objects, proxy[o] # 0, NEW type \in {"refresh", "list"},
           NEW n \in Nat
    PROVE  [type |-> type, object |-> o, proxy |-> proxy[o], revision |-> n] \in Fetch
BY DEF TypeOK, Fetch

LEMMA SpendType ==
    ASSUME TypeOK
    PROVE  /\ spent.fetches < MaxFetches =>
                [spent EXCEPT !.fetches = @ + 1] \in Spending
           /\ spent.lists < MaxLists => [spent EXCEPT !.lists = @ + 1] \in Spending
           /\ spent.gets < MaxGets => [spent EXCEPT !.gets = @ + 1] \in Spending
<1>1. spent \in Spending /\ spent.fetches \in Nat /\ spent.lists \in Nat /\ spent.gets \in Nat
  BY DEF TypeOK, Spending
<1>2. ASSUME spent.fetches < MaxFetches PROVE spent.fetches + 1 \in 0..MaxFetches
  BY <1>1, <1>2, ProxyAssumption
<1>3. ASSUME spent.lists < MaxLists PROVE spent.lists + 1 \in 0..MaxLists
  BY <1>1, <1>3, ProxyAssumption
<1>4. ASSUME spent.gets < MaxGets PROVE spent.gets + 1 \in 0..MaxGets
  BY <1>1, <1>4, ProxyAssumption
<1> QED BY <1>1, <1>2, <1>3, <1>4 DEF Spending

\* The queues keep their types.
LEMMA QueueTypeStep ==
    ASSUME TypeOK, [Next]_vars
    PROVE  events' \in Seq(Event) /\ asked' \in Seq(Fetch) /\ replies' \in Seq(Reply)
<1> DEFINE Goal == events' \in Seq(Event) /\ asked' \in Seq(Fetch) /\ replies' \in Seq(Reply)
<1>0. events \in Seq(Event) /\ asked \in Seq(Fetch) /\ replies \in Seq(Reply)
  BY DEF TypeOK
<1> SUFFICES Goal
  OBVIOUS
<1>1. CASE HandleProperties
  BY <1>0, <1>1, Heads DEF HandleProperties
<1>2. CASE HandleRemoved
  BY <1>0, <1>2, Heads DEF HandleRemoved
<1>3. ASSUME NEW o \in Objects, GetProxy(o) PROVE Goal
  BY <1>0, <1>3 DEF GetProxy
<1>4. ASSUME NEW o \in Objects, Refresh(o) PROVE Goal
  <2> DEFINE f == [type |-> "refresh", object |-> o, proxy |-> proxy[o],
                   revision |-> revision[o] + 1]
  <2>1. revision[o] + 1 \in Nat
    BY DEF TypeOK
  <2>2. f \in Fetch
    BY <1>4, <2>1, AskType DEF Refresh
  <2>3. asked' = Append(asked, f) /\ events' = events /\ replies' = replies
    BY <1>4 DEF Refresh, Ask
  <2> HIDE DEF f
  <2> QED BY <1>0, <2>2, <2>3, Put
<1>5. ASSUME NEW o \in Folders, List(o) PROVE Goal
  <2> DEFINE f == [type |-> "list", object |-> o, proxy |-> proxy[o], revision |-> 0]
  <2>1. f \in Fetch
    BY <1>5, AskType, ProxyAssumption DEF List
  <2>2. asked' = Append(asked, f) /\ events' = events /\ replies' = replies
    BY <1>5 DEF List, Ask
  <2> HIDE DEF f
  <2> QED BY <1>0, <2>1, <2>2, Put
<1>6. CASE ApplyRefresh
  BY <1>0, <1>6, Heads DEF ApplyRefresh
<1>7. CASE ApplyList
  BY <1>0, <1>7, Heads DEF ApplyList
<1>8. CASE Close
  BY <1>0, <1>8 DEF Close
<1>9. ASSUME NEW o \in Objects, NEW present \in BOOLEAN, Change(o, present) PROVE Goal
  <2> DEFINE e == [object |-> o, version |-> version'[o]]
  <2>1. e \in Event
    BY <1>9 DEF Change, TypeOK, Event
  <2>2. events' = Append(events, e) /\ asked' = asked /\ replies' = replies
    BY <1>9 DEF Change
  <2> HIDE DEF e
  <2> QED BY <1>0, <2>1, <2>2, Put
<1>10. CASE Answer
  <2>1. Head(asked) \in Fetch /\ asked' \in Seq(Fetch) /\ events' = events
    BY <1>10, Heads DEF Answer
  <2>2. PICK found \in SUBSET Objects :
          replies' = Append(replies, [fetch |-> Head(asked), seen |-> version,
                                      found |-> found])
    BY <1>10 DEF Answer, Present
  <2> DEFINE r == [fetch |-> Head(asked), seen |-> version, found |-> found]
  <2>3. r \in Reply
    BY <2>1 DEF TypeOK, Reply
  <2>4. replies' = Append(replies, r)
    BY <2>2
  <2> HIDE DEF r
  <2> QED BY <1>0, <2>1, <2>3, <2>4, Put
<1>11. CASE UNCHANGED vars
  BY <1>0, <1>11 DEF vars
<1> QED
  BY <1>1, <1>2, <1>3, <1>4, <1>5, <1>6, <1>7, <1>8, <1>9, <1>10, <1>11 DEF Next

\* So do BlueZ's versions, the bounds and _closed.
LEMMA RestTypeStep ==
    ASSUME TypeOK, [Next]_vars
    PROVE  /\ changes' \in 0..MaxChanges /\ version' \in Versions
           /\ spent' \in Spending /\ closed' \in BOOLEAN
<1> DEFINE Goal == /\ changes' \in 0..MaxChanges /\ version' \in Versions
                   /\ spent' \in Spending /\ closed' \in BOOLEAN
<1>0. /\ changes \in 0..MaxChanges /\ version \in Versions
      /\ spent \in Spending /\ closed \in BOOLEAN
  BY DEF TypeOK, Versions, Spending
<1> SUFFICES Goal
  OBVIOUS
<1>1. CASE HandleProperties
  BY <1>0, <1>1 DEF HandleProperties, bluez
<1>2. CASE HandleRemoved
  BY <1>0, <1>2 DEF HandleRemoved, bluez
<1>3. ASSUME NEW o \in Objects, GetProxy(o) PROVE Goal
  BY <1>0, <1>3, SpendType DEF GetProxy, bluez
<1>4. ASSUME NEW o \in Objects, Refresh(o) PROVE Goal
  BY <1>0, <1>4, SpendType DEF Refresh, bluez
<1>5. ASSUME NEW o \in Folders, List(o) PROVE Goal
  BY <1>0, <1>5, SpendType DEF List, bluez
<1>6. CASE ApplyRefresh
  BY <1>0, <1>6 DEF ApplyRefresh, bluez
<1>7. CASE ApplyList
  BY <1>0, <1>7 DEF ApplyList, bluez
<1>8. CASE Close
  BY <1>0, <1>8 DEF Close, bluez
<1>9. ASSUME NEW o \in Objects, NEW present \in BOOLEAN, Change(o, present) PROVE Goal
  <2>1. changes' \in 0..MaxChanges /\ changes' \in Nat
    BY <1>0, <1>9, ProxyAssumption DEF Change
  <2>2. version' \in Versions
    BY <1>0, <1>9, <2>1 DEF Change, Versions
  <2> QED BY <1>0, <1>9, <2>1, <2>2 DEF Change
<1>10. CASE Answer
  BY <1>0, <1>10 DEF Answer, bluez
<1>11. CASE UNCHANGED vars
  BY <1>0, <1>11 DEF vars, bluez
<1> QED
  BY <1>1, <1>2, <1>3, <1>4, <1>5, <1>6, <1>7, <1>8, <1>9, <1>10, <1>11 DEF Next

LEMMA TypeStep == ASSUME TypeOK, [Next]_vars PROVE TypeOK'
BY MapsStep, QueueTypeStep, RestTypeStep DEF TypeOK, MapsOK, Versions, Spending

----------------------------------------------------------------------------
(* What a step does to BlueZ, to the queues and to what they hold          *)

LEMMA BluezStep ==
    ASSUME TypeOK, [Next]_vars
    PROVE  /\ changes <= changes'
           /\ \A o \in Objects : version'[o] \in {version[o], 0, changes'}
<1> DEFINE Goal == /\ changes <= changes'
                   /\ \A o \in Objects : version'[o] \in {version[o], 0, changes'}
<1>a. UNCHANGED bluez => Goal
  BY DEF bluez, TypeOK
<1> SUFFICES Goal
  OBVIOUS
<1>1. ASSUME NEW o \in Objects, NEW present \in BOOLEAN, Change(o, present) PROVE Goal
  BY <1>1 DEF Change, TypeOK
<1>2. CASE \E o \in Objects : GetProxy(o) \/ Refresh(o)
  BY <1>a, <1>2 DEF GetProxy, Refresh
<1>3. CASE \E o \in Folders : List(o)
  BY <1>a, <1>3 DEF List
<1>4. CASE HandleProperties \/ HandleRemoved \/ ApplyRefresh \/ ApplyList
  BY <1>a, <1>4 DEF HandleProperties, HandleRemoved, ApplyRefresh, ApplyList
<1>5. CASE Close \/ Answer \/ UNCHANGED vars
  BY <1>a, <1>5 DEF Close, Answer, vars
<1> QED
  BY <1>1, <1>2, <1>3, <1>4, <1>5 DEF Next

\* The versions are numbers before and after a step.
LEMMA Numbers ==
    ASSUME TypeOK, [Next]_vars
    PROVE  /\ changes \in Nat /\ changes' \in Nat
           /\ \A o \in Objects : /\ version[o] \in Nat /\ version'[o] \in Nat
                                 /\ props[o] \in Nat /\ props'[o] \in Nat
<1>1. changes \in 0..MaxChanges /\ version \in Versions /\ props \in Versions
  BY DEF TypeOK, Versions
<1>2. changes' \in 0..MaxChanges /\ version' \in Versions /\ props' \in Versions
  BY RestTypeStep, MapsStep DEF MapsOK
<1> QED BY <1>1, <1>2, ProxyAssumption DEF Versions

\* What is behind BlueZ stays behind it.
LEMMA BehindStep ==
    ASSUME TypeOK, Delivered, [Next]_vars, NEW o \in Objects, NEW v \in Nat,
           Behind(v, o)
    PROVE  v <= changes' /\ (version'[o] # 0 => v <= version'[o])
BY Numbers, BluezStep DEF Behind

\* Where the elements of the queues come from.
LEMMA QueueStep ==
    ASSUME TypeOK, [Next]_vars
    PROVE  /\ \A e \in Range(events') :
                e \in Range(events) \/ e.version = version'[e.object]
           /\ \A f \in Range(asked') :
                \/ f \in Range(asked)
                \/ /\ proxy' = proxy /\ made' = made /\ f.proxy = proxy[f.object]
                   /\ f.revision <= revision'[f.object]
                   /\ f.type = "list" => spent'.lists # 0
           /\ \A r \in Range(replies') :
                \/ r \in Range(replies)
                \/ UNCHANGED maps /\ r.fetch \in Range(asked) /\ r.seen = version
<1> DEFINE E(S) == \A e \in S : e \in Range(events) \/ e.version = version'[e.object]
           F(S) == \A f \in S :
                     \/ f \in Range(asked)
                     \/ /\ proxy' = proxy /\ made' = made /\ f.proxy = proxy[f.object]
                        /\ f.revision <= revision'[f.object]
                        /\ f.type = "list" => spent'.lists # 0
           R(S) == \A r \in S :
                     \/ r \in Range(replies)
                     \/ UNCHANGED maps /\ r.fetch \in Range(asked) /\ r.seen = version
           Goal == E(Range(events')) /\ F(Range(asked')) /\ R(Range(replies'))
<1>0. events \in Seq(Event) /\ asked \in Seq(Fetch) /\ replies \in Seq(Reply)
  BY DEF TypeOK
<1>a. E(Range(events)) /\ F(Range(asked)) /\ R(Range(replies))
  OBVIOUS
<1>b. events # <<>> => E(Range(Tail(events)))
  BY <1>0, Taken
<1>c. replies # <<>> => R(Range(Tail(replies)))
  BY <1>0, Taken
<1> SUFFICES Goal
  OBVIOUS
<1> HIDE DEF E, F, R
<1>1. CASE HandleProperties
  BY <1>1, <1>a, <1>b DEF HandleProperties
<1>2. CASE HandleRemoved
  BY <1>2, <1>a, <1>b DEF HandleRemoved
<1>3. ASSUME NEW o \in Objects, GetProxy(o) PROVE Goal
  BY <1>3, <1>a DEF GetProxy
<1>4. ASSUME NEW o \in Objects, Refresh(o) PROVE Goal
  <2> DEFINE f == [type |-> "refresh", object |-> o, proxy |-> proxy[o],
                   revision |-> revision[o] + 1]
  <2>1. revision[o] + 1 \in Nat /\ revision'[o] = revision[o] + 1
    BY <1>4 DEF TypeOK, Refresh
  <2>2. f \in Fetch
    BY <1>4, <2>1, AskType DEF Refresh
  <2>3. /\ asked' = Append(asked, f) /\ events' = events /\ replies' = replies
        /\ proxy' = proxy /\ made' = made
    BY <1>4 DEF Refresh, Ask
  <2>4. /\ f.proxy = proxy[f.object] /\ f.revision <= revision'[f.object]
        /\ f.type # "list"
    BY <2>1
  <2> HIDE DEF f
  <2>5. Range(asked') = Range(asked) \cup {f}
    BY <1>0, <2>2, <2>3, Put
  <2>6. F(Range(asked'))
    BY <2>3, <2>4, <2>5 DEF F
  <2> QED BY <1>a, <2>3, <2>6
<1>5. ASSUME NEW o \in Folders, List(o) PROVE Goal
  <2> DEFINE f == [type |-> "list", object |-> o, proxy |-> proxy[o], revision |-> 0]
  <2>1. o \in Objects
    BY ProxyAssumption
  <2>2. f \in Fetch
    BY <1>5, <2>1, AskType DEF List
  <2>3. /\ asked' = Append(asked, f) /\ events' = events /\ replies' = replies
        /\ proxy' = proxy /\ made' = made /\ revision' = revision
    BY <1>5 DEF List, Ask, maps
  <2>4. spent'.lists = spent.lists + 1 /\ spent.lists \in Nat
    BY <1>5 DEF List, TypeOK
  <2>5. /\ f.proxy = proxy[f.object] /\ f.revision <= revision'[f.object]
        /\ spent'.lists # 0
    BY <2>1, <2>3, <2>4 DEF TypeOK
  <2> HIDE DEF f
  <2>6. Range(asked') = Range(asked) \cup {f}
    BY <1>0, <2>2, <2>3, Put
  <2>7. F(Range(asked'))
    BY <2>3, <2>5, <2>6 DEF F
  <2> QED BY <1>a, <2>3, <2>7
<1>6. CASE ApplyRefresh
  BY <1>6, <1>a, <1>c DEF ApplyRefresh
<1>7. CASE ApplyList
  BY <1>7, <1>a, <1>c DEF ApplyList
<1>8. CASE Close
  BY <1>8, <1>a DEF Close
<1>9. ASSUME NEW o \in Objects, NEW present \in BOOLEAN, Change(o, present) PROVE Goal
  <2> DEFINE e == [object |-> o, version |-> version'[o]]
  <2>1. e \in Event
    BY <1>9 DEF Change, TypeOK, Event
  <2>2. events' = Append(events, e) /\ asked' = asked /\ replies' = replies
    BY <1>9 DEF Change
  <2>3. e.version = version'[e.object]
    OBVIOUS
  <2> HIDE DEF e
  <2>4. Range(events') = Range(events) \cup {e}
    BY <1>0, <2>1, <2>2, Put
  <2>5. E(Range(events'))
    BY <2>3, <2>4 DEF E
  <2> QED BY <1>a, <2>2, <2>5
<1>10. CASE Answer
  <2>1. Head(asked) \in Fetch /\ asked # <<>> /\ events' = events
    BY <1>10, Heads DEF Answer
  <2>2. PICK found \in SUBSET Objects :
          replies' = Append(replies, [fetch |-> Head(asked), seen |-> version,
                                      found |-> found])
    BY <1>10 DEF Answer, Present
  <2> DEFINE r == [fetch |-> Head(asked), seen |-> version, found |-> found]
  <2>3. r \in Reply /\ r.fetch = Head(asked) /\ r.seen = version
    BY <2>1 DEF TypeOK, Reply
  <2>4. replies' = Append(replies, r)
    BY <2>2
  <2> HIDE DEF r
  <2>5. Range(replies') = Range(replies) \cup {r}
    BY <1>0, <2>3, <2>4, Put
  <2>6. Head(asked) \in Range(asked) /\ Range(asked') \subseteq Range(asked)
    BY <1>0, <1>10, <2>1, Taken DEF Answer
  <2>7. UNCHANGED maps
    BY <1>10 DEF Answer
  <2>8. R(Range(replies'))
    BY <2>3, <2>5, <2>6, <2>7 DEF R
  <2>9. F(Range(asked'))
    BY <2>6 DEF F
  <2> QED BY <1>a, <2>1, <2>8, <2>9
<1>11. CASE UNCHANGED vars
  BY <1>11, <1>a DEF vars
<1>12. Goal
  BY <1>1, <1>2, <1>3, <1>4, <1>5, <1>6, <1>7, <1>8, <1>9, <1>10, <1>11 DEF Next
<1> QED BY <1>12

----------------------------------------------------------------------------
(* The steps of the invariant                                              *)

LEMMA DeliveredStep == ASSUME TypeOK, Delivered, [Next]_vars PROVE Delivered'
<1>1. /\ changes \in Nat /\ changes' \in Nat
      /\ \A o \in Objects : /\ version[o] \in Nat /\ version'[o] \in Nat
                            /\ props[o] \in Nat /\ props'[o] \in Nat
  BY Numbers
<1>2. \A o \in Objects : version'[o] <= changes'
  BY <1>1, BluezStep DEF Delivered
<1>3. ASSUME NEW o \in Objects PROVE Behind(props[o], o)'
  <2>1. CASE props'[o] \in {props[o], 0}
    <3>1. Behind(props'[o], o)
      BY <1>1, <2>1 DEF Delivered, Behind
    <3> QED BY <1>1, <3>1, BehindStep DEF Behind
  <2>2. CASE events # <<>> /\ Head(events).object = o /\ props'[o] = Head(events).version
    <3>1. Head(events) \in Range(events) /\ Head(events) \in Event
      BY <2>2, Taken DEF TypeOK
    <3>2. Behind(Head(events).version, o) /\ Head(events).version \in Nat
      BY <2>2, <3>1 DEF Delivered, Event
    <3> QED BY <2>2, <3>2, BehindStep DEF Behind
  <2>3. CASE replies # <<>> /\ props'[o] = Head(replies).seen[o]
    <3>1. Head(replies) \in Range(replies) /\ Head(replies) \in Reply
      BY <2>3, Taken DEF TypeOK
    <3>2. Behind(Head(replies).seen[o], o) /\ Head(replies).seen[o] \in Nat
      BY <3>1 DEF Delivered, Reply
    <3> QED BY <2>3, <3>2, BehindStep DEF Behind
  <2> QED BY <2>1, <2>2, <2>3, MapsStep DEF PropsFrom
<1>4. ASSUME NEW e \in Range(events') PROVE Behind(e.version, e.object)'
  <2>1. e \in Event
    BY <1>4, TypeStep, InRange DEF TypeOK
  <2>2. e.object \in Objects /\ e.version \in Nat
    BY <2>1 DEF Event
  <2>3. CASE e \in Range(events)
    <3>1. Behind(e.version, e.object)
      BY <2>3 DEF Delivered
    <3> QED BY <2>2, <3>1, BehindStep DEF Behind
  <2>4. CASE e.version = version'[e.object]
    BY <1>1, <1>2, <2>2, <2>4 DEF Behind
  <2> QED BY <1>4, <2>3, <2>4, QueueStep
<1>5. ASSUME NEW r \in Range(replies'), NEW o \in Objects PROVE Behind(r.seen[o], o)'
  <2>1. r \in Reply
    BY <1>5, TypeStep, InRange DEF TypeOK
  <2>2. r.seen[o] \in Nat
    BY <2>1 DEF Reply
  <2>3. CASE r \in Range(replies)
    <3>1. Behind(r.seen[o], o)
      BY <2>3 DEF Delivered
    <3> QED BY <2>2, <3>1, BehindStep DEF Behind
  <2>4. CASE r.seen = version
    <3>1. Behind(version[o], o)
      BY <1>1 DEF Delivered, Behind
    <3> QED BY <1>1, <2>4, <3>1, BehindStep DEF Behind
  <2> QED BY <1>5, <2>3, <2>4, QueueStep
<1> QED BY <1>2, <1>3, <1>4, <1>5 DEF Delivered

\* A fetch that is known stays known, whatever happens to its proxy.
LEMMA KnownStep ==
    ASSUME TypeOK, [Next]_vars, NEW f \in Fetch, Known(f), spent.lists # 0 => spent'.lists # 0
    PROVE  Known(f)'
<1> DEFINE o == f.object
<1>1. /\ o \in Objects /\ f.proxy \in Nat \ {0} /\ f.revision \in Nat
      /\ made[o] \in Nat /\ made'[o] \in Nat /\ proxy[o] \in Nat /\ proxy'[o] \in Nat
      /\ revision[o] \in Nat /\ revision'[o] \in Nat
  BY MapsStep DEF TypeOK, Fetch, MapsOK, Versions
<1>2. Moved(o)
  BY <1>1, MapsStep
<1>3. f.proxy <= made'[o]
  BY <1>1, <1>2 DEF Known, Moved
<1>4. proxy'[o] = f.proxy => proxy[o] = f.proxy
  BY <1>1, <1>2 DEF Known, Moved
<1>5. proxy'[o] = f.proxy => f.revision <= revision'[o]
  BY <1>1, <1>2, <1>4 DEF Known, Moved
<1> QED BY <1>3, <1>5 DEF Known

LEMMA ListsGrow == ASSUME TypeOK, [Next]_vars, spent.lists # 0 PROVE spent'.lists # 0
<1>0. spent.lists \in Nat
  BY DEF TypeOK
<1>1. ASSUME NEW o \in Objects, GetProxy(o) PROVE spent'.lists # 0
  BY <1>1 DEF GetProxy, TypeOK
<1>2. ASSUME NEW o \in Objects, Refresh(o) PROVE spent'.lists # 0
  BY <1>2 DEF Refresh, TypeOK
<1>3. ASSUME NEW f \in Folders, List(f) PROVE spent'.lists # 0
  BY <1>0, <1>3 DEF List, TypeOK
<1>4. CASE HandleProperties \/ HandleRemoved \/ ApplyRefresh \/ ApplyList
  BY <1>4 DEF HandleProperties, HandleRemoved, ApplyRefresh, ApplyList
<1>5. CASE Close \/ Answer \/ UNCHANGED vars
  BY <1>5 DEF Close, Answer, vars
<1>6. ASSUME NEW o \in Objects, NEW present \in BOOLEAN, Change(o, present)
      PROVE  spent'.lists # 0
  BY <1>6 DEF Change
<1> QED BY <1>1, <1>2, <1>3, <1>4, <1>5, <1>6 DEF Next

LEMMA AskedStep == ASSUME TypeOK, Asked, [Next]_vars PROVE Asked'
<1>1. ASSUME NEW f \in Range(asked') PROVE Known(f)'
  <2>1. f \in Fetch
    BY <1>1, QueueTypeStep, InRange
  <2>2. CASE f \in Range(asked)
    BY <2>1, <2>2, KnownStep, ListsGrow DEF Asked
  <2>3. CASE /\ proxy' = proxy /\ made' = made /\ f.proxy = proxy[f.object]
             /\ f.revision <= revision'[f.object]
             /\ f.type = "list" => spent'.lists # 0
    <3>1. f.proxy <= made'[f.object]
      BY <2>1, <2>3 DEF TypeOK, Fetch
    <3> QED BY <2>3, <3>1 DEF Known
  <2> QED BY <1>1, <2>2, <2>3, QueueStep
<1>2. ASSUME NEW r \in Range(replies') PROVE Known(r.fetch)'
  <2>1. r.fetch \in Fetch
    <3>1. r \in Reply
      BY <1>2, QueueTypeStep, InRange
    <3> QED BY <3>1 DEF Reply
  <2>2. Known(r.fetch)
    BY <1>2, QueueStep DEF Asked
  <2> QED BY <2>1, <2>2, KnownStep, ListsGrow
<1> QED BY <1>1, <1>2 DEF Asked

LEMMA CurrentStep ==
    ASSUME TypeOK, Delivered, Asked, Current, [Next]_vars PROVE Current'
<1> SUFFICES ASSUME NEW r \in Range(replies') PROVE Newer(r)'
  BY DEF Current
<1> DEFINE f == r.fetch
           o == f.object
<1>1. r \in Reply /\ f \in Fetch /\ o \in Objects /\ f.proxy # 0
  <2>1. r \in Reply
    BY QueueTypeStep, InRange
  <2>2. f \in Fetch
    BY <2>1 DEF Reply
  <2> QED BY <2>1, <2>2 DEF Fetch
<1>2. CASE r \in Range(replies)
  <2>1. Newer(r) /\ Known(f) /\ Moved(o)
    BY <1>1, <1>2, MapsStep DEF Current, Asked
  <2>2. /\ f.proxy \in Nat /\ f.revision \in Nat /\ made[o] \in Nat
        /\ proxy[o] \in Nat /\ proxy'[o] \in Nat
        /\ revision[o] \in Nat /\ revision'[o] \in Nat
    BY <1>1, MapsStep DEF TypeOK, Fetch, MapsOK, Versions
  <2> SUFFICES ASSUME f.type = "refresh", proxy'[o] = f.proxy,
                      revision'[o] = f.revision, r.seen[o] # 0
               PROVE  props'[o] <= r.seen[o]
    BY DEF Newer
  <2>3. proxy[o] = f.proxy
    BY <1>1, <2>1, <2>2 DEF Known, Moved
  <2>4. revision[o] = f.revision /\ props'[o] = props[o]
    BY <1>1, <2>1, <2>2, <2>3 DEF Known, Moved
  <2> QED BY <2>1, <2>3, <2>4 DEF Newer
<1>3. CASE UNCHANGED maps /\ r.seen = version
  BY <1>1, <1>3 DEF maps, Newer, Delivered, Behind
<1> QED BY <1>2, <1>3, QueueStep

LEMMA LastEventStep == ASSUME TypeOK, LastEvent, [Next]_vars PROVE LastEvent'
<1> SUFFICES ASSUME NEW o \in Objects PROVE Latest(events', o, version'[o])
  BY DEF LastEvent
<1>0. events \in Seq(Event) /\ Latest(events, o, version[o])
  BY DEF TypeOK, LastEvent
<1> DEFINE Goal == Latest(events', o, version'[o])
<1>a. UNCHANGED bluez /\ events' = events => Goal
  BY <1>0 DEF bluez
<1>b. UNCHANGED bluez /\ events # <<>> /\ events' = Tail(events) => Goal
  BY <1>0, TakenLatest DEF bluez
<1> HIDE DEF Goal
<1> SUFFICES Goal
  BY DEF Goal
<1>1. CASE HandleProperties \/ HandleRemoved
  BY <1>b, <1>1 DEF HandleProperties, HandleRemoved
<1>2. CASE \E q \in Objects : GetProxy(q) \/ Refresh(q)
  BY <1>a, <1>2 DEF GetProxy, Refresh
<1>3. CASE \E f \in Folders : List(f)
  BY <1>a, <1>3 DEF List
<1>4. CASE ApplyRefresh \/ ApplyList
  BY <1>a, <1>4 DEF ApplyRefresh, ApplyList
<1>5. CASE Close \/ Answer \/ UNCHANGED vars
  BY <1>a, <1>5 DEF Close, Answer, vars
<1>6. ASSUME NEW q \in Objects, NEW present \in BOOLEAN, Change(q, present) PROVE Goal
  <2> DEFINE e == [object |-> q, version |-> version'[q]]
  <2>1. e \in Event /\ (q # o => version'[o] = version[o])
    BY <1>6 DEF Change, TypeOK, Event
  <2>2. events' = Append(events, e)
    BY <1>6 DEF Change
  <2>3. e.object = q /\ e.version = version'[q]
    OBVIOUS
  <2> HIDE DEF e
  <2>4. IF e.object = o THEN e.version = version'[o] ELSE Latest(events, o, version'[o])
    BY <1>0, <2>1, <2>3
  <2> QED BY <1>0, <2>1, <2>2, <2>4, PutLatest DEF Goal
<1> QED BY <1>1, <1>2, <1>3, <1>4, <1>5, <1>6 DEF Next

LEMMA ClosedStep == ASSUME TypeOK, ClosedIsEmpty, [Next]_vars PROVE ClosedIsEmpty'
<1> SUFFICES ASSUME closed' PROVE \A o \in Objects : proxy'[o] = 0
  BY DEF ClosedIsEmpty
<1> DEFINE Goal == \A o \in Objects : proxy'[o] = 0
<1>a. closed' = closed /\ UNCHANGED maps => Goal
  BY DEF ClosedIsEmpty, maps
<1>b. replies # <<>> => /\ Head(replies).fetch.proxy # 0
                        /\ Head(replies).fetch.object \in Objects
  BY Heads DEF Fetch
<1>1. CASE HandleProperties \/ HandleRemoved
  BY <1>a, <1>1 DEF HandleProperties, HandleRemoved
<1>2. CASE \E o \in Objects : GetProxy(o) \/ Refresh(o)
  BY <1>2 DEF GetProxy, Refresh, Ask
<1>3. CASE \E f \in Folders : List(f)
  BY <1>3 DEF List, Ask
<1>4. CASE ApplyRefresh
  BY <1>a, <1>b, <1>4 DEF ApplyRefresh, ClosedIsEmpty
<1>5. CASE ApplyList
  BY <1>a, <1>b, <1>5 DEF ApplyList, ClosedIsEmpty
<1>6. CASE Close
  BY <1>6 DEF Close, Disposed
<1>7. CASE Answer \/ UNCHANGED vars
  BY <1>a, <1>7 DEF Answer, vars
<1>8. ASSUME NEW o \in Objects, NEW present \in BOOLEAN, Change(o, present) PROVE Goal
  BY <1>a, <1>8 DEF Change
<1> QED BY <1>1, <1>2, <1>3, <1>4, <1>5, <1>6, <1>7, <1>8 DEF Next

\* A step that is about other objects leaves o followed.
Spared(o) ==
    /\ proxy'[o] = proxy[o] /\ props'[o] = props[o] /\ version'[o] = version[o]
    /\ o \in announced => o \in announced'
    /\ o \in wanted => o \in wanted'
    /\ closed' = closed /\ (spent'.lists = 0 => spent.lists = 0)
    /\ Settled(o)' => Settled(o)

LEMMA SparedFollowed ==
    ASSUME NEW o, Accounted(o), UpToDate(o), Spared(o)
    PROVE  Accounted(o)' /\ UpToDate(o)'
<1>1. Accounted(o)'
  BY DEF Spared, Accounted
<1>2. UpToDate(o)'
  BY DEF Spared, UpToDate
<1> QED BY <1>1, <1>2

LEMMA FollowedStep == ASSUME IInv, [Next]_vars PROVE Followed'
<1> SUFFICES ASSUME NEW o \in Objects PROVE Accounted(o)' /\ UpToDate(o)'
  BY DEF Followed
<1> DEFINE Goal == Accounted(o)' /\ UpToDate(o)'
<1> HIDE DEF Goal
<1> SUFFICES Goal
  BY DEF Goal
<1>0. TypeOK /\ Accounted(o) /\ UpToDate(o) /\ Latest(events, o, version[o]) /\ MapsOK
  BY DEF IInv, Followed, LastEvent, TypeOK, MapsOK, Versions
<1>a. Spared(o) => Goal
  BY <1>0, SparedFollowed DEF Goal
<1>b. events' = events => (Settled(o)' => Settled(o))
  BY DEF Settled
<1>c. ASSUME events # <<>>, events' = Tail(events)
      PROVE  IF Head(events).object = o
             THEN Settled(o)' => Head(events).version = version[o]
             ELSE Settled(o)' => Settled(o)
  <2>1. Range(events) \subseteq Range(events') \cup {Head(events)}
    BY <1>0, <1>c, Taken DEF TypeOK
  <2>2. CASE Head(events).object = o
    BY <1>0, <1>c, <2>2, TakenLatest DEF TypeOK, Settled
  <2>3. CASE Head(events).object # o
    BY <2>1, <2>3 DEF Settled
  <2> QED BY <2>2, <2>3
<1>1. CASE HandleProperties
  <2> DEFINE e == Head(events)
             v == [q \in Objects |-> e.version]
  <2>1. /\ events # <<>> /\ events' = Tail(events) /\ e.version # 0
        /\ e.object \in Objects /\ e.version \in Nat
        /\ version' = version /\ spent' = spent /\ closed' = closed
    BY <1>0, <1>1, Heads DEF HandleProperties, Event, bluez
  <2>2. CASE closed
    <3>1. UNCHANGED maps
      BY <1>1, <2>2 DEF HandleProperties
    <3> QED BY <1>0, <2>1, <2>2, <3>1 DEF maps, Accounted, UpToDate, Goal
  <2>3. CASE ~closed
    <3>1. /\ Updated({e.object}, v) /\ wanted' = wanted
          /\ announced' = IF proxy[e.object] = 0 THEN announced \cup {e.object}
                                                 ELSE announced
      BY <1>1, <2>3 DEF HandleProperties
    <3>2. v \in Versions /\ \A q \in Objects : v[q] = e.version
      BY <2>1 DEF Versions
    <3>3. wanted' \subseteq Objects /\ announced' \subseteq announced \cup {e.object}
      BY <1>0, <3>1 DEF MapsOK
    <3> HIDE DEF v
    <3>4. /\ props'[o] = IF o = e.object THEN e.version ELSE props[o]
          /\ o = e.object => proxy'[o] # 0
          /\ o # e.object \/ proxy[o] # 0 => proxy'[o] = proxy[o]
      BY <1>0, <2>1, <3>1, <3>2, <3>3, UpdatedMoves
    <3>5. CASE e.object = o
      <4>1. Settled(o)' => e.version = version[o]
        BY <1>c, <2>1, <3>5
      <4>2. o \in announced' \cup wanted'
        BY <1>0, <3>1, <3>5 DEF Accounted
      <4> QED BY <2>1, <3>4, <3>5, <4>1, <4>2 DEF Goal, Accounted, UpToDate
    <3>6. CASE e.object # o
      <4>1. Settled(o)' => Settled(o)
        BY <1>c, <2>1, <3>6
      <4> QED BY <1>a, <2>1, <3>1, <3>4, <3>6, <4>1 DEF Spared
    <3> QED BY <3>5, <3>6
  <2> QED BY <2>2, <2>3
<1>2. CASE HandleRemoved
  <2> DEFINE e == Head(events)
  <2>1. /\ events # <<>> /\ events' = Tail(events) /\ e.version = 0
        /\ e.object \in Objects
        /\ version' = version /\ spent' = spent /\ closed' = closed
    BY <1>0, <1>2, Heads DEF HandleRemoved, Event, bluez
  <2>2. CASE closed
    <3>1. UNCHANGED maps
      BY <1>2, <2>2 DEF HandleRemoved
    <3> QED BY <1>0, <2>1, <2>2, <3>1 DEF maps, Accounted, UpToDate, Goal
  <2>3. CASE ~closed
    <3>1. Disposed({e.object})
      BY <1>2, <2>3 DEF HandleRemoved
    <3>2. /\ o = e.object => proxy'[o] = 0 /\ props'[o] = 0
          /\ o # e.object => proxy'[o] = proxy[o] /\ props'[o] = props[o]
      BY <1>0, <2>1, <3>1, DisposedMoves
    <3>3. CASE e.object = o
      <4>1. Settled(o)' => version[o] = 0
        BY <1>c, <2>1, <3>3
      <4> QED BY <2>1, <3>2, <3>3, <4>1 DEF Goal, Accounted, UpToDate
    <3>4. CASE e.object # o
      <4>1. Settled(o)' => Settled(o)
        BY <1>c, <2>1, <3>4
      <4>2. wanted' = wanted /\ announced' = announced \ {e.object}
        BY <3>1 DEF Disposed
      <4> QED BY <1>a, <2>1, <3>2, <3>4, <4>1, <4>2 DEF Spared
    <3> QED BY <3>3, <3>4
  <2> QED BY <2>2, <2>3
<1>3. ASSUME NEW q \in Objects, GetProxy(q) PROVE Goal
  <2>1. /\ Made({q}) /\ wanted' = wanted \cup {q} /\ props' = props
        /\ announced' = announced /\ version' = version /\ events' = events
        /\ closed' = closed /\ spent'.lists = spent.lists
    BY <1>0, <1>3 DEF GetProxy, bluez, TypeOK
  <2>2. CASE q # o \/ proxy[o] # 0
    <3>1. proxy'[o] = proxy[o]
      BY <1>0, <2>1, <2>2, MadeMoves
    <3> QED BY <1>a, <1>b, <2>1, <3>1 DEF Spared
  <2>3. CASE q = o /\ proxy[o] = 0
    <3>1. proxy'[o] # 0 /\ o \in wanted'
      BY <1>0, <2>1, <2>3, MadeMoves
    <3> QED BY <1>0, <1>b, <2>1, <3>1 DEF Goal, Accounted, UpToDate
  <2> QED BY <2>2, <2>3
<1>4. ASSUME NEW q \in Objects, Refresh(q) PROVE Goal
  <2>1. spent'.lists = spent.lists
    BY <1>0, <1>4 DEF Refresh, TypeOK
  <2> QED BY <1>a, <1>b, <1>4, <2>1 DEF Refresh, Spared, bluez
<1>5. ASSUME NEW f \in Folders, List(f) PROVE Goal
  <2>1. spent'.lists # 0
    BY <1>0, <1>5 DEF List, TypeOK
  <2> QED BY <1>a, <1>b, <1>5, <2>1 DEF List, Spared, bluez, maps
<1>6. CASE ApplyRefresh
  <2> DEFINE r == Head(replies)
             q == r.fetch.object
  <2>1. /\ replies # <<>> /\ r \in Reply /\ r \in Range(replies)
        /\ r.fetch \in Fetch /\ r.fetch.type = "refresh"
        /\ version' = version /\ spent' = spent /\ closed' = closed /\ events' = events
    BY <1>0, <1>6, Taken, Heads DEF ApplyRefresh, TypeOK, bluez
  <2>2. q \in Objects /\ r.seen \in Versions /\ r.fetch.proxy # 0
    BY <2>1 DEF Reply, Fetch, Versions
  <2>3. CASE UNCHANGED maps
    BY <1>a, <1>b, <2>1, <2>3 DEF Spared, maps
  <2>4. CASE /\ r.seen[q] # 0 /\ proxy[q] = r.fetch.proxy
             /\ revision[q] = r.fetch.revision
             /\ Updated({q}, r.seen) /\ UNCHANGED <<announced, wanted>>
    <3>1. wanted' \subseteq Objects /\ {q} \in SUBSET Objects
      BY <1>0, <2>2, <2>4 DEF MapsOK
    <3>2. /\ props'[o] = (IF o = q THEN r.seen[o] ELSE props[o])
          /\ o # q \/ proxy[o] # 0 => proxy'[o] = proxy[o]
      BY <1>0, <2>2, <2>4, <3>1, UpdatedMoves
    <3>3. CASE q # o
      BY <1>a, <1>b, <2>1, <2>4, <3>2, <3>3 DEF Spared
    <3>4. CASE q = o
      <4>1. props[o] <= r.seen[o] /\ Behind(r.seen[o], o)
        BY <2>1, <2>4, <3>4 DEF IInv, Current, Newer, Delivered
      <4>2. props[o] \in Nat /\ r.seen[o] \in Nat /\ version[o] \in Nat
        BY <1>0, <2>2 DEF TypeOK, Versions
      <4>3. version[o] # 0 /\ props[o] = version[o] => r.seen[o] = version[o]
        BY <4>1, <4>2 DEF Behind
      <4>4. proxy'[o] = proxy[o] /\ props'[o] = r.seen[o]
        BY <2>2, <2>4, <3>2, <3>4
      <4>5. Accounted(o)'
        BY <1>0, <1>b, <2>1, <2>4, <4>4 DEF Accounted
      <4>6. UpToDate(o)'
        BY <1>0, <1>b, <2>1, <2>4, <4>3, <4>4 DEF UpToDate
      <4> QED BY <4>5, <4>6 DEF Goal
    <3> QED BY <3>3, <3>4
  <2> QED BY <1>6, <2>3, <2>4 DEF ApplyRefresh
<1>7. CASE ApplyList
  <2> DEFINE r == Head(replies)
             S == {q \in r.found : r.seen[q] # 0}
  <2>1. /\ replies # <<>> /\ r \in Reply /\ r \in Range(replies)
        /\ r.fetch.type = "list" /\ S \in SUBSET Objects /\ r.seen \in Versions
        /\ version' = version /\ spent' = spent /\ closed' = closed /\ events' = events
    BY <1>0, <1>7, Taken, Heads DEF ApplyList, TypeOK, bluez, Reply, Versions
  <2>2. spent.lists # 0
    BY <2>1 DEF IInv, Asked, Known
  <2>3. CASE UNCHANGED maps
    BY <1>a, <1>b, <2>1, <2>3 DEF Spared, maps
  <2>4. CASE Updated(S, r.seen) /\ wanted' = wanted \cup S /\ announced' = announced
    <3> HIDE DEF S
    <3>1. wanted' \subseteq Objects
      BY <1>0, <2>1, <2>4 DEF MapsOK
    <3>2. /\ o \in S => proxy'[o] # 0 /\ o \in wanted'
          /\ o \notin S => proxy'[o] = proxy[o]
      BY <1>0, <2>1, <2>4, <3>1, UpdatedMoves
    <3>3. Accounted(o)'
      BY <1>0, <1>b, <2>1, <2>4, <3>2 DEF Accounted
    <3>4. UpToDate(o)'
      BY <2>1, <2>2 DEF UpToDate
    <3> QED BY <3>3, <3>4 DEF Goal
  <2> QED BY <1>7, <2>3, <2>4 DEF ApplyList
<1>8. CASE Close
  <2>1. closed' /\ proxy'[o] = 0
    BY <1>8 DEF Close, Disposed
  <2> QED BY <2>1 DEF Goal, Accounted, UpToDate
<1>9. ASSUME NEW q \in Objects, NEW present \in BOOLEAN, Change(q, present) PROVE Goal
  <2> DEFINE e == [object |-> q, version |-> version'[q]]
  <2>1. e \in Event
    BY <1>0, <1>9 DEF Change, TypeOK, Event
  <2>2. /\ events' = Append(events, e) /\ (q # o => version'[o] = version[o])
        /\ spent' = spent /\ closed' = closed /\ UNCHANGED maps
    BY <1>0, <1>9 DEF Change, TypeOK
  <2>3. e.object = q
    OBVIOUS
  <2> HIDE DEF e
  <2>4. Range(events') = Range(events) \cup {e}
    BY <1>0, <2>1, <2>2, Put DEF TypeOK
  <2>5. CASE q = o
    <3>1. ~Settled(o)'
      BY <2>3, <2>4, <2>5 DEF Settled
    <3>2. Accounted(o)'
      BY <1>0, <2>2, <3>1 DEF Accounted, maps
    <3> QED BY <3>1, <3>2 DEF Goal, UpToDate
  <2>6. CASE q # o
    <3>1. Settled(o)' => Settled(o)
      BY <2>4 DEF Settled
    <3> QED BY <1>a, <2>2, <2>6, <3>1 DEF Spared, maps
  <2> QED BY <2>5, <2>6
<1>10. CASE Answer \/ UNCHANGED vars
  BY <1>a, <1>b, <1>10 DEF Answer, vars, Spared, bluez, maps
<1> QED
  BY <1>1, <1>2, <1>3, <1>4, <1>5, <1>6, <1>7, <1>8, <1>9, <1>10 DEF Next, IInv

----------------------------------------------------------------------------
(* Theorems                                                                *)

LEMMA QuietSettles == Quiet => \A o \in Objects : Settled(o)
<1>1. Range(<<>>) = {}
  BY DEF Range
<1> QED BY <1>1 DEF Quiet, Settled

LEMMA Start == Init => IInv
<1> SUFFICES ASSUME Init PROVE IInv
  OBVIOUS
<1>1. Range(events) = {} /\ Range(replies) = {} /\ Range(asked) = {}
  BY DEF Init, Range
<1>2. TypeOK
  <2>1. /\ events \in Seq(Event) /\ asked \in Seq(Fetch) /\ replies \in Seq(Reply)
    BY DEF Init
  <2>2. spent \in [fetches : 0..MaxFetches, lists : 0..MaxLists, gets : 0..MaxGets]
    BY ProxyAssumption DEF Init
  <2>3. /\ proxy \in Versions /\ made \in Versions /\ props \in Versions
        /\ revision \in Versions /\ version \in Versions
    BY DEF Init, Versions
  <2>4. changes \in 0..MaxChanges
    BY ProxyAssumption DEF Init
  <2>5. \A o \in Objects : proxy[o] \in {0, made[o]} /\ (proxy[o] = 0 => props[o] = 0)
    BY DEF Init
  <2>6. /\ announced \subseteq {o \in Objects : proxy[o] # 0} /\ wanted \subseteq Objects
        /\ closed \in BOOLEAN
    BY DEF Init
  <2> QED BY <2>1, <2>2, <2>3, <2>4, <2>5, <2>6 DEF TypeOK, Versions
<1>3. ClosedIsEmpty /\ Asked /\ Current
  BY <1>1 DEF Init, ClosedIsEmpty, Asked, Current
<1>4. Delivered
  BY <1>1 DEF Init, Delivered, Behind
<1>5. LastEvent
  BY DEF Init, LastEvent, Latest
<1>6. Followed
  BY DEF Init, Followed, Accounted, UpToDate
<1> QED BY <1>2, <1>3, <1>4, <1>5, <1>6 DEF IInv

\* The invariant that ties BlueZ's objects, the events and replies under way
\* and the client's maps together.
THEOREM Invariant == Spec => []IInv
<1>1. IInv /\ [Next]_vars => IInv'
  BY TypeStep, ClosedStep, DeliveredStep, LastEventStep, AskedStep, CurrentStep,
     FollowedStep DEF IInv
<1> QED BY Start, <1>1, PTL DEF Spec

\* Every variable keeps its type: at most one proxy per path, the last one made.
THEOREM TypeCorrect == Spec => []TypeOK
<1>1. IInv => TypeOK
  BY DEF IInv
<1> QED BY Invariant, <1>1, PTL

\* A closed client has no proxies, whatever answers come in afterwards.
THEOREM ClosedStaysEmpty == Spec => []ClosedIsEmpty
<1>1. IInv => ClosedIsEmpty
  BY DEF IInv
<1> QED BY Invariant, <1>1, PTL

\* When nothing is under way, the proxies are BlueZ's objects with BlueZ's
\* properties.
THEOREM Converges == Spec => []ProxiesMatchBluez
<1>1. IInv => ProxiesMatchBluez
  BY QuietSettles DEF IInv, Followed, Accounted, UpToDate, ProxiesMatchBluez, Quiet
<1> QED BY Invariant, <1>1, PTL

\* An object that appeared was announced, unless the application knew it before.
THEOREM Announces == Spec => []PresentIsAnnounced
<1>1. IInv => PresentIsAnnounced
  BY QuietSettles DEF IInv, Followed, Accounted, PresentIsAnnounced, Present, Quiet
<1> QED BY Invariant, <1>1, PTL

\* No reply of a refresh takes a proxy back to older properties.
THEOREM RefreshesForward == Spec => RefreshNeverOlder
<1> DEFINE A == \A o \in Objects :
         Len(replies') < Len(replies) /\ Head(replies).fetch.type = "refresh"
           /\ proxy[o] # 0 /\ proxy'[o] = proxy[o]
           => props'[o] >= props[o]
<1>1. IInv /\ [Next]_vars => [A]_vars
  <2> SUFFICES ASSUME IInv, Next, NEW o \in Objects,
                      Len(replies') < Len(replies), Head(replies).fetch.type = "refresh",
                      proxy[o] # 0, proxy'[o] = proxy[o]
               PROVE  props'[o] >= props[o]
    OBVIOUS
  <2>0. TypeOK /\ replies \in Seq(Reply) /\ Len(replies) \in Nat /\ props[o] \in Nat
    <3>1. TypeOK /\ replies \in Seq(Reply) /\ props[o] \in Nat
      BY DEF IInv, TypeOK
    <3> QED BY <3>1
  <2>1. CASE ApplyRefresh
    <3> DEFINE r == Head(replies)
               q == r.fetch.object
    <3>1. replies # <<>> /\ r \in Range(replies) /\ r.seen \in Versions
      BY <2>0, <2>1, Taken, Heads DEF ApplyRefresh, Reply, Versions
    <3>2. CASE UNCHANGED maps
      BY <2>0, <3>2 DEF maps
    <3>3. CASE /\ r.seen[q] # 0 /\ proxy[q] = r.fetch.proxy
               /\ revision[q] = r.fetch.revision /\ Updated({q}, r.seen)
      <4>1. props'[o] = IF o = q THEN r.seen[o] ELSE props[o]
        BY <3>3 DEF Updated
      <4>2. o = q => props[o] <= r.seen[o]
        BY <3>1, <3>3 DEF IInv, Current, Newer
      <4> QED BY <2>0, <3>1, <4>1, <4>2 DEF Versions
    <3> QED BY <2>1, <3>2, <3>3 DEF ApplyRefresh
  <2>2. CASE ApplyList
    BY <2>2 DEF ApplyList
  <2>3. CASE Answer
    <3>1. PICK r : replies' = Append(replies, r)
      BY <2>3 DEF Answer
    <3>2. Len(replies') = Len(replies) + 1
      BY <2>0, <3>1
    <3> QED BY <2>0, <3>2
  <2>4. CASE replies' = replies
    BY <2>0, <2>4
  <2>5. ApplyRefresh \/ ApplyList \/ Answer \/ replies' = replies
    BY DEF Next, HandleProperties, HandleRemoved, GetProxy, Refresh, List, Close, Change
  <2> QED BY <2>1, <2>2, <2>3, <2>4, <2>5
<1> QED BY Invariant, <1>1, PTL DEF Spec, RefreshNeverOlder

=============================================================================
